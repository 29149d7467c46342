---------------------------- MODULE ConfigProofs ----------------------------
(***************************************************************************)
(* Theorems about ConfigManager, for every metabase, every set of pools,   *)
(* sites and applications, and any number of changes.  The tables are      *)
(* computed element by element: the first lemmas are an induction principle*)
(* for that, as a fact about sets of numbers.                              *)
(***************************************************************************)
EXTENDS ConfigManager, FiniteSetTheorems, SequenceTheorems, WellFoundedInduction, TLAPS

-----------------------------------------------------------------------------
\* Every set of natural numbers has a least element,
LEMMA LeastNumber ==
  ASSUME NEW T \in SUBSET Nat, T # {}
  PROVE  \E x \in T : \A y \in T : ~(y < x)
<1> DEFINE R == {ss \in Nat \X Nat : ss[1] < ss[2]}
<1>1. IsWellFoundedOn(R, Nat)
  BY NatLessThanWellFounded, Zenon DEF OpToRel
<1>2. \E x \in T : \A y \in T : ~ (<<y, x>> \in R)
  <2> HIDE DEF R
  <2> QED BY <1>1, WFMin
<1> QED BY <1>2

\* so that a set which holds 0 and, below n, with each number the next, holds all
\* numbers up to n.
LEMMA UpTo ==
  ASSUME NEW n \in Nat, NEW S, 0 \in S, \A i \in 1..n : i - 1 \in S => i \in S
  PROVE  0..n \subseteq S
<1> DEFINE T == {i \in Nat : i <= n /\ i \notin S}
<1> SUFFICES ASSUME T # {} PROVE FALSE
  OBVIOUS
<1>1. PICK x \in T : \A y \in T : ~(y < x)
  BY LeastNumber
<1>2. x \in 1..n /\ x \notin S
  OBVIOUS
<1>3. x - 1 \in Nat /\ x - 1 < x /\ x - 1 <= n
  BY <1>2
<1>4. x - 1 \in S
  BY <1>1, <1>3
<1> QED BY <1>4, <1>2

\* Functions of n steps: G says what each of them does to an element of D, and f is
\* the way they lead from d.
Stepwise(G, n, D) == G \in [1..n -> [D -> D]]
Leads(f, d, G, n, D) ==
  f \in [0..n -> D] /\ f[0] = d /\ \A i \in 1..n : f[i] = G[i][f[i - 1]]
SameSteps(f, g, n) ==
  f[0] = g[0] /\ \A i \in 1..n : f[i - 1] = g[i - 1] => f[i] = g[i]
SameUpTo(f, g, n) == \A i \in 0..n : f[i] = g[i]

\* There is such a way: the recursive definitions define something.
LEMMA IterationExists ==
  ASSUME NEW n, n \in Nat, NEW D, NEW d, d \in D, NEW G, Stepwise(G, n, D)
  PROVE  \E f : Leads(f, d, G, n, D)
<1> USE DEF Stepwise
<1> DEFINE Good(m, f) == f[0] = d /\ \A i \in 1..m : f[i] = G[i][f[i - 1]]
           S == {m \in 0..n : \E f \in [0..m -> D] : Good(m, f)}
<1>1. 0 \in S
  <2> DEFINE f == [i \in 0..0 |-> d]
  <2>1. f \in [0..0 -> D] /\ Good(0, f)
    OBVIOUS
  <2>2. \E h \in [0..0 -> D] : Good(0, h)
    <3> HIDE DEF f, Good
    <3> QED BY <2>1
  <2> QED BY <2>2
<1>2. ASSUME NEW m \in 1..n, m - 1 \in S
      PROVE  m \in S
  <2>1. PICK f \in [0..m-1 -> D] : Good(m - 1, f)
    BY <1>2
  <2> DEFINE g == [i \in 0..m |-> IF i = m THEN G[m][f[m - 1]] ELSE f[i]]
  <2>2. G[m][f[m - 1]] \in D
    OBVIOUS
  <2>3. g \in [0..m -> D]
    BY <2>2
  <2>4. Good(m, g)
    <3>1. g[0] = d
      BY <2>1
    <3>2. ASSUME NEW i \in 1..m PROVE g[i] = G[i][g[i - 1]]
      <4>1. CASE i = m
        BY <4>1
      <4>2. CASE i # m
        <5>1. i \in 1..(m - 1) /\ i - 1 \in 0..m /\ i - 1 # m
          BY <4>2
        <5>2. f[i] = G[i][f[i - 1]]
          BY <5>1, <2>1
        <5>3. g[i] = f[i] /\ g[i - 1] = f[i - 1]
          BY <4>2, <5>1
        <5> QED BY <5>2, <5>3
      <4> QED BY <4>1, <4>2
    <3> QED BY <3>1, <3>2
  <2>5. \E h \in [0..m -> D] : Good(m, h)
    <3> HIDE DEF g, Good
    <3> QED BY <2>3, <2>4
  <2>6. m \in 0..n
    OBVIOUS
  <2> QED
    <3> HIDE DEF Good
    <3> QED BY <2>5, <2>6, Zenon
<1>3. 0..n \subseteq S
  <2> HIDE DEF S
  <2> QED BY <1>1, <1>2, UpTo
<1>4. PICK f \in [0..n -> D] : Good(n, f)
  BY <1>3
<1>5. Leads(f, d, G, n, D)
  BY <1>4 DEF Leads
<1> QED BY <1>5, Zenon

\* Two functions that start alike and go on alike are equal.
LEMMA IterationUnique ==
  ASSUME NEW n, n \in Nat, NEW f, NEW g, SameSteps(f, g, n)
  PROVE  SameUpTo(f, g, n)
<1> USE DEF SameSteps, SameUpTo
<1> DEFINE S == {i \in 0..n : f[i] = g[i]}
<1>1. 0 \in S
  OBVIOUS
<1>2. \A i \in 1..n : i - 1 \in S => i \in S
  OBVIOUS
<1>3. 0..n \subseteq S
  <2> HIDE DEF S
  <2> QED BY <1>1, <1>2, UpTo
<1> QED BY <1>3

-----------------------------------------------------------------------------
(***************************************************************************)
(* Types of the tables.                                                    *)
(***************************************************************************)
Metabases == [Key -> Entry]
Tables == [Object -> DataObject]
Kinds == {Pool, Site, App}

\* A kind is made of objects.
LEMMA KindOfObjects == \A kind \in Kinds : kind \subseteq Object
  BY DEF Kinds, Object

\* A site and a URL make an application,
LEMMA AppsAreObjects ==
  /\ \A s \in Site : RootOf(s) \in App /\ RootOf(s) \in Object /\ AppsOf(s) \subseteq App
  /\ \A a \in App : a[1] \in Site /\ a[1] \in Object /\ RootOf(a[1]) \in Object
  BY UrlAssumption DEF RootOf, AppsOf, App, Object

\* new objects are well typed,
LEMMA NewObjectType ==
  ASSUME NEW v \in Value, NEW n \in Nat
  PROVE  NewObject(v, n) \in DataObject
  BY DEF NewObject, DataObject

\* and so is what is read of an object.
LEMMA ReadObjectType ==
  ASSUME NEW m \in Metabases, NEW k \in Object
  PROVE  Effective(m, k) \in Value /\ ReadObject(m, k) \in DataObject
<1>1. k \in Key /\ W3SVC \in Key
  BY DEF Key
<1>2. m[k] \in Entry /\ m[W3SVC] \in Entry
  BY <1>1 DEF Metabases
<1>3. Effective(m, k) \in Value
  BY <1>2 DEF Effective, Entry
<1>4. m[k].cmd \in Nat
  BY <1>2 DEF Entry
<1> QED BY <1>3, <1>4, NewObjectType DEF ReadObject

\* No objects.
LEMMA EmptyTableType == NoObject \in DataObject /\ EmptyTable \in Tables
<1>1. Absent \in Value /\ Empty \in Value
  BY DEF Value
<1>2. NoObject \in DataObject
  BY <1>1, NewObjectType DEF NoObject
<1> QED BY <1>2 DEF EmptyTable, Tables

LEMMA ReadAllType ==
  ASSUME NEW m \in Metabases, NEW kind \in Kinds, NEW t \in Tables
  PROVE  ReadAll(m, kind, t) \in Tables
  BY ReadObjectType DEF ReadAll, Tables

LEMMA ReadPoolOrSiteType ==
  ASSUME NEW m \in Metabases, NEW t \in Tables, NEW e \in Element, e.key \in Object
  PROVE  ReadPoolOrSite(m, t, e) \in Tables
<1> DEFINE deleted == "DELETE" \in e.type
           cmd == "SET" \in e.type /\ e.cmd
           base == IF deleted THEN NewObject(Empty, 0) ELSE ReadObject(m, e.key)
           new == [base EXCEPT !.DeleteWhenDone = deleted, !.cmdChanged = cmd]
<1>1. base \in DataObject
  <2>1. Empty \in Value
    BY DEF Value
  <2> QED BY <2>1, ReadObjectType, NewObjectType
<1>2. deleted \in BOOLEAN /\ cmd \in BOOLEAN
  BY DEF Element
<1>3. new \in DataObject
  <2> HIDE DEF base, deleted, cmd
  <2> QED BY <1>1, <1>2 DEF DataObject
<1>4. ReadPoolOrSite(m, t, e) \in {t, [t EXCEPT ![e.key] = new]}
  BY Zenon DEF ReadPoolOrSite
<1> HIDE DEF new
<1> QED BY <1>3, <1>4 DEF Tables

LEMMA DeleteThisURLType ==
  ASSUME NEW master \in Tables, NEW t \in Tables, NEW doomed
  PROVE  DeleteThisURLFromTable(master, t, doomed) \in Tables
<1> SUFFICES ASSUME NEW k \in Object
             PROVE  DeleteThisURLFromTable(master, t, doomed)[k] \in DataObject
  BY DEF DeleteThisURLFromTable, Tables
<1>1. master[k] \in DataObject /\ t[k] \in DataObject
  BY DEF Tables
<1>2. \A o \in DataObject : [o EXCEPT !.DeleteWhenDone = TRUE] \in DataObject
  BY DEF DataObject
<1> QED BY <1>1, <1>2 DEF DeleteThisURLFromTable

LEMMA ReadApplicationType ==
  ASSUME NEW m \in Metabases, NEW master \in Tables, NEW t \in Tables,
         NEW e \in Element, e.key \in Object
  PROVE  ReadApplication(m, master, t, e) \in Tables
<1>1. DeleteThisURLFromTable(master, t, DeleteSubApplications(e)) \in Tables
  BY DeleteThisURLType
<1>2. [t EXCEPT ![e.key] = ReadObject(m, e.key)] \in Tables
  BY ReadObjectType DEF Tables
<1>3. ReadApplication(m, master, t, e) \in
        {t, DeleteThisURLFromTable(master, t, DeleteSubApplications(e)),
         [t EXCEPT ![e.key] = ReadObject(m, e.key)]}
  BY Zenon DEF ReadApplication
<1> QED BY <1>1, <1>2, <1>3

LEMMA ReadElementType ==
  ASSUME NEW m \in Metabases, NEW master \in Tables, NEW kind \in Kinds, NEW t \in Tables,
         NEW e \in Element
  PROVE  ReadElement(m, master, kind, t, e) \in Tables
<1>1. CASE ~Concerns(e, kind)
  BY <1>1 DEF ReadElement
<1>2. CASE Concerns(e, kind)
  <2>1. e.key \in Object
    BY <1>2, KindOfObjects DEF Concerns, Object
  <2>2. ReadPoolOrSite(m, t, e) \in Tables /\ ReadApplication(m, master, t, e) \in Tables
    BY <2>1, ReadPoolOrSiteType, ReadApplicationType
  <2> QED BY <2>2 DEF ReadElement
<1> QED BY <1>1, <1>2

\* The elements of a notification are read one after the other.
LEMMA ReadElementsSteps ==
  ASSUME NEW m \in Metabases, NEW master \in Tables, NEW kind \in Kinds, NEW t \in Tables,
         NEW els \in Seq(Element)
  PROVE  \E read \in [0..Len(els) -> Tables] :
           /\ read[0] = t
           /\ \A i \in 1..Len(els) :
                read[i] = ReadElement(m, master, kind, read[i - 1], els[i])
           /\ ReadElements(m, master, kind, t, els) = read[Len(els)]
<1> DEFINE n == Len(els)
           Def(r) == [i \in 0..n |-> IF i = 0 THEN t
                        ELSE ReadElement(m, master, kind, r[i - 1], els[i])]
           G == [i \in 1..n |-> [u \in Tables |-> ReadElement(m, master, kind, u, els[i])]]
<1>1. n \in Nat /\ \A i \in 1..n : els[i] \in Element
  OBVIOUS
<1>2. G \in [1..n -> [Tables -> Tables]]
  BY <1>1, ReadElementType
<1>3. PICK f \in [0..n -> Tables] : f[0] = t /\ \A i \in 1..n : f[i] = G[i][f[i - 1]]
  <2>1. n \in Nat
    BY <1>1
  <2>2. Stepwise(G, n, Tables)
    BY <1>2 DEF Stepwise
  <2>3. \E f : Leads(f, t, G, n, Tables)
    <3> HIDE DEF G, n
    <3> QED BY <2>1, <2>2, IterationExists
  <2> HIDE DEF G, n
  <2> QED BY <2>3, Zenon DEF Leads
<1>4. f = Def(f)
  <2>1. ASSUME NEW i \in 1..n
        PROVE  f[i] = ReadElement(m, master, kind, f[i - 1], els[i])
    <3>1. f[i] = G[i][f[i - 1]] /\ i - 1 \in 0..n
      BY <1>1, <1>3
    <3>2. f[i - 1] \in Tables
      BY <3>1
    <3> QED BY <3>1, <3>2
  <2> QED BY <2>1, <1>3
<1> DEFINE read == CHOOSE r : r = Def(r)
<1>5. read = Def(read)
  <2> HIDE DEF Def
  <2> QED BY <1>4
<1>6. ReadElements(m, master, kind, t, els) = read[n]
  BY Zenon DEF ReadElements
<1> HIDE DEF read
<1>7. \A i \in 0..n : read[i] = f[i]
  <2>1. read[0] = f[0]
    BY <1>5, <1>3, <1>1
  <2>2. \A i \in 1..n : read[i - 1] = f[i - 1] => read[i] = f[i]
    BY <1>5, <1>4
  <2>3. n \in Nat
    BY <1>1
  <2> HIDE DEF n
  <2>4. SameSteps(read, f, n)
    BY <2>1, <2>2 DEF SameSteps
  <2>5. SameUpTo(read, f, n)
    BY <2>3, <2>4, IterationUnique
  <2> QED BY <2>5 DEF SameUpTo
<1>8. \A i \in 1..n : f[i] = ReadElement(m, master, kind, f[i - 1], els[i])
  BY <1>4, <1>1
<1> QED BY <1>6, <1>7, <1>8, <1>3, <1>1

LEMMA ReadNotificationType ==
  ASSUME NEW m \in Metabases, NEW master \in Tables, NEW kind \in Kinds, NEW t \in Tables,
         NEW els \in Seq(Element)
  PROVE  ReadFromMetabaseChangeNotification(m, master, kind, t, els) \in Tables
<1>1. ReadElements(m, master, kind, t, els) \in Tables
  BY ReadElementsSteps
<1> QED BY <1>1, ReadAllType DEF ReadFromMetabaseChangeNotification

\* Flags may be set in any object.
LEMMA FlagTypes ==
  ASSUME NEW o \in DataObject, NEW b \in BOOLEAN, NEW c \in BOOLEAN
  PROVE  /\ [o EXCEPT !.DeleteWhenDone = b] \in DataObject
         /\ [o EXCEPT !.SelfValid = b] \in DataObject
         /\ [o EXCEPT !.CrossValid = b] \in DataObject
         /\ [o EXCEPT !.InWas = b, !.changed = c] \in DataObject
  BY DEF DataObject

LEMMA DeclareDeletionsType ==
  ASSUME NEW master \in Tables, NEW t \in Tables
  PROVE  DeclareDeletions(master, t) \in Tables
<1> SUFFICES ASSUME NEW k \in Object PROVE DeclareDeletions(master, t)[k] \in DataObject
  BY DEF DeclareDeletions, Tables
<1>1. master[k] \in DataObject /\ t[k] \in DataObject
  BY DEF Tables
<1>2. [master[k] EXCEPT !.DeleteWhenDone = TRUE] \in DataObject
  BY <1>1, FlagTypes
<1> QED BY <1>1, <1>2 DEF DeclareDeletions

LEMMA MergeTableType ==
  ASSUME NEW t \in Tables, NEW temp \in Tables
  PROVE  MergeTable(t, temp) \in Tables
<1> SUFFICES ASSUME NEW k \in Object PROVE MergeTable(t, temp)[k] \in DataObject
  BY DEF MergeTable, Tables
<1>1. t[k] \in DataObject /\ temp[k] \in DataObject
  BY DEF Tables
<1> DEFINE c == temp[k].changed /\ ~(t[k].InWas /\ temp[k].val = t[k].val)
<1>2. t[k].InWas \in BOOLEAN /\ c \in BOOLEAN
  BY <1>1 DEF DataObject
<1>3. [temp[k] EXCEPT !.InWas = t[k].InWas, !.changed = c] \in DataObject
  <2> HIDE DEF c
  <2> QED BY <1>1, <1>2, FlagTypes
<1>4. MergeTable(t, temp)[k] \in
        {t[k], temp[k], [temp[k] EXCEPT !.InWas = t[k].InWas, !.changed = c]}
  BY DEF MergeTable
<1> HIDE DEF c
<1> QED BY <1>1, <1>3, <1>4

LEMMA SelfValidationType ==
  ASSUME NEW t \in Tables
  PROVE  PerformSelfValidation(t) \in Tables
<1> SUFFICES ASSUME NEW k \in Object PROVE PerformSelfValidation(t)[k] \in DataObject
  BY DEF PerformSelfValidation, Tables
<1>1. t[k] \in DataObject
  BY DEF Tables
<1>2. [t[k] EXCEPT !.SelfValid = FALSE] \in DataObject
  BY <1>1, FlagTypes
<1> QED BY <1>1, <1>2 DEF PerformSelfValidation

LEMMA InvalidateType ==
  ASSUME NEW t \in Tables, NEW S
  PROVE  Invalidate(t, S) \in Tables
<1> SUFFICES ASSUME NEW k \in Object PROVE Invalidate(t, S)[k] \in DataObject
  BY DEF Invalidate, Tables
<1>1. t[k] \in DataObject
  BY DEF Tables
<1>2. [t[k] EXCEPT !.CrossValid = FALSE] \in DataObject
  BY <1>1, FlagTypes
<1> QED BY <1>1, <1>2 DEF Invalidate

\* Cross validation invalidates applications, sites and applications again.
KnownOf(t, kind) == {k \in kind : QueryWillWasKnowAboutObject(t[k])}
FirstCross(t) == Invalidate(t, {a \in KnownOf(t, App) : t[a].val \notin KnownOf(t, Pool)})
SiteStands(t, s) ==
  IF Present(t[RootOf(s)]) THEN t[RootOf(s)].SelfValid /\ t[RootOf(s)].CrossValid
  ELSE t[s].val \in KnownOf(t, Pool)
SecondCross(t) == Invalidate(t, {s \in KnownOf(t, Site) : ~SiteStands(t, s)})
ThirdCross(t) == Invalidate(t, {a \in KnownOf(t, App) : a[1] \notin KnownOf(t, Site)})

LEMMA CrossSteps ==
  ASSUME NEW t
  PROVE  CrossValidateDataObjects(t) = ThirdCross(SecondCross(FirstCross(t)))
  BY Zenon DEF CrossValidateDataObjects, ThirdCross, SecondCross, FirstCross, SiteStands, KnownOf

LEMMA CrossValidationType ==
  ASSUME NEW t \in Tables
  PROVE  /\ FirstCross(t) \in Tables /\ SecondCross(FirstCross(t)) \in Tables
         /\ CrossValidateDataObjects(t) \in Tables
  BY CrossSteps, InvalidateType DEF FirstCross, SecondCross, ThirdCross

LEMMA ClearType ==
  ASSUME NEW t \in Tables
  PROVE  CopyInteresting(t) \in Tables /\ ClearDeletedObjects(t) \in Tables
<1>1. CopyInteresting(t) \in Tables
  BY EmptyTableType DEF CopyInteresting, Tables
<1>2. ASSUME NEW k \in Object PROVE ClearDeletedObjects(t)[k] \in DataObject
  <2> DEFINE o == t[k]
             known == QueryWillWasKnowAboutObject(o)
             new == [o EXCEPT !.InWas = known, !.changed = ~known, !.cmdChanged = FALSE,
                              !.SelfValid = TRUE, !.CrossValid = TRUE]
  <2>1. o \in DataObject
    BY DEF Tables
  <2>2. known \in BOOLEAN
    BY <2>1 DEF QueryWillWasKnowAboutObject, DataObject
  <2>3. new \in DataObject
    <3> HIDE DEF known, o
    <3> QED BY <2>1, <2>2 DEF DataObject
  <2>4. ClearDeletedObjects(t)[k] \in {NoObject, new}
    BY Zenon DEF ClearDeletedObjects
  <2> HIDE DEF new
  <2> QED BY <2>3, <2>4, EmptyTableType
<1>3. ClearDeletedObjects(t) = [k \in Object |-> ClearDeletedObjects(t)[k]]
  BY DEF ClearDeletedObjects
<1> QED BY <1>1, <1>2, <1>3 DEF Tables

\* What WAS knows.
WasTables == [Object -> WasObject]

LEMMA NothingInWasType == NotInWas \in WasObject /\ NothingInWas \in WasTables
<1>1. Absent \in Value
  BY DEF Value
<1> QED BY <1>1 DEF NotInWas, NothingInWas, WasObject, WasTables

LEMMA SetConfigurationType ==
  ASSUME NEW o \in DataObject, NEW old \in WasObject
  PROVE  SetConfiguration(o, old) \in WasObject
  BY DEF SetConfiguration, DataObject, WasObject

LEMMA CreateApplicationType ==
  ASSUME NEW w \in WasTables, NEW a, NEW v, NEW b \in BOOLEAN
  PROVE  CreateApplication(w, a, v, b) \in WasObject
  BY NothingInWasType DEF CreateApplication, WasObject, Value

LEMMA ModifyApplicationType ==
  ASSUME NEW w \in WasTables, NEW a \in Object, NEW o \in DataObject, NEW b \in BOOLEAN
  PROVE  ModifyApplication(w, a, o, b) \in WasObject
<1>1. w[a] \in WasObject
  BY DEF WasTables
<1> DEFINE v == IF o.changed THEN o.val ELSE w[a].val
<1>2. v \in Value
  BY <1>1 DEF WasObject, DataObject
<1>3. [w[a] EXCEPT !.val = v, !.InMetabase = b] \in WasObject
  <2> HIDE DEF v
  <2> QED BY <1>1, <1>2 DEF WasObject
<1>4. CreateApplication(w, a, o.val, b) \in WasObject
  BY CreateApplicationType
<1>5. ModifyApplication(w, a, o, b) \in
        {CreateApplication(w, a, o.val, b), w[a], [w[a] EXCEPT !.val = v, !.InMetabase = b]}
  BY DEF ModifyApplication
<1> HIDE DEF v
<1> QED BY <1>1, <1>3, <1>4, <1>5

LEMMA CreatePoolsAndSitesType ==
  ASSUME NEW c \in Tables, NEW w \in WasTables, NEW kind
  PROVE  CreatePoolsAndSites(c, w, kind) \in WasTables /\ UpdatePools(c, w) \in WasTables
  BY SetConfigurationType DEF CreatePoolsAndSites, UpdatePools, Tables, WasTables

LEMMA CreateApplicationsType ==
  ASSUME NEW c \in Tables, NEW w \in WasTables
  PROVE  CreateApplications(c, w) \in WasTables
<1> SUFFICES ASSUME NEW k \in Object PROVE CreateApplications(c, w)[k] \in WasObject
  BY DEF CreateApplications, WasTables
<1>1. w[k] \in WasObject /\ c[k] \in DataObject
  BY DEF WasTables, Tables
<1>2. ModifyApplication(w, k, c[k], TRUE) \in WasObject
  BY <1>1, ModifyApplicationType
<1>3. CASE k \in App
  <2>1. c[k[1]] \in DataObject
    BY <1>3, AppsAreObjects DEF Tables
  <2>2. NewObject(c[k[1]].val, 0) \in DataObject
    BY <2>1, NewObjectType DEF DataObject
  <2>3. ModifyApplication(w, k, NewObject(c[k[1]].val, 0), FALSE) \in WasObject
    BY <2>2, ModifyApplicationType
  <2> QED BY <1>1, <1>2, <2>3 DEF CreateApplications
<1>4. CASE k \notin App
  BY <1>4, <1>1 DEF CreateApplications
<1> QED BY <1>3, <1>4

LEMMA UpdateTypes ==
  ASSUME NEW c \in Tables, NEW w \in WasTables
  PROVE  UpdateSites(c, w) \in WasTables /\ UpdateApplications(c, w) \in WasTables
<1>1. UpdateApplications(c, w) \in WasTables
  BY ModifyApplicationType DEF UpdateApplications, Tables, WasTables
<1>2. ASSUME NEW k \in Object PROVE UpdateSites(c, w)[k] \in WasObject
  <2>1. w[k] \in WasObject /\ c[k] \in DataObject
    BY DEF WasTables, Tables
  <2>2. SetConfiguration(c[k], w[k]) \in WasObject
    BY <2>1, SetConfigurationType
  <2>3. CASE k \in App
    <3>1. c[k[1]] \in DataObject
      BY <2>3, AppsAreObjects DEF Tables
    <3>2. NewObject(c[k[1]].val, 0) \in DataObject
      BY <3>1, NewObjectType DEF DataObject
    <3>3. ModifyApplication(w, k, NewObject(c[k[1]].val, 0), FALSE) \in WasObject
      BY <3>2, ModifyApplicationType
    <3> QED BY <2>1, <2>2, <3>3 DEF UpdateSites
  <2>4. CASE k \notin App
    BY <2>4, <2>1, <2>2 DEF UpdateSites
  <2> QED BY <2>3, <2>4
<1>3. UpdateSites(c, w) \in WasTables
  BY <1>2 DEF UpdateSites, WasTables
<1> QED BY <1>1, <1>3

LEMMA DeleteTypes ==
  ASSUME NEW c \in Tables, NEW w \in WasTables
  PROVE  /\ DeleteApplications(c, w) \in WasTables /\ DeleteSites(c, w) \in WasTables
         /\ DeletePools(c, w) \in WasTables
  BY CreateApplicationType, NothingInWasType
     DEF DeleteApplications, DeleteSites, DeletePools, WasTables

LEMMA CreateWASObjectsType ==
  ASSUME NEW c \in Tables, NEW w \in WasTables
  PROVE  CreateWASObjects(c, w) \in WasTables
  BY CreatePoolsAndSitesType, CreateApplicationsType DEF CreateWASObjects

LEMMA ProcessChangesType ==
  ASSUME NEW c \in Tables, NEW w \in WasTables
  PROVE  ProcessChanges(c, w) \in WasTables
<1>1. CreateWASObjects(c, w) \in WasTables
  BY CreateWASObjectsType
<1>2. \A u \in WasTables : UpdateWASObjects(c, u) \in WasTables
  BY CreatePoolsAndSitesType, UpdateTypes DEF UpdateWASObjects
<1>3. \A u \in WasTables : DeleteWASObjects(c, u) \in WasTables
  BY DeleteTypes DEF DeleteWASObjects
<1> QED BY <1>1, <1>2, <1>3 DEF ProcessChanges

-----------------------------------------------------------------------------
(***************************************************************************)
(* Counting the items of a kind in a queue.                                *)
(***************************************************************************)
Number(s, op) == Cardinality({i \in DOMAIN s : s[i].op = op})

LEMMA NumberNat ==
  ASSUME NEW X, NEW s \in Seq(X), NEW op
  PROVE  /\ IsFiniteSet({i \in DOMAIN s : s[i].op = op})
         /\ Number(s, op) \in Nat
<1>1. DOMAIN s = 1..Len(s) /\ Len(s) \in Nat
  OBVIOUS
<1>2. IsFiniteSet(1..Len(s))
  BY <1>1, FS_Interval
<1>3. {i \in DOMAIN s : s[i].op = op} \in SUBSET (1..Len(s))
  BY <1>1
<1> QED BY <1>2, <1>3, FS_Subset, FS_CardinalityType DEF Number

LEMMA NumberEmpty == \A op : Number(<<>>, op) = 0
<1> SUFFICES ASSUME NEW op PROVE Number(<<>>, op) = 0
  OBVIOUS
<1>1. {i \in DOMAIN <<>> : <<>>[i].op = op} = {}
  OBVIOUS
<1> QED BY <1>1, FS_EmptySet DEF Number

LEMMA NumberAppend ==
  ASSUME NEW X, NEW s \in Seq(X), NEW x \in X, NEW op
  PROVE  Number(Append(s, x), op) = Number(s, op) + (IF x.op = op THEN 1 ELSE 0)
<1> DEFINE A == {i \in DOMAIN s : s[i].op = op}
           B == {i \in DOMAIN Append(s, x) : Append(s, x)[i].op = op}
           n == Len(s)
<1>1. /\ n \in Nat /\ DOMAIN s = 1..n /\ DOMAIN Append(s, x) = 1..(n + 1)
      /\ \A i \in 1..n : Append(s, x)[i] = s[i]
      /\ Append(s, x)[n + 1] = x
  OBVIOUS
<1>2. B = IF x.op = op THEN A \cup {n + 1} ELSE A
  BY <1>1
<1>3. n + 1 \notin A
  BY <1>1
<1>4. IsFiniteSet(A) /\ Cardinality(A) \in Nat /\ Number(s, op) = Cardinality(A)
  BY NumberNat DEF Number
<1>5. Cardinality(A \cup {n + 1}) = Cardinality(A) + 1
  <2> HIDE DEF A, n
  <2> QED BY <1>3, <1>4, FS_AddElement
<1>6. Number(Append(s, x), op) = Cardinality(B)
  BY DEF Number
<1> HIDE DEF A, B, n
<1> QED BY <1>2, <1>4, <1>5, <1>6

LEMMA NumberTail ==
  ASSUME NEW X, NEW s \in Seq(X), s # <<>>, NEW op
  PROVE  Number(s, op) = Number(Tail(s), op) + (IF Head(s).op = op THEN 1 ELSE 0)
<1> DEFINE t == Tail(s)
           n == Len(t)
           A == {i \in DOMAIN t : t[i].op = op}
           B == {i \in DOMAIN s : s[i].op = op}
           C == {i \in B : i # 1}
           f == [i \in A |-> i + 1]
<1>1. /\ n \in Nat /\ DOMAIN t = 1..n /\ DOMAIN s = 1..(n + 1) /\ Head(s) = s[1]
      /\ \A i \in 1..n : t[i] = s[i + 1]
  OBVIOUS
<1>2. f \in Bijection(A, C)
  <2>1. f \in [A -> C]
    BY <1>1
  <2>2. \A i, j \in A : f[i] = f[j] => i = j
    BY <1>1
  <2>3. ASSUME NEW e \in C PROVE \E i \in A : f[i] = e
    <3>1. e - 1 \in A /\ f[e - 1] = e
      BY <1>1
    <3> QED BY <3>1
  <2> HIDE DEF f
  <2> QED BY <2>1, <2>2, <2>3 DEF Bijection, Injection, Surjection, IsInjective
<1>3. IsFiniteSet(A) /\ Cardinality(A) \in Nat /\ Number(t, op) = Cardinality(A)
  <2>1. t \in Seq(X)
    OBVIOUS
  <2> QED BY <2>1, NumberNat DEF Number
<1>4. IsFiniteSet(C) /\ Cardinality(C) = Cardinality(A)
  <2> HIDE DEF A, C, f
  <2> QED BY <1>2, <1>3, FS_Bijection DEF ExistsBijection
<1>5. B = IF Head(s).op = op THEN C \cup {1} ELSE C
  BY <1>1
<1>6. Cardinality(C \cup {1}) = Cardinality(C) + 1
  <2>1. 1 \notin C
    OBVIOUS
  <2> HIDE DEF C
  <2> QED BY <2>1, <1>4, FS_AddElement
<1>7. Number(s, op) = Cardinality(B)
  BY DEF Number
<1> HIDE DEF A, B, C
<1> QED BY <1>3, <1>4, <1>5, <1>6, <1>7

-----------------------------------------------------------------------------
(***************************************************************************)
(* Type correctness.  The counters of CONFIG_MANAGER never become negative:*)
(* whoever decrements them does so for a crash that was recorded.          *)
(***************************************************************************)
Unrecovered ==
  (IF monitor.pc \in {"deciding", "rehook"} THEN 1 ELSE 0) + Number(mq, "recover")
Unfinished ==
  Unrecovered + Number(queue, "rehook") + (IF ct.rehook THEN 1 ELSE 0)
Tallies ==
  /\ ~inetinfo.up => inetinfo.life <= MaxCrashes
  /\ cm.InCrashedState >= Unrecovered
  /\ cm.ThreadProcessingDisabled >= Unfinished
ConfigInv == TypeOK /\ Tallies

Fields ==
  [ProcessChanges : BOOLEAN, ThreadProcessingDisabled : Nat, InCrashedState : Nat,
   ExitWorkLoop : BOOLEAN, BlockEvent : BOOLEAN, hrInit : BOOLEAN, abo : Life,
   hooked : Life, stopRequested : BOOLEAN, notSent : BOOLEAN]
QueueItems == [op : {"change", "rehook", "exit"}, els : Seq(Element)]
MainItems == [op : {"change", "recover", "stop"}, rows : Tables]

LEMMA ItemTypes ==
  /\ Rehook \in QueueItems /\ ExitThread \in QueueItems
  /\ Recover \in MainItems /\ StopItem \in MainItems
  /\ \A els \in Seq(Element) : MBChange(els) \in QueueItems
  /\ \A t \in Tables : ConfigChange(t) \in MainItems
  BY EmptyTableType DEF Rehook, ExitThread, Recover, StopItem, MBChange, ConfigChange,
     QueueItems, MainItems

\* TypeOK, with the sets named.
LEMMA TypeParts ==
  ASSUME TypeOK
  PROVE  /\ mb \in Metabases /\ table \in Tables /\ was \in WasTables /\ ct.temp \in Tables
         /\ queue \in Seq(QueueItems) /\ mq \in Seq(MainItems)
         /\ ct.els \in Seq(Element)
  BY DEF TypeOK, Metabases, Tables, WasTables, QueueItems, MainItems

\* The counters and the flags are stored in fields of their own.
LEMMA FieldTypes ==
  ASSUME NEW c \in Fields, NEW n \in Nat, NEW i \in Nat, NEW b \in BOOLEAN,
         NEW d \in BOOLEAN, NEW l \in Life, NEW h \in Life
  PROVE  /\ [c EXCEPT !.ThreadProcessingDisabled = n] \in Fields
         /\ [c EXCEPT !.abo = l, !.InCrashedState = i, !.hooked = h] \in Fields
         /\ [c EXCEPT !.hrInit = b, !.hooked = h] \in Fields
         /\ [c EXCEPT !.hooked = h] \in Fields
         /\ [c EXCEPT !.ProcessChanges = b, !.BlockEvent = d] \in Fields
         /\ [c EXCEPT !.BlockEvent = b] \in Fields
         /\ [c EXCEPT !.ExitWorkLoop = b] \in Fields
         /\ [c EXCEPT !.ProcessChanges = b] \in Fields
         /\ [c EXCEPT !.notSent = b] \in Fields
         /\ [c EXCEPT !.stopRequested = b] \in Fields
  BY DEF Fields

LEMMA TallyNat ==
  ASSUME TypeOK
  PROVE  /\ Number(mq, "recover") \in Nat /\ Number(queue, "rehook") \in Nat
         /\ Unrecovered \in Nat /\ Unfinished \in Nat
<1>1. Number(mq, "recover") \in Nat /\ Number(queue, "rehook") \in Nat
  BY TypeParts, NumberNat
<1> QED BY <1>1 DEF Unrecovered, Unfinished

\* The first states.
LEMMA InitType == Init => ConfigInv
<1> SUFFICES ASSUME Init PROVE ConfigInv
  OBVIOUS
<1> USE DEF Init
<1>1. 0 \in Life /\ 1 \in Life
  BY BoundsAssumption DEF Life
<1>2. InitialMetabase \in [Key -> Entry] /\ MaxChanges \in Nat
  BY MetabaseAssumption, BoundsAssumption
<1>3. TypeOK
  BY <1>1, <1>2, EmptyTableType, NothingInWasType DEF TypeOK, Tables, WasTables
<1>4. Tallies
  BY NumberEmpty DEF Tallies, Unrecovered, Unfinished
<1> QED BY <1>3, <1>4 DEF ConfigInv

\* Administrators.
LEMMA ChangeType ==
  ASSUME ConfigInv, NEW new \in Metabases, NEW k \in Key,
         NEW type \in SUBSET {"SET", "ADD", "DELETE", "DELETE_DATA"}, NEW b \in BOOLEAN,
         Change(new, k, type, b)
  PROVE  ConfigInv'
<1> DEFINE e == [key |-> k, type |-> type, cmd |-> b]
<1>0. TypeOK /\ Tallies
  BY DEF ConfigInv
<1>1. e \in Element
  BY DEF Element
<1>2. /\ changes < MaxChanges /\ changes' = changes + 1 /\ mb' = new
      /\ Notify(e) \/ NotifyTogether(e)
      /\ UNCHANGED <<inetinfo, monitor, cm, ct, queue, main, mq, table, was>>
  BY DEF Change
<1>3. notif' \in Seq(Seq(Element))
  <2>0. notif \in Seq(Seq(Element))
    BY <1>0 DEF TypeOK
  <2>1. <<e>> \in Seq(Element)
    BY <1>1
  <2> HIDE DEF e
  <2>2. CASE Notify(e)
    BY <2>0, <2>1, <2>2 DEF Notify
  <2>3. CASE NotifyTogether(e)
    <3>1. notif # <<>> /\ notif' = Front(notif) \o <<Append(Last(notif), e)>>
      BY <2>3 DEF NotifyTogether
    <3>2. Front(notif) \in Seq(Seq(Element)) /\ Last(notif) \in Seq(Element)
      BY <2>0, <3>1 DEF Front, Last
    <3>3. Append(Last(notif), e) \in Seq(Element)
      BY <3>2, <1>1
    <3>4. <<Append(Last(notif), e)>> \in Seq(Seq(Element))
      BY <3>3
    <3> QED BY <3>1, <3>2, <3>4
  <2> QED BY <1>2, <2>2, <2>3
<1>4. changes' \in 0..MaxChanges /\ mb' \in [Key -> Entry]
  BY <1>0, <1>2, BoundsAssumption DEF TypeOK, Metabases
<1>5. TypeOK'
  BY <1>0, <1>2, <1>3, <1>4 DEF TypeOK
<1>6. Tallies'
  BY <1>0, <1>2 DEF Tallies, Unrecovered, Unfinished
<1> QED BY <1>5, <1>6 DEF ConfigInv

LEMMA AdministrationType ==
  ASSUME ConfigInv, Administration
  PROVE  ConfigInv'
<1>0. TypeOK /\ mb \in Metabases /\ changes \in Nat
  BY TypeParts, BoundsAssumption DEF ConfigInv, TypeOK
<1>v. \A k \in Key : \A v \in Value : [mb EXCEPT ![k].val = v] \in Metabases
  BY <1>0 DEF Metabases, Entry
<1>c. \A k \in Key : [mb EXCEPT ![k].cmd = changes + 1] \in Metabases
  BY <1>0 DEF Metabases, Entry
<1>n. NoEntry \in Entry
  BY DEF NoEntry, Entry, Value
<1>t. /\ {"SET"} \in SUBSET {"SET", "ADD", "DELETE", "DELETE_DATA"}
      /\ {"ADD", "SET"} \in SUBSET {"SET", "ADD", "DELETE", "DELETE_DATA"}
      /\ {"DELETE"} \in SUBSET {"SET", "ADD", "DELETE", "DELETE_DATA"}
      /\ {"DELETE_DATA"} \in SUBSET {"SET", "ADD", "DELETE", "DELETE_DATA"}
  OBVIOUS
<1>k. Object \subseteq Key /\ App \subseteq Key
  BY DEF Key, Object
<1>1. ASSUME NEW k \in Key, NEW v \in Value, SetData(k, v)
      PROVE  ConfigInv'
  <2>1. Change([mb EXCEPT ![k].val = v], k, {"SET"}, FALSE)
    BY <1>1 DEF SetData
  <2>2. [mb EXCEPT ![k].val = v] \in Metabases
    BY <1>v
  <2> QED BY <2>1, <2>2, <1>t, ChangeType
<1>2. ASSUME NEW k \in Key, WriteCommand(k)
      PROVE  ConfigInv'
  <2>1. Change([mb EXCEPT ![k].cmd = changes + 1], k, {"SET"}, TRUE)
    BY <1>2 DEF WriteCommand
  <2>2. [mb EXCEPT ![k].cmd = changes + 1] \in Metabases
    BY <1>c
  <2> QED BY <2>1, <2>2, <1>t, ChangeType
<1>3. ASSUME NEW k \in Object, NEW v \in Value, AddObject(k, v)
      PROVE  ConfigInv'
  <2>1. Change([mb EXCEPT ![k].val = v], k, {"ADD", "SET"}, FALSE)
    BY <1>3 DEF AddObject
  <2>2. [mb EXCEPT ![k].val = v] \in Metabases /\ k \in Key
    BY <1>v, <1>k
  <2> QED BY <2>1, <2>2, <1>t, ChangeType
<1>4. ASSUME NEW k \in Object, DeleteObject(k)
      PROVE  ConfigInv'
  <2> DEFINE new == [j \in Key |-> IF j \in Subtree(k) THEN NoEntry ELSE mb[j]]
  <2>1. Change(new, k, {"DELETE"}, FALSE)
    BY <1>4 DEF DeleteObject
  <2>2. new \in Metabases /\ k \in Key
    BY <1>0, <1>n, <1>k DEF Metabases
  <2> HIDE DEF new
  <2> QED BY <2>1, <2>2, <1>t, ChangeType
<1>5. ASSUME NEW k \in App, DeleteData(k)
      PROVE  ConfigInv'
  <2>1. Change([mb EXCEPT ![k] = NoEntry], k, {"DELETE_DATA"}, FALSE)
    BY <1>5 DEF DeleteData
  <2>2. [mb EXCEPT ![k] = NoEntry] \in Metabases /\ k \in Key
    BY <1>0, <1>n, <1>k DEF Metabases
  <2> QED BY <2>1, <2>2, <1>t, ChangeType
<1> QED BY <1>1, <1>2, <1>3, <1>4, <1>5 DEF Administration

\* inetinfo and its monitor.
LEMMA InetinfoType ==
  ASSUME ConfigInv, Crash \/ Restart \/ StartMBChangeItem
  PROVE  ConfigInv'
<1>0. TypeOK /\ Tallies /\ queue \in Seq(QueueItems)
  BY TypeParts DEF ConfigInv
<1>1. CASE Crash
  <2>1. /\ inetinfo' = [inetinfo EXCEPT !.up = FALSE] /\ notif' = <<>>
        /\ mb' \in {mb, InitialMetabase} /\ inetinfo.life <= MaxCrashes
        /\ UNCHANGED <<changes, monitor, cm, ct, queue, main, mq, table, was>>
    BY <1>1 DEF Crash
  <2>a. inetinfo' \in [up : BOOLEAN, life : Life] /\ mb' \in [Key -> Entry]
    BY <1>0, <2>1, MetabaseAssumption DEF TypeOK
  <2>2. TypeOK'
    BY <1>0, <2>1, <2>a DEF TypeOK
  <2>3. Tallies'
    BY <1>0, <2>1 DEF Tallies, Unrecovered, Unfinished, TypeOK
  <2> QED BY <2>2, <2>3 DEF ConfigInv
<1>2. CASE Restart
  <2>1. /\ inetinfo' = [up |-> TRUE, life |-> inetinfo.life + 1] /\ ~inetinfo.up
        /\ UNCHANGED <<mb, changes, monitor, notif, cm, ct, queue, main, mq, table, was>>
    BY <1>2 DEF Restart
  <2>2. inetinfo' \in [up : BOOLEAN, life : Life]
    BY <1>0, <2>1, BoundsAssumption DEF TypeOK, Tallies, Life
  <2>3. TypeOK'
    BY <1>0, <2>1, <2>2 DEF TypeOK
  <2>4. Tallies'
    BY <1>0, <2>1 DEF Tallies, Unrecovered, Unfinished
  <2> QED BY <2>3, <2>4 DEF ConfigInv
<1>3. CASE StartMBChangeItem
  <2>1. /\ notif # <<>> /\ notif' = Tail(notif)
        /\ queue' = Append(queue, MBChange(Head(notif)))
        /\ UNCHANGED <<mb, changes, inetinfo, monitor, cm, ct, main, mq, table, was>>
    BY <1>3 DEF StartMBChangeItem
  <2>2. notif' \in Seq(Seq(Element)) /\ Head(notif) \in Seq(Element)
    BY <1>0, <2>1 DEF TypeOK
  <2>3. MBChange(Head(notif)) \in QueueItems
    BY <2>2, ItemTypes
  <2>4. queue' \in Seq(QueueItems)
    BY <1>0, <2>1, <2>3
  <2>5. TypeOK'
    BY <1>0, <2>1, <2>2, <2>4 DEF TypeOK, QueueItems
  <2>6. Number(queue', "rehook") = Number(queue, "rehook")
    <3>1. MBChange(Head(notif)).op # "rehook" /\ Number(queue, "rehook") \in Nat
      BY <1>0, TallyNat DEF MBChange
    <3> QED BY <1>0, <2>1, <2>3, <3>1, NumberAppend
  <2>7. Tallies'
    BY <1>0, <2>1, <2>6 DEF Tallies, Unrecovered, Unfinished
  <2> QED BY <2>5, <2>7 DEF ConfigInv
<1> QED BY <1>1, <1>2, <1>3

\* A request to stop adds no recovery.
LEMMA RequestStopType ==
  ASSUME ConfigInv, RequestStopService
  PROVE  /\ cm' = [cm EXCEPT !.stopRequested = TRUE]
         /\ mq' \in Seq(MainItems) /\ Number(mq', "recover") = Number(mq, "recover")
<1>0. TypeOK /\ mq \in Seq(MainItems) /\ Number(mq, "recover") \in Nat
  BY TypeParts, TallyNat DEF ConfigInv
<1>1. StopItem \in MainItems /\ StopItem.op # "recover"
  BY ItemTypes DEF StopItem
<1>2. /\ Append(mq, StopItem) \in Seq(MainItems)
      /\ Number(Append(mq, StopItem), "recover") = Number(mq, "recover")
  BY <1>0, <1>1, NumberAppend
<1> QED BY <1>0, <1>2 DEF RequestStopService

LEMMA MonitorType ==
  ASSUME ConfigInv, MonitorThread
  PROVE  ConfigInv'
<1>0. /\ TypeOK /\ Tallies /\ mq \in Seq(MainItems)
      /\ Number(mq, "recover") \in Nat /\ Number(queue, "rehook") \in Nat
  BY TypeParts, TallyNat DEF ConfigInv
<1>1. CASE RecordInetinfoCrash
  <2>1. /\ monitor.pc = "watching" /\ monitor' = [monitor EXCEPT !.pc = "deciding"]
        /\ cm' = [cm EXCEPT !.InCrashedState = @ + 1, !.ThreadProcessingDisabled = @ + 1]
        /\ UNCHANGED <<mq, mb, changes, inetinfo, notif, ct, queue, main, table, was>>
    BY <1>1 DEF RecordInetinfoCrash, MonitorUnchanged
  <2>a. monitor' \in [pc : {"watching", "deciding", "rehook", "failed", "stopped"},
                       watched : Life]
    BY <1>0, <2>1 DEF TypeOK
  <2>b. cm' \in Fields
    <3>1. /\ cm \in Fields /\ cm.InCrashedState + 1 \in Nat
          /\ cm.ThreadProcessingDisabled + 1 \in Nat
      BY <1>0 DEF TypeOK, Fields
    <3> QED BY <2>1, <3>1 DEF Fields
  <2>2. TypeOK'
    BY <1>0, <2>1, <2>a, <2>b DEF TypeOK, Fields
  <2>3. Tallies'
    BY <1>0, <2>1 DEF Tallies, Unrecovered, Unfinished, TypeOK
  <2> QED BY <2>2, <2>3 DEF ConfigInv
<1>2. CASE MonitorActionRehook
  <2>1. /\ monitor.pc = "deciding" /\ monitor' = [monitor EXCEPT !.pc = "rehook"]
        /\ UNCHANGED <<cm, mq, mb, changes, inetinfo, notif, ct, queue, main, table, was>>
    BY <1>2 DEF MonitorActionRehook, MonitorUnchanged
  <2>a. monitor' \in [pc : {"watching", "deciding", "rehook", "failed", "stopped"},
                       watched : Life]
    BY <1>0, <2>1 DEF TypeOK
  <2>2. TypeOK'
    BY <1>0, <2>1, <2>a DEF TypeOK
  <2>3. Tallies'
    BY <1>0, <2>1 DEF Tallies, Unrecovered, Unfinished, TypeOK
  <2> QED BY <2>2, <2>3 DEF ConfigInv
<1>3. CASE MonitorActionShutdown
  <2>1. /\ monitor.pc = "deciding" /\ monitor' = [monitor EXCEPT !.pc = "stopped"]
        /\ RequestStopService
        /\ UNCHANGED <<mb, changes, inetinfo, notif, ct, queue, main, table, was>>
    BY <1>3 DEF MonitorActionShutdown, MonitorUnchanged
  <2>2. /\ cm' = [cm EXCEPT !.stopRequested = TRUE]
        /\ mq' \in Seq(MainItems) /\ Number(mq', "recover") = Number(mq, "recover")
    BY <2>1, RequestStopType
  <2>a. monitor' \in [pc : {"watching", "deciding", "rehook", "failed", "stopped"},
                       watched : Life]
    BY <1>0, <2>1 DEF TypeOK
  <2>b. cm' \in Fields
    BY <1>0, <2>2 DEF TypeOK, Fields
  <2>3. TypeOK'
    BY <1>0, <2>1, <2>2, <2>a, <2>b DEF TypeOK, MainItems, Tables, Fields
  <2>4. Tallies'
    BY <1>0, <2>1, <2>2 DEF Tallies, Unrecovered, Unfinished, TypeOK
  <2> QED BY <2>3, <2>4 DEF ConfigInv
<1>4. CASE QueueRecoveryFromInetinfoCrash
  <2>1. /\ monitor.pc = "rehook" /\ monitor' = [pc |-> "watching", watched |-> inetinfo.life]
        /\ mq' = Append(mq, Recover)
        /\ UNCHANGED <<cm, mb, changes, inetinfo, notif, ct, queue, main, table, was>>
    BY <1>4 DEF QueueRecoveryFromInetinfoCrash, MonitorUnchanged
  <2>2. Recover \in MainItems /\ Recover.op = "recover"
    BY ItemTypes DEF Recover
  <2>3. mq' \in Seq(MainItems) /\ Number(mq', "recover") = Number(mq, "recover") + 1
    BY <1>0, <2>1, <2>2, NumberAppend
  <2>a. monitor' \in [pc : {"watching", "deciding", "rehook", "failed", "stopped"},
                       watched : Life]
    BY <1>0, <2>1 DEF TypeOK
  <2>4. TypeOK'
    BY <1>0, <2>1, <2>3, <2>a DEF TypeOK, MainItems, Tables
  <2>5. Tallies'
    BY <1>0, <2>1, <2>3 DEF Tallies, Unrecovered, Unfinished, TypeOK
  <2> QED BY <2>4, <2>5 DEF ConfigInv
<1>5. CASE RecordInetinfoMonitorStopped
  <2>1. /\ monitor.pc = "rehook" /\ monitor' = [monitor EXCEPT !.pc = "failed"]
        /\ UNCHANGED <<cm, mq, mb, changes, inetinfo, notif, ct, queue, main, table, was>>
    BY <1>5 DEF RecordInetinfoMonitorStopped, MonitorUnchanged
  <2>a. monitor' \in [pc : {"watching", "deciding", "rehook", "failed", "stopped"},
                       watched : Life]
    BY <1>0, <2>1 DEF TypeOK
  <2>2. TypeOK'
    BY <1>0, <2>1, <2>a DEF TypeOK
  <2>3. Tallies'
    BY <1>0, <2>1 DEF Tallies, Unrecovered, Unfinished, TypeOK
  <2> QED BY <2>2, <2>3 DEF ConfigInv
<1> QED BY <1>1, <1>2, <1>3, <1>4, <1>5 DEF MonitorThread

\* The config thread.
Threads ==
  [pc : {"listen", "blocked", "loop", "wait", "drop", "readPools", "readSites", "readApps",
         "finish", "exited"},
   abo : Life, els : Seq(Element), rehook : BOOLEAN, temp : Tables]

\* A step of the config thread has kept the types if what it changes is well typed.
LEMMA ConfigStepType ==
  ASSUME TypeOK, ConfigUnchanged, cm' \in Fields, ct' \in Threads,
         queue' \in Seq(QueueItems), mq' \in Seq(MainItems), table' \in Tables
  PROVE  TypeOK'
  BY DEF TypeOK, ConfigUnchanged, Fields, Threads, QueueItems, MainItems, Tables

LEMMA ConfigTypeParts ==
  ASSUME TypeOK
  PROVE  cm \in Fields /\ ct \in Threads
  BY DEF TypeOK, Fields, Threads, Tables

LEMMA NothingToDoType ==
  ASSUME TypeOK
  PROVE  NothingToDo \in Threads /\ ~NothingToDo.rehook
<1>1. cm.abo \in Life
  BY DEF TypeOK
<1> QED BY <1>1, EmptyTableType DEF NothingToDo, Threads

LEMMA ProcessingType ==
  ASSUME TypeOK, NEW els \in Seq(Element), NEW b \in BOOLEAN
  PROVE  Processing(els, b) \in Threads /\ Processing(els, b).rehook = b
<1>1. cm.abo \in Life /\ ct \in Threads
  BY ConfigTypeParts DEF TypeOK
<1> QED BY <1>1, EmptyTableType DEF Processing, Threads

\* Listening changes the hook and its result.
LEMMA StartListeningType ==
  ASSUME TypeOK, StartListening
  PROVE  /\ cm' \in Fields
         /\ cm'.ThreadProcessingDisabled = cm.ThreadProcessingDisabled
         /\ cm'.InCrashedState = cm.InCrashedState
<1> DEFINE h == IF Alive(cm.abo) THEN cm.abo ELSE cm.hooked
           b == Alive(cm.abo)
<1>1. cm \in Fields /\ h \in Life /\ b \in BOOLEAN
  BY ConfigTypeParts DEF Fields, Alive, TypeOK
<1>2. cm' = [cm EXCEPT !.hrInit = b, !.hooked = h]
  BY DEF StartListening
<1> HIDE DEF h, b
<1>3. cm' \in Fields
  BY <1>1, <1>2 DEF Fields
<1> QED BY <1>1, <1>2, <1>3 DEF Fields

\* An item taken from the queue.
LEMMA DequeueType ==
  ASSUME TypeOK, NEW op, Dequeue(op)
  PROVE  /\ queue # <<>> /\ Head(queue) \in QueueItems /\ Head(queue).op = op
         /\ queue' \in Seq(QueueItems)
         /\ op = "rehook" => Number(queue, "rehook") = Number(queue', "rehook") + 1
         /\ op # "rehook" => Number(queue, "rehook") = Number(queue', "rehook")
         /\ UNCHANGED <<mq, table>> /\ ConfigUnchanged
<1>0. queue \in Seq(QueueItems)
  BY TypeParts
<1>1. queue # <<>> /\ queue' = Tail(queue) /\ Head(queue).op = op
  BY DEF Dequeue
<1>2. queue' \in Seq(QueueItems) /\ Head(queue) \in QueueItems
  BY <1>0, <1>1
<1>3. Number(queue, "rehook")
        = Number(queue', "rehook") + (IF Head(queue).op = "rehook" THEN 1 ELSE 0)
  BY <1>0, <1>1, NumberTail
<1>4. Number(queue', "rehook") \in Nat
  BY <1>2, NumberNat
<1> QED BY <1>1, <1>2, <1>3, <1>4 DEF Dequeue

\* The counters after a step of the config thread.
LEMMA ConfigStepTallies ==
  ASSUME TypeOK, Tallies, ConfigUnchanged, cm' \in Fields, ct'.rehook \in BOOLEAN,
         Number(mq', "recover") = Number(mq, "recover"),
         Number(queue', "rehook") \in Nat,
         cm'.InCrashedState = cm.InCrashedState,
         cm'.ThreadProcessingDisabled - cm.ThreadProcessingDisabled >=
           (Number(queue', "rehook") + (IF ct'.rehook THEN 1 ELSE 0))
             - (Number(queue, "rehook") + (IF ct.rehook THEN 1 ELSE 0))
  PROVE  Tallies'
<1>1. /\ Number(mq, "recover") \in Nat /\ Number(queue, "rehook") \in Nat
      /\ cm.ThreadProcessingDisabled \in Nat /\ cm'.ThreadProcessingDisabled \in Nat
  BY TallyNat DEF TypeOK, Fields
<1>2. UNCHANGED <<inetinfo, monitor>>
  BY DEF ConfigUnchanged
<1> QED BY <1>1, <1>2 DEF Tallies, Unrecovered, Unfinished

\* What is read of a kind is a table.
LEMMA ReadKindType ==
  ASSUME ConfigInv, NEW pc, NEW kind \in Kinds, NEW next \in {"readSites", "readApps", "finish"},
         ReadKind(pc, kind, next)
  PROVE  ConfigInv'
<1>0. /\ TypeOK /\ Tallies /\ cm \in Fields /\ ct \in Threads
      /\ Number(queue, "rehook") \in Nat
  BY ConfigTypeParts, TallyNat DEF ConfigInv
<1>1. /\ mb \in Metabases /\ table \in Tables /\ ct.temp \in Tables /\ ct.els \in Seq(Element)
      /\ queue \in Seq(QueueItems) /\ mq \in Seq(MainItems)
  BY <1>0, TypeParts
<1> DEFINE t == IF ct.rehook THEN ReadAll(mb, kind, ct.temp)
                ELSE ReadFromMetabaseChangeNotification(mb, table, kind, ct.temp, ct.els)
<1>2. t \in Tables
  BY <1>1, ReadAllType, ReadNotificationType
<1>3. /\ ct' \in {NothingToDo, [ct EXCEPT !.pc = next, !.temp = t]}
      /\ UNCHANGED <<cm, queue, mq, table>> /\ ConfigUnchanged
  BY DEF ReadKind
<1> HIDE DEF t
<1>4. ct' \in Threads /\ (ct'.rehook => ct.rehook) /\ ct'.rehook \in BOOLEAN /\ ct.rehook \in BOOLEAN
  BY <1>0, <1>2, <1>3, NothingToDoType DEF Threads
<1>5. TypeOK'
  BY <1>0, <1>1, <1>3, <1>4, ConfigStepType
<1>6. Tallies'
  <2>1. /\ cm' = cm /\ queue' = queue /\ mq' = mq
        /\ cm.ThreadProcessingDisabled \in Nat
    BY <1>0, <1>3 DEF Fields
  <2>2. cm'.ThreadProcessingDisabled - cm.ThreadProcessingDisabled >=
           (Number(queue', "rehook") + (IF ct'.rehook THEN 1 ELSE 0))
             - (Number(queue, "rehook") + (IF ct.rehook THEN 1 ELSE 0))
    BY <1>0, <1>4, <2>1
  <2> QED BY <1>0, <1>3, <1>4, <2>1, <2>2, ConfigStepTallies
<1> QED BY <1>5, <1>6 DEF ConfigInv

LEMMA MergedType ==
  ASSUME TypeOK
  PROVE  MergeAndSelfValidateTables \in Tables /\ Merged \in Tables
<1>1. table \in Tables /\ ct.temp \in Tables
  BY TypeParts
<1>2. DeclareDeletions(table, ct.temp) \in Tables
  BY <1>1, DeclareDeletionsType
<1>3. MergeAndSelfValidateTables \in Tables
  BY <1>1, <1>2, MergeTableType, SelfValidationType DEF MergeAndSelfValidateTables
<1> QED BY <1>3, CrossValidationType DEF Merged

LEMMA ConfigThreadType ==
  ASSUME ConfigInv, ConfigThread
  PROVE  ConfigInv'
<1>0. /\ TypeOK /\ Tallies /\ cm \in Fields /\ ct \in Threads
      /\ Number(queue, "rehook") \in Nat /\ Number(mq, "recover") \in Nat
      /\ queue \in Seq(QueueItems) /\ mq \in Seq(MainItems) /\ table \in Tables
      /\ cm.ThreadProcessingDisabled \in Nat /\ ct.rehook \in BOOLEAN
  BY ConfigTypeParts, TypeParts, TallyNat DEF ConfigInv, Fields, Threads
\* Steps that leave the queue and the counters alone.
<1>s. ASSUME cm' \in Fields, cm'.InCrashedState = cm.InCrashedState,
             cm'.ThreadProcessingDisabled = cm.ThreadProcessingDisabled,
             ct' \in Threads, ct'.rehook => ct.rehook,
             UNCHANGED <<queue, mq, table>>, ConfigUnchanged
      PROVE  ConfigInv'
  <2>1. TypeOK'
    BY <1>0, <1>s, ConfigStepType
  <2>2. ct'.rehook \in BOOLEAN
    BY <1>s DEF Threads
  <2>3. Tallies'
    BY <1>0, <1>s, <2>2, ConfigStepTallies
  <2> QED BY <2>1, <2>3 DEF ConfigInv
<1>1. CASE StartListeningForChangeNotifications
  <2>1. /\ StartListening /\ ct' = [ct EXCEPT !.pc = "blocked"]
        /\ UNCHANGED <<queue, mq, table>> /\ ConfigUnchanged
    BY <1>1 DEF StartListeningForChangeNotifications
  <2>2. ct' \in Threads /\ ct'.rehook = ct.rehook
    BY <1>0, <2>1 DEF Threads
  <2> QED BY <1>0, <1>s, <2>1, <2>2, StartListeningType
<1>2. CASE Unblock
  <2>1. /\ ct' = [ct EXCEPT !.pc = "loop"]
        /\ UNCHANGED <<cm, queue, mq, table>> /\ ConfigUnchanged
    BY <1>2 DEF Unblock
  <2>2. ct' \in Threads /\ ct'.rehook = ct.rehook
    BY <1>0, <2>1 DEF Threads
  <2> QED BY <1>0, <1>s, <2>1, <2>2
<1>3. CASE CheckExitWorkLoop
  <2>1. /\ UNCHANGED <<queue, mq, table>> /\ ConfigUnchanged
        /\ ct' \in {[ct EXCEPT !.pc = "exited"], [ct EXCEPT !.pc = "wait"]}
        /\ cm' \in {cm, [cm EXCEPT !.hooked = 0]}
    BY <1>0, <1>3 DEF CheckExitWorkLoop, Fields
  <2>2. ct' \in Threads /\ ct'.rehook = ct.rehook
    BY <1>0, <2>1 DEF Threads
  <2>3. 0 \in Life
    BY BoundsAssumption DEF Life
  <2>4. /\ cm' \in Fields /\ cm'.InCrashedState = cm.InCrashedState
        /\ cm'.ThreadProcessingDisabled = cm.ThreadProcessingDisabled
    BY <1>0, <2>1, <2>3 DEF Fields
  <2> QED BY <1>s, <2>1, <2>2, <2>4
<1>4. CASE ProcessMetabaseChangeOnConfigThread \/ ExitChangeThreadItem
  <2>1. PICK op \in {"change", "exit"} : Dequeue(op)
    BY <1>4 DEF ProcessMetabaseChangeOnConfigThread, ExitChangeThreadItem
  <2>2. /\ Head(queue) \in QueueItems /\ queue' \in Seq(QueueItems)
        /\ Number(queue, "rehook") = Number(queue', "rehook")
        /\ UNCHANGED <<mq, table>> /\ ConfigUnchanged
    BY <1>0, <2>1, DequeueType
  <2>3. Head(queue).els \in Seq(Element)
    BY <2>2 DEF QueueItems
  <2>4. cm' = cm /\ ct' \in {NothingToDo, Processing(Head(queue).els, FALSE)}
    BY <1>4 DEF ProcessMetabaseChangeOnConfigThread, ExitChangeThreadItem
  <2>5. ct' \in Threads /\ ~ct'.rehook /\ ct'.rehook \in BOOLEAN
    BY <1>0, <2>3, <2>4, NothingToDoType, ProcessingType DEF Threads
  <2>6. TypeOK'
    BY <1>0, <2>2, <2>4, <2>5, ConfigStepType
  <2>7. Tallies'
    <3>1. cm'.ThreadProcessingDisabled - cm.ThreadProcessingDisabled >=
           (Number(queue', "rehook") + (IF ct'.rehook THEN 1 ELSE 0))
             - (Number(queue, "rehook") + (IF ct.rehook THEN 1 ELSE 0))
      BY <1>0, <2>2, <2>4, <2>5
    <3> QED BY <1>0, <2>2, <2>4, <2>5, <3>1, ConfigStepTallies
  <2> QED BY <2>6, <2>7 DEF ConfigInv
<1>5. CASE ProcessMetabaseCrashOnConfigThread
  <2>1. /\ Dequeue("rehook") /\ StartListening
        /\ ct' \in {NothingToDo, Processing(<<>>, TRUE)}
    BY <1>5 DEF ProcessMetabaseCrashOnConfigThread
  <2>2. /\ queue' \in Seq(QueueItems)
        /\ Number(queue, "rehook") = Number(queue', "rehook") + 1
        /\ UNCHANGED <<mq, table>> /\ ConfigUnchanged
    BY <1>0, <2>1, DequeueType
  <2>3. /\ cm' \in Fields /\ cm'.InCrashedState = cm.InCrashedState
        /\ cm'.ThreadProcessingDisabled = cm.ThreadProcessingDisabled
    BY <1>0, <2>1, StartListeningType
  <2>4. ct' \in Threads /\ ct'.rehook \in BOOLEAN
    <3>1. <<>> \in Seq(Element)
      OBVIOUS
    <3>2. Processing(<<>>, TRUE) \in Threads /\ NothingToDo \in Threads
      BY <1>0, <3>1, NothingToDoType, ProcessingType
    <3> QED BY <2>1, <3>2 DEF Threads
  <2>5. TypeOK'
    BY <1>0, <2>2, <2>3, <2>4, ConfigStepType
  <2>6. Tallies'
    <3>1. Number(queue', "rehook") \in Nat
      BY <2>2, NumberNat
    <3>2. cm'.ThreadProcessingDisabled - cm.ThreadProcessingDisabled >=
           (Number(queue', "rehook") + (IF ct'.rehook THEN 1 ELSE 0))
             - (Number(queue, "rehook") + (IF ct.rehook THEN 1 ELSE 0))
      BY <1>0, <2>2, <2>3, <2>4, <3>1
    <3> QED BY <1>0, <2>2, <2>3, <2>4, <3>1, <3>2, ConfigStepTallies
  <2> QED BY <2>5, <2>6 DEF ConfigInv
<1>6. CASE DropAllUninterestingMBChanges
  <2>1. /\ queue # <<>> /\ Head(queue).op = "change" /\ queue' = Tail(queue)
        /\ UNCHANGED <<cm, ct, mq, table>> /\ ConfigUnchanged
    BY <1>6 DEF DropAllUninterestingMBChanges, Droppable, CanIgnoreWorkItem
  <2>2. queue' \in Seq(QueueItems)
    BY <1>0, <2>1
  <2>3. Number(queue', "rehook") \in Nat
    BY <2>2, NumberNat
  <2>4. Number(queue, "rehook") = Number(queue', "rehook")
    <3>1. Number(queue, "rehook")
            = Number(Tail(queue), "rehook") + (IF Head(queue).op = "rehook" THEN 1 ELSE 0)
      BY <1>0, <2>1, NumberTail
    <3> QED BY <2>1, <2>3, <3>1
  <2>5. TypeOK'
    BY <1>0, <2>1, <2>2, ConfigStepType
  <2>6. Tallies'
    <3>1. cm'.ThreadProcessingDisabled - cm.ThreadProcessingDisabled >=
           (Number(queue', "rehook") + (IF ct'.rehook THEN 1 ELSE 0))
             - (Number(queue, "rehook") + (IF ct.rehook THEN 1 ELSE 0))
      BY <1>0, <2>1, <2>4
    <3> QED BY <1>0, <2>1, <2>3, <3>1, ConfigStepTallies
  <2> QED BY <2>5, <2>6 DEF ConfigInv
<1>7. CASE CreateTempDataObjectTables
  <2>1. /\ ct' = [ct EXCEPT !.pc = "readPools", !.abo = cm.abo]
        /\ UNCHANGED <<cm, queue, mq, table>> /\ ConfigUnchanged
    BY <1>7 DEF CreateTempDataObjectTables
  <2>2. ct' \in Threads /\ ct'.rehook = ct.rehook
    BY <1>0, <2>1 DEF Threads, Fields
  <2> QED BY <1>0, <1>s, <2>1, <2>2
<1>8. CASE ReadPools \/ ReadSites \/ ReadApps
  <2>1. Pool \in Kinds /\ Site \in Kinds /\ App \in Kinds
    BY DEF Kinds
  <2> QED BY <1>8, <2>1, ReadKindType DEF ReadPools, ReadSites, ReadApps
<1>9. CASE FinishChangeProcessing
  <2>1. /\ mq' = Append(mq, ConfigChange(CopyInteresting(Merged)))
        /\ table' = ClearDeletedObjects(Merged)
        /\ cm' = ProcessingAllowed /\ ct' = NothingToDo
        /\ UNCHANGED queue /\ ConfigUnchanged
    BY <1>9 DEF FinishChangeProcessing
  <2>2. table' \in Tables /\ CopyInteresting(Merged) \in Tables
    BY <1>0, <2>1, MergedType, ClearType
  <2>3. /\ ConfigChange(CopyInteresting(Merged)) \in MainItems
        /\ ConfigChange(CopyInteresting(Merged)).op # "recover"
    BY <2>2, ItemTypes DEF ConfigChange
  <2>4. mq' \in Seq(MainItems) /\ Number(mq', "recover") = Number(mq, "recover")
    BY <1>0, <2>1, <2>3, NumberAppend
  <2>5. ct.rehook => cm.ThreadProcessingDisabled - 1 \in Nat
    BY <1>0 DEF Tallies, Unfinished, Unrecovered
  <2>6. /\ cm' \in Fields /\ cm'.InCrashedState = cm.InCrashedState
        /\ cm'.ThreadProcessingDisabled
             = cm.ThreadProcessingDisabled - (IF ct.rehook THEN 1 ELSE 0)
    <3>1. CASE ct.rehook
      <4>1. cm' = [cm EXCEPT !.ThreadProcessingDisabled = cm.ThreadProcessingDisabled - 1]
        BY <2>1, <3>1 DEF ProcessingAllowed
      <4> QED BY <1>0, <2>5, <3>1, <4>1 DEF Fields
    <3>2. CASE ~ct.rehook
      BY <1>0, <2>1, <3>2 DEF ProcessingAllowed
    <3> QED BY <3>1, <3>2
  <2>7. ct' \in Threads /\ ~ct'.rehook /\ ct'.rehook \in BOOLEAN
    BY <1>0, <2>1, NothingToDoType DEF Threads
  <2>8. TypeOK'
    BY <1>0, <2>1, <2>2, <2>4, <2>6, <2>7, ConfigStepType
  <2>9. Tallies'
    <3>1. queue' = queue
      BY <2>1
    <3>2. cm'.ThreadProcessingDisabled - cm.ThreadProcessingDisabled >=
           (Number(queue', "rehook") + (IF ct'.rehook THEN 1 ELSE 0))
             - (Number(queue, "rehook") + (IF ct.rehook THEN 1 ELSE 0))
      BY <1>0, <2>6, <2>7, <3>1
    <3> QED BY <1>0, <2>1, <2>4, <2>6, <2>7, <3>1, <3>2, ConfigStepTallies
  <2> QED BY <2>8, <2>9 DEF ConfigInv
<1>10. CASE SendMainThreadChangesFails
  <2>1. /\ table' = Merged /\ cm' = [cm EXCEPT !.notSent = TRUE] /\ ct' = NothingToDo
        /\ UNCHANGED <<queue, mq>> /\ ConfigUnchanged
    BY <1>10 DEF SendMainThreadChangesFails
  <2>2. table' \in Tables
    BY <1>0, <2>1, MergedType
  <2>3. /\ cm' \in Fields /\ cm'.InCrashedState = cm.InCrashedState
        /\ cm'.ThreadProcessingDisabled = cm.ThreadProcessingDisabled
    BY <1>0, <2>1 DEF Fields
  <2>4. ct' \in Threads /\ ~ct'.rehook /\ ct'.rehook \in BOOLEAN
    BY <1>0, <2>1, NothingToDoType DEF Threads
  <2>5. TypeOK'
    BY <1>0, <2>1, <2>2, <2>3, <2>4, ConfigStepType
  <2>6. Tallies'
    <3>1. queue' = queue /\ mq' = mq
      BY <2>1
    <3>2. cm'.ThreadProcessingDisabled - cm.ThreadProcessingDisabled >=
           (Number(queue', "rehook") + (IF ct'.rehook THEN 1 ELSE 0))
             - (Number(queue, "rehook") + (IF ct.rehook THEN 1 ELSE 0))
      BY <1>0, <2>3, <2>4, <3>1
    <3> QED BY <1>0, <2>1, <2>3, <2>4, <3>1, <3>2, ConfigStepTallies
  <2> QED BY <2>5, <2>6 DEF ConfigInv
<1> QED
  BY <1>1, <1>2, <1>3, <1>4, <1>5, <1>6, <1>7, <1>8, <1>9, <1>10 DEF ConfigThread

\* The main thread.
Mains ==
  [pc : {"wait", "readPools", "readSites", "readApps", "finish", "run", "flagged",
         "stopping", "terminate", "join", "done"},
   abo : Life, next : {"stopping", "join"}]

LEMMA MainStepType ==
  ASSUME TypeOK, MainUnchanged, cm' \in Fields, main' \in Mains,
         queue' \in Seq(QueueItems), mq' \in Seq(MainItems), table' \in Tables,
         was' \in WasTables
  PROVE  TypeOK'
  BY DEF TypeOK, MainUnchanged, Fields, Mains, QueueItems, MainItems, Tables, WasTables

\* Sums of smaller numbers are smaller.
LEMMA Sums ==
  ASSUME NEW a \in Nat, NEW b \in Nat, NEW m \in Nat, NEW n \in Nat, NEW p \in Nat, NEW q \in Nat,
         n <= m, q <= p
  PROVE  /\ a + n \in Nat /\ a + n <= a + m /\ (a + n) + q + b \in Nat
         /\ (a + n) + q + b <= (a + m) + p + b
  OBVIOUS

\* Steps of the main thread that leave the counters and the items of a recovery alone.
LEMMA MainStepInv ==
  ASSUME ConfigInv, MainUnchanged, cm' \in Fields, main' \in Mains,
         queue' \in Seq(QueueItems), mq' \in Seq(MainItems), table' \in Tables,
         was' \in WasTables,
         cm'.InCrashedState = cm.InCrashedState,
         cm'.ThreadProcessingDisabled = cm.ThreadProcessingDisabled,
         Number(mq', "recover") <= Number(mq, "recover"),
         Number(queue', "rehook") <= Number(queue, "rehook")
  PROVE  ConfigInv'
<1>1. /\ TypeOK /\ Tallies /\ Number(mq, "recover") \in Nat /\ Number(queue, "rehook") \in Nat
      /\ Number(mq', "recover") \in Nat /\ Number(queue', "rehook") \in Nat
      /\ cm.ThreadProcessingDisabled \in Nat /\ cm.InCrashedState \in Nat
  BY TallyNat, NumberNat DEF ConfigInv, TypeOK
<1>2. TypeOK'
  BY <1>1, MainStepType
<1>3. UNCHANGED <<inetinfo, monitor, ct>>
  BY DEF MainUnchanged
<1>4. PICK a \in {0, 1}, b \in {0, 1} :
        /\ Unrecovered = a + Number(mq, "recover")
        /\ Unrecovered' = a + Number(mq', "recover")
        /\ Unfinished = Unrecovered + Number(queue, "rehook") + b
        /\ Unfinished' = Unrecovered' + Number(queue', "rehook") + b
  BY <1>3 DEF Unrecovered, Unfinished
<1>5. a \in Nat /\ b \in Nat
  OBVIOUS
<1>6. /\ Unrecovered \in Nat /\ Unrecovered' \in Nat /\ Unrecovered' <= Unrecovered
      /\ Unfinished \in Nat /\ Unfinished' \in Nat /\ Unfinished' <= Unfinished
  <2>1. PICK m \in Nat, n \in Nat, p \in Nat, q \in Nat :
          /\ m = Number(mq, "recover") /\ n = Number(mq', "recover")
          /\ p = Number(queue, "rehook") /\ q = Number(queue', "rehook")
    BY <1>1
  <2>2. n <= m /\ q <= p
    BY <2>1
  <2>3. /\ a + n \in Nat /\ a + n <= a + m /\ (a + n) + q + b \in Nat
        /\ (a + n) + q + b <= (a + m) + p + b
    BY <1>5, <2>2, Sums
  <2> QED BY <1>1, <1>4, <2>1, <2>3, TallyNat
<1>7. cm'.InCrashedState >= Unrecovered' /\ cm'.ThreadProcessingDisabled >= Unfinished'
  BY <1>1, <1>6 DEF Tallies
<1>8. Tallies'
  BY <1>1, <1>3, <1>7 DEF Tallies
<1> QED BY <1>2, <1>8 DEF ConfigInv

\* An item taken from the main work queue.
LEMMA MainItemType ==
  ASSUME TypeOK, NEW op, MainWorkItem(op)
  PROVE  /\ mq # <<>> /\ Head(mq) \in MainItems /\ Head(mq).op = op
         /\ mq' = Tail(mq) /\ mq' \in Seq(MainItems) /\ Number(mq', "recover") \in Nat
         /\ op = "recover" => Number(mq, "recover") = Number(mq', "recover") + 1
         /\ op # "recover" => Number(mq, "recover") = Number(mq', "recover")
         /\ table' = table /\ MainUnchanged
<1>0. mq \in Seq(MainItems)
  BY TypeParts
<1>1. mq # <<>> /\ mq' = Tail(mq) /\ Head(mq).op = op
  BY DEF MainWorkItem
<1>2. mq' \in Seq(MainItems) /\ Head(mq) \in MainItems
  BY <1>0, <1>1
<1>3. Number(mq, "recover")
        = Number(mq', "recover") + (IF Head(mq).op = "recover" THEN 1 ELSE 0)
  BY <1>0, <1>1, NumberTail
<1>4. Number(mq', "recover") \in Nat
  BY <1>2, NumberNat
<1> QED BY <1>1, <1>2, <1>3, <1>4 DEF MainWorkItem

\* A stop of the config thread sets the flag, or finds it set.
LEMMA StopChangeType ==
  ASSUME TypeOK, NEW then \in {"stopping", "join"}, StopChangeProcessing(then)
  PROVE  /\ cm' \in {cm, [cm EXCEPT !.ExitWorkLoop = TRUE]} /\ cm' \in Fields
         /\ cm'.InCrashedState = cm.InCrashedState
         /\ cm'.ThreadProcessingDisabled = cm.ThreadProcessingDisabled
         /\ main' \in Mains
<1>0. cm \in Fields /\ main \in Mains
  BY ConfigTypeParts DEF TypeOK, Mains
<1>1. /\ cm' \in {cm, [cm EXCEPT !.ExitWorkLoop = TRUE]}
      /\ main' \in {[main EXCEPT !.pc = then], [main EXCEPT !.pc = "flagged", !.next = then]}
  BY DEF StopChangeProcessing
<1>2. cm' \in Fields
  BY <1>0, <1>1 DEF Fields
<1>3. main' \in Mains
  BY <1>0, <1>1 DEF Mains
<1> QED BY <1>0, <1>1, <1>2, <1>3 DEF Fields

LEMMA InitReadType ==
  ASSUME ConfigInv, NEW pc, NEW kind \in Kinds, NEW next \in {"readSites", "readApps", "finish"},
         ReadDataFromMetabase(pc, kind, next)
  PROVE  ConfigInv'
<1>0. /\ TypeOK /\ cm \in Fields /\ main \in Mains /\ table \in Tables /\ mb \in Metabases
      /\ queue \in Seq(QueueItems) /\ mq \in Seq(MainItems) /\ was \in WasTables
      /\ Number(mq, "recover") \in Nat /\ Number(queue, "rehook") \in Nat
  BY ConfigTypeParts, TypeParts, TallyNat DEF ConfigInv, TypeOK, Mains
<1>1. /\ main' \in {[main EXCEPT !.pc = next], [main EXCEPT !.pc = "terminate"]}
      /\ cm' \in {cm, [cm EXCEPT !.BlockEvent = TRUE]}
      /\ table' \in {table, PerformSelfValidation(ReadAll(mb, kind, table))}
      /\ UNCHANGED <<queue, mq, was>> /\ MainUnchanged
  BY DEF ReadDataFromMetabase, InitializeFails
<1>2. table' \in Tables
  BY <1>0, <1>1, ReadAllType, SelfValidationType
<1>3. main' \in Mains
  BY <1>0, <1>1 DEF Mains
<1>4. /\ cm' \in Fields /\ cm'.InCrashedState = cm.InCrashedState
      /\ cm'.ThreadProcessingDisabled = cm.ThreadProcessingDisabled
  BY <1>0, <1>1 DEF Fields
<1>5. queue' = queue /\ mq' = mq /\ was' = was /\ MainUnchanged
  BY <1>1
<1> QED BY <1>0, <1>2, <1>3, <1>4, <1>5, MainStepInv

LEMMA RecoverType ==
  ASSUME ConfigInv, RecoverFromInetinfoCrash
  PROVE  ConfigInv'
<1>0. /\ TypeOK /\ Tallies /\ cm \in Fields /\ main \in Mains /\ table \in Tables
      /\ queue \in Seq(QueueItems) /\ mq \in Seq(MainItems) /\ was \in WasTables
      /\ Number(mq, "recover") \in Nat /\ Number(queue, "rehook") \in Nat
      /\ inetinfo.life \in Life
  BY ConfigTypeParts, TypeParts, TallyNat DEF ConfigInv, TypeOK, Mains
<1>1. MainWorkItem("recover") /\ was' = was
  BY DEF RecoverFromInetinfoCrash
<1>2. /\ mq' \in Seq(MainItems) /\ Number(mq', "recover") \in Nat
      /\ Number(mq, "recover") = Number(mq', "recover") + 1
      /\ table' = table /\ MainUnchanged
  BY <1>0, <1>1, MainItemType
<1>3. CASE UNCHANGED <<cm, queue>> /\ (main' = main \/ main' = [main EXCEPT !.pc = "terminate"])
  <2>1. main' \in Mains
    BY <1>0, <1>3 DEF Mains
  <2> QED BY <1>0, <1>1, <1>2, <1>3, <2>1, MainStepInv
<1>4. CASE /\ cm' = [cm EXCEPT !.abo = inetinfo.life, !.InCrashedState = @ - 1,
                               !.hooked = IF @ = cm.abo THEN 0 ELSE @]
           /\ queue' = Append(queue, Rehook) /\ main' = main
  <2>1. /\ cm.InCrashedState \in Nat /\ cm.InCrashedState - 1 \in Nat
        /\ cm.ThreadProcessingDisabled \in Nat
    BY <1>0, <1>2 DEF Tallies, Unrecovered, Fields
  <2> DEFINE h == IF cm.hooked = cm.abo THEN 0 ELSE cm.hooked
             i == cm.InCrashedState - 1
  <2>2. h \in Life
    BY <1>0, BoundsAssumption DEF Fields, Life
  <2>3. cm' = [cm EXCEPT !.abo = inetinfo.life, !.InCrashedState = i, !.hooked = h]
    BY <1>4
  <2>4. cm' \in Fields
    <3> HIDE DEF h, i
    <3>1. i \in Nat
      BY <2>1 DEF i
    <3> QED BY <1>0, <2>2, <2>3, <3>1 DEF Fields
  <2>5. /\ cm'.InCrashedState = cm.InCrashedState - 1
        /\ cm'.ThreadProcessingDisabled = cm.ThreadProcessingDisabled
    BY <1>0, <1>4 DEF Fields
  <2>6. Rehook \in QueueItems /\ Rehook.op = "rehook"
    BY ItemTypes DEF Rehook
  <2>7. queue' \in Seq(QueueItems) /\ Number(queue', "rehook") = Number(queue, "rehook") + 1
    BY <1>0, <1>4, <2>6, NumberAppend
  <2>8. TypeOK'
    BY <1>0, <1>1, <1>2, <1>4, <2>4, <2>7, MainStepType
  <2>9. UNCHANGED <<inetinfo, monitor, ct>>
    BY <1>2 DEF MainUnchanged
  <2>10. Unrecovered' = Unrecovered - 1 /\ Unrecovered \in Nat
    BY <1>0, <1>2, <2>9, TallyNat DEF Unrecovered
  <2>11. Unfinished' = Unfinished /\ Unfinished \in Nat
    <3>1. ct'.rehook = ct.rehook
      BY <2>9
    <3> QED BY <1>0, <2>7, <2>10, <3>1, TallyNat DEF Unfinished
  <2>12. Tallies'
    BY <1>0, <2>1, <2>5, <2>9, <2>10, <2>11 DEF Tallies
  <2> QED BY <2>8, <2>12 DEF ConfigInv
<1> QED BY <1>3, <1>4 DEF RecoverFromInetinfoCrash

LEMMA MainThreadType ==
  ASSUME ConfigInv, MainThread \/ StopService
  PROVE  ConfigInv'
<1>0. /\ TypeOK /\ cm \in Fields /\ main \in Mains /\ table \in Tables
      /\ queue \in Seq(QueueItems) /\ mq \in Seq(MainItems) /\ was \in WasTables
      /\ Number(mq, "recover") \in Nat /\ Number(queue, "rehook") \in Nat
  BY ConfigTypeParts, TypeParts, TallyNat DEF ConfigInv, TypeOK, Mains
<1>1. CASE LaunchChangeNotificationListener
  <2>1. /\ main' \in {[main EXCEPT !.pc = "readPools", !.abo = cm.abo],
                      [main EXCEPT !.pc = "terminate"]}
        /\ cm' \in {cm, [cm EXCEPT !.BlockEvent = TRUE]}
        /\ UNCHANGED <<queue, mq, table, was>> /\ MainUnchanged
    BY <1>1 DEF LaunchChangeNotificationListener, InitializeFails
  <2>2. main' \in Mains
    BY <1>0, <2>1 DEF Mains, Fields
  <2>3. /\ cm' \in Fields /\ cm'.InCrashedState = cm.InCrashedState
        /\ cm'.ThreadProcessingDisabled = cm.ThreadProcessingDisabled
    BY <1>0, <2>1 DEF Fields
  <2> QED BY <1>0, <2>1, <2>2, <2>3, MainStepInv
<1>2. CASE InitReadPools \/ InitReadSites \/ InitReadApps
  <2>1. Pool \in Kinds /\ Site \in Kinds /\ App \in Kinds
    BY DEF Kinds
  <2> QED BY <1>2, <2>1, InitReadType DEF InitReadPools, InitReadSites, InitReadApps
<1>3. CASE InitializeFinishes
  <2> DEFINE valid == CrossValidateDataObjects(table)
  <2>1. /\ main' = [main EXCEPT !.pc = "run"]
        /\ was' = CreateWASObjects(valid, was) /\ table' = ClearDeletedObjects(valid)
        /\ cm' = [cm EXCEPT !.ProcessChanges = TRUE, !.BlockEvent = TRUE]
        /\ UNCHANGED <<queue, mq>> /\ MainUnchanged
    BY <1>3 DEF InitializeFinishes
  <2>2. valid \in Tables
    BY <1>0, CrossValidationType
  <2> HIDE DEF valid
  <2>3. was' \in WasTables /\ table' \in Tables
    BY <1>0, <2>1, <2>2, CreateWASObjectsType, ClearType
  <2>4. main' \in Mains
    BY <1>0, <2>1 DEF Mains
  <2>5. /\ cm' \in Fields /\ cm'.InCrashedState = cm.InCrashedState
        /\ cm'.ThreadProcessingDisabled = cm.ThreadProcessingDisabled
    BY <1>0, <2>1 DEF Fields
  <2> QED BY <1>0, <2>1, <2>3, <2>4, <2>5, MainStepInv
<1>4. CASE ProcessConfigChange
  <2>1. /\ MainWorkItem("change") /\ UNCHANGED <<cm, queue, main>>
        /\ was' \in {was, ProcessChanges(Head(mq).rows, was)}
    BY <1>4 DEF ProcessConfigChange
  <2>2. /\ Head(mq) \in MainItems /\ mq' \in Seq(MainItems)
        /\ Number(mq', "recover") = Number(mq, "recover") /\ table' = table /\ MainUnchanged
    BY <1>0, <2>1, MainItemType
  <2>3. Head(mq).rows \in Tables
    BY <2>2 DEF MainItems
  <2>4. was' \in WasTables
    BY <1>0, <2>1, <2>3, ProcessChangesType
  <2> QED BY <1>0, <2>1, <2>2, <2>4, MainStepInv
<1>5. CASE RecoverFromInetinfoCrash
  BY <1>5, RecoverType
<1>6. CASE StopServiceWorkItem
  <2>1. MainWorkItem("stop") /\ StopChangeProcessing("stopping") /\ UNCHANGED <<queue, was>>
    BY <1>6 DEF StopServiceWorkItem
  <2>2. /\ mq' \in Seq(MainItems) /\ Number(mq', "recover") = Number(mq, "recover")
        /\ table' = table /\ MainUnchanged
    BY <1>0, <2>1, MainItemType
  <2>3. /\ cm' \in Fields /\ cm'.InCrashedState = cm.InCrashedState /\ main' \in Mains
        /\ cm'.ThreadProcessingDisabled = cm.ThreadProcessingDisabled
    BY <1>0, <2>1, StopChangeType
  <2> QED BY <1>0, <2>1, <2>2, <2>3, MainStepInv
<1>7. CASE RequestShutdown
  <2>1. /\ main' = [main EXCEPT !.pc = main.next]
        /\ cm' = [cm EXCEPT !.ProcessChanges = FALSE] /\ queue' = Append(queue, ExitThread)
        /\ UNCHANGED <<mq, table, was>> /\ MainUnchanged
    BY <1>7 DEF RequestShutdown
  <2>2. ExitThread \in QueueItems /\ ExitThread.op # "rehook"
    BY ItemTypes DEF ExitThread
  <2>3. queue' \in Seq(QueueItems) /\ Number(queue', "rehook") = Number(queue, "rehook")
    BY <1>0, <2>1, <2>2, NumberAppend
  <2>4. main' \in Mains
    BY <1>0, <2>1 DEF Mains
  <2>5. /\ cm' \in Fields /\ cm'.InCrashedState = cm.InCrashedState
        /\ cm'.ThreadProcessingDisabled = cm.ThreadProcessingDisabled
    BY <1>0, <2>1 DEF Fields
  <2> QED BY <1>0, <2>1, <2>3, <2>4, <2>5, MainStepInv
<1>8. CASE ShutdownDone
  <2>1. /\ main' = [main EXCEPT !.pc = "terminate"]
        /\ UNCHANGED <<cm, queue, mq, table, was>> /\ MainUnchanged
    BY <1>8 DEF ShutdownDone
  <2>2. main' \in Mains
    BY <1>0, <2>1 DEF Mains
  <2> QED BY <1>0, <2>1, <2>2, MainStepInv
<1>9. CASE BeginTerminate
  <2>1. StopChangeProcessing("join") /\ UNCHANGED <<queue, mq, table, was>> /\ MainUnchanged
    BY <1>9 DEF BeginTerminate
  <2>2. /\ cm' \in Fields /\ cm'.InCrashedState = cm.InCrashedState /\ main' \in Mains
        /\ cm'.ThreadProcessingDisabled = cm.ThreadProcessingDisabled
    BY <1>0, <2>1, StopChangeType
  <2> QED BY <1>0, <2>1, <2>2, MainStepInv
<1>10. CASE Terminate
  <2>1. /\ main' = [main EXCEPT !.pc = "done"] /\ queue' = <<>> /\ mq' = <<>>
        /\ UNCHANGED <<cm, table, was>> /\ MainUnchanged
    BY <1>10 DEF Terminate
  <2>2. main' \in Mains
    BY <1>0, <2>1 DEF Mains
  <2>3. /\ queue' \in Seq(QueueItems) /\ mq' \in Seq(MainItems)
        /\ Number(queue', "rehook") = 0 /\ Number(mq', "recover") = 0
    BY <2>1, NumberEmpty
  <2> QED BY <1>0, <2>1, <2>2, <2>3, MainStepInv
<1>11. CASE StopService
  <2>1. /\ RequestStopService /\ UNCHANGED <<queue, main, table, was>> /\ MainUnchanged
    BY <1>11 DEF StopService
  <2>2. /\ cm' = [cm EXCEPT !.stopRequested = TRUE]
        /\ mq' \in Seq(MainItems) /\ Number(mq', "recover") = Number(mq, "recover")
    BY <2>1, RequestStopType
  <2>3. /\ cm' \in Fields /\ cm'.InCrashedState = cm.InCrashedState
        /\ cm'.ThreadProcessingDisabled = cm.ThreadProcessingDisabled
    BY <1>0, <2>2 DEF Fields
  <2> QED BY <1>0, <2>1, <2>2, <2>3, MainStepInv
<1> QED
  BY <1>1, <1>2, <1>3, <1>4, <1>5, <1>6, <1>7, <1>8, <1>9, <1>10, <1>11 DEF MainThread

LEMMA ConfigNext ==
  ASSUME ConfigInv, [Next]_vars
  PROVE  ConfigInv'
<1>1. CASE UNCHANGED vars
  BY <1>1 DEF vars, ConfigInv, TypeOK, Tallies, Unrecovered, Unfinished
<1>2. CASE Next
  BY <1>2, AdministrationType, InetinfoType, MonitorType, ConfigThreadType, MainThreadType
     DEF Next
<1> QED BY <1>1, <1>2

LEMMA ConfigAlways == Spec => []ConfigInv
  BY InitType, ConfigNext, PTL DEF Spec

\* Every variable of the configuration keeps its type, for every metabase and any
\* number of changes and crashes: what the tables make of a notification
\* (ReadFromMetabaseChangeNotification) are data objects again, and the counters of
\* CONFIG_MANAGER that disable the processing of changes never become negative.
THEOREM ConfigTypes == Spec => []TypeOK
  BY ConfigAlways, PTL DEF ConfigInv

-----------------------------------------------------------------------------
(***************************************************************************)
(* The recovery from a crash, when there is at most one.  Until a recovery *)
(* is lost for a reason that ends the service or is logged, the counters   *)
(* say exactly how much of it is still to be done.                         *)
(***************************************************************************)
Lost ==
  \/ monitor.pc \in {"failed", "stopped"} \/ cm.notSent
  \/ main.pc \in {"flagged", "stopping", "terminate", "join", "done"}
Rehooking == Number(queue, "rehook") # 0 \/ ct.rehook
SecondLife ==
  /\ inetinfo.life >= 1
  /\ inetinfo.life = 1 => monitor.watched = 1
  /\ monitor.pc # "watching" \/ Number(mq, "recover") # 0
       => ~inetinfo.up \/ inetinfo.life = 2
  /\ Rehooking => inetinfo.up /\ inetinfo.life = 2 /\ cm.abo = 2
InHand ==
  ct.rehook => ct.abo = 2 /\ ct.pc \in {"readPools", "readSites", "readApps", "finish"}
Exact ==
  Lost \/ (cm.ThreadProcessingDisabled = Unfinished /\ cm.InCrashedState = Unrecovered)
RecoveryInv == SecondLife /\ InHand /\ Exact

\* Steps that leave the recovery alone.
LEMMA NoRecovery ==
  ASSUME TypeOK, RecoveryInv, UNCHANGED <<inetinfo, monitor>>,
         Number(mq', "recover") = Number(mq, "recover"),
         Number(queue', "rehook") = Number(queue, "rehook"),
         ct'.rehook = ct.rehook, ct.rehook => InHand',
         cm'.abo = cm.abo,
         cm'.ThreadProcessingDisabled = cm.ThreadProcessingDisabled,
         cm'.InCrashedState = cm.InCrashedState,
         Lost => Lost'
  PROVE  RecoveryInv'
<1>1. Unrecovered' = Unrecovered /\ Unfinished' = Unfinished
  BY DEF Unrecovered, Unfinished
<1>2. SecondLife'
  BY DEF RecoveryInv, SecondLife, Rehooking
<1>3. InHand'
  BY DEF InHand
<1>4. Exact'
  BY <1>1 DEF RecoveryInv, Exact
<1> QED BY <1>2, <1>3, <1>4 DEF RecoveryInv

LEMMA InetinfoRecovery ==
  ASSUME MaxCrashes <= 1, ConfigInv, RecoveryInv,
         Administration \/ Crash \/ Restart \/ StartMBChangeItem
  PROVE  RecoveryInv'
<1>0. TypeOK /\ Tallies /\ Number(queue, "rehook") \in Nat /\ Number(mq, "recover") \in Nat
  BY TallyNat DEF ConfigInv
<1>1. CASE Administration
  <2>1. UNCHANGED <<inetinfo, monitor, cm, ct, queue, main, mq>>
    BY <1>1 DEF Administration, SetData, WriteCommand, AddObject, DeleteObject, DeleteData, Change
  <2>2. Lost' = Lost /\ InHand' = InHand
    BY <2>1 DEF Lost, InHand
  <2> QED BY <1>0, <2>1, <2>2, NoRecovery DEF RecoveryInv
<1>2. CASE Crash
  <2>1. /\ inetinfo.up /\ inetinfo.life <= MaxCrashes
        /\ inetinfo' = [inetinfo EXCEPT !.up = FALSE]
        /\ UNCHANGED <<monitor, cm, ct, queue, main, mq>>
    BY <1>2 DEF Crash
  <2>2. inetinfo.life = 1 /\ inetinfo'.life = 1 /\ ~inetinfo'.up
    <3>1. inetinfo \in [up : BOOLEAN, life : Nat]
      BY <1>0, BoundsAssumption DEF TypeOK, Life
    <3>2. inetinfo.life >= 1 /\ MaxCrashes \in Nat
      BY BoundsAssumption DEF RecoveryInv, SecondLife
    <3> QED BY <2>1, <3>1, <3>2
  <2>3. SecondLife'
    BY <2>1, <2>2 DEF RecoveryInv, SecondLife, Rehooking
  <2>4. InHand' /\ Exact'
    BY <2>1 DEF RecoveryInv, InHand, Exact, Lost, Unfinished, Unrecovered
  <2> QED BY <2>3, <2>4 DEF RecoveryInv
<1>3. CASE Restart
  <2>1. /\ ~inetinfo.up /\ inetinfo' = [up |-> TRUE, life |-> inetinfo.life + 1]
        /\ UNCHANGED <<monitor, cm, ct, queue, main, mq>>
    BY <1>3 DEF Restart
  <2>2. inetinfo'.life = 2
    <3>1. inetinfo.life \in Nat /\ MaxCrashes \in Nat
      BY <1>0, BoundsAssumption DEF TypeOK, Life
    <3>2. inetinfo.life >= 1 /\ inetinfo.life <= MaxCrashes
      BY <1>0, <2>1 DEF RecoveryInv, SecondLife, Tallies
    <3>3. inetinfo.life = 1
      BY <3>1, <3>2
    <3> QED BY <2>1, <3>3
  <2>3. SecondLife'
    BY <2>1, <2>2 DEF RecoveryInv, SecondLife, Rehooking
  <2>4. InHand' /\ Exact'
    BY <2>1 DEF RecoveryInv, InHand, Exact, Lost, Unfinished, Unrecovered
  <2> QED BY <2>3, <2>4 DEF RecoveryInv
<1>4. CASE StartMBChangeItem
  <2>1. /\ notif # <<>> /\ queue' = Append(queue, MBChange(Head(notif)))
        /\ UNCHANGED <<inetinfo, monitor, cm, ct, main, mq>>
    BY <1>4 DEF StartMBChangeItem
  <2>2. MBChange(Head(notif)) \in QueueItems /\ MBChange(Head(notif)).op # "rehook"
    <3>1. Head(notif) \in Seq(Element)
      BY <1>0, <2>1 DEF TypeOK
    <3> QED BY <3>1, ItemTypes DEF MBChange
  <2>3. Number(queue', "rehook") = Number(queue, "rehook")
    BY <1>0, <2>1, <2>2, TypeParts, NumberAppend
  <2>4. Lost' = Lost /\ InHand' = InHand
    BY <2>1 DEF Lost, InHand
  <2> QED BY <1>0, <2>1, <2>3, <2>4, NoRecovery DEF RecoveryInv
<1> QED BY <1>1, <1>2, <1>3, <1>4

LEMMA MonitorRecovery ==
  ASSUME MaxCrashes <= 1, ConfigInv, RecoveryInv, MonitorThread
  PROVE  RecoveryInv'
<1>0. /\ TypeOK /\ Tallies /\ Number(queue, "rehook") \in Nat /\ Number(mq, "recover") \in Nat
      /\ mq \in Seq(MainItems) /\ Unfinished \in Nat /\ Unrecovered \in Nat
      /\ cm.ThreadProcessingDisabled \in Nat /\ cm.InCrashedState \in Nat
  BY TypeParts, TallyNat DEF ConfigInv, TypeOK
<1>1. UNCHANGED <<inetinfo, ct, queue, main>>
  BY DEF MonitorThread, RecordInetinfoCrash, MonitorActionRehook, MonitorActionShutdown,
     QueueRecoveryFromInetinfoCrash, RecordInetinfoMonitorStopped, MonitorUnchanged
<1>2. InHand'
  BY <1>1 DEF RecoveryInv, InHand
<1>3. CASE RecordInetinfoCrash
  <2>1. /\ monitor.pc = "watching" /\ ~Alive(monitor.watched)
        /\ monitor' = [monitor EXCEPT !.pc = "deciding"] /\ mq' = mq
        /\ cm' = [cm EXCEPT !.InCrashedState = @ + 1, !.ThreadProcessingDisabled = @ + 1]
    BY <1>3 DEF RecordInetinfoCrash
  <2>2. /\ monitor'.pc = "deciding" /\ monitor'.watched = monitor.watched
        /\ cm'.abo = cm.abo /\ cm'.notSent = cm.notSent
        /\ cm'.InCrashedState = cm.InCrashedState + 1
        /\ cm'.ThreadProcessingDisabled = cm.ThreadProcessingDisabled + 1
    BY <1>0, <2>1 DEF TypeOK
  <2>3. ~inetinfo.up \/ inetinfo.life = 2
    <3>1. inetinfo.life \in 0..(MaxCrashes + 1) /\ MaxCrashes \in Nat
      BY <1>0, BoundsAssumption DEF TypeOK, Life
    <3>2. inetinfo.life >= 1 /\ (inetinfo.life = 1 => monitor.watched = 1)
      BY DEF RecoveryInv, SecondLife
    <3>3. ~inetinfo.up \/ monitor.watched # inetinfo.life
      BY <2>1 DEF Alive
    <3> QED BY <3>1, <3>2, <3>3
  <2>4. SecondLife'
    BY <1>1, <2>1, <2>2, <2>3 DEF RecoveryInv, SecondLife, Rehooking
  <2>5. Unrecovered' = Unrecovered + 1
    BY <1>0, <2>1, <2>2 DEF Unrecovered
  <2>6. Unfinished' = Unfinished + 1
    BY <1>0, <1>1, <2>5 DEF Unfinished
  <2>7. Exact'
    BY <1>0, <1>1, <2>1, <2>2, <2>5, <2>6 DEF RecoveryInv, Exact, Lost
  <2> QED BY <1>2, <2>4, <2>7 DEF RecoveryInv
<1>4. CASE MonitorActionRehook
  <2>1. /\ monitor.pc = "deciding" /\ monitor' = [monitor EXCEPT !.pc = "rehook"]
        /\ UNCHANGED <<cm, mq>>
    BY <1>4 DEF MonitorActionRehook
  <2>2. monitor'.pc = "rehook" /\ monitor'.watched = monitor.watched
    BY <1>0, <2>1 DEF TypeOK
  <2>3. SecondLife'
    BY <1>1, <2>1, <2>2 DEF RecoveryInv, SecondLife, Rehooking
  <2>4. Unrecovered' = Unrecovered /\ Unfinished' = Unfinished
    BY <1>1, <2>1, <2>2 DEF Unrecovered, Unfinished
  <2>5. Exact'
    BY <1>1, <2>1, <2>2, <2>4 DEF RecoveryInv, Exact, Lost
  <2> QED BY <1>2, <2>3, <2>5 DEF RecoveryInv
<1>5. CASE MonitorActionShutdown \/ RecordInetinfoMonitorStopped
  <2>1. /\ monitor.pc # "watching"
        /\ monitor' \in {[monitor EXCEPT !.pc = "stopped"], [monitor EXCEPT !.pc = "failed"]}
        /\ RequestStopService \/ UNCHANGED <<cm, mq>>
    BY <1>5 DEF MonitorActionShutdown, RecordInetinfoMonitorStopped
  <2>2. monitor'.pc \in {"stopped", "failed"} /\ monitor'.watched = monitor.watched
    BY <1>0, <2>1 DEF TypeOK
  <2>3. /\ Number(mq', "recover") = Number(mq, "recover") /\ cm'.abo = cm.abo
    BY <1>0, <2>1, RequestStopType DEF TypeOK
  <2>4. SecondLife'
    BY <1>1, <2>1, <2>2, <2>3 DEF RecoveryInv, SecondLife, Rehooking
  <2>5. Exact'
    BY <2>2 DEF Exact, Lost
  <2> QED BY <1>2, <2>4, <2>5 DEF RecoveryInv
<1>6. CASE QueueRecoveryFromInetinfoCrash
  <2>1. /\ monitor.pc = "rehook" /\ inetinfo.up /\ cm' = cm
        /\ monitor' = [pc |-> "watching", watched |-> inetinfo.life]
        /\ mq' = Append(mq, Recover)
    BY <1>6 DEF QueueRecoveryFromInetinfoCrash
  <2>2. Recover \in MainItems /\ Recover.op = "recover"
    BY ItemTypes DEF Recover
  <2>3. Number(mq', "recover") = Number(mq, "recover") + 1
    BY <1>0, <2>1, <2>2, NumberAppend
  <2>4. SecondLife'
    BY <1>0, <1>1, <2>1, <2>3 DEF RecoveryInv, SecondLife, Rehooking
  <2>5. Unrecovered' = Unrecovered
    BY <1>0, <2>1, <2>3 DEF Unrecovered
  <2>6. Unfinished' = Unfinished
    BY <1>1, <2>5 DEF Unfinished
  <2>7. Exact'
    BY <1>1, <2>1, <2>5, <2>6 DEF RecoveryInv, Exact, Lost
  <2> QED BY <1>2, <2>4, <2>7 DEF RecoveryInv
<1> QED BY <1>3, <1>4, <1>5, <1>6 DEF MonitorThread

\* While a recovery is under way the new inetinfo answers.
LEMMA StillAnswers ==
  ASSUME RecoveryInv
  PROVE  /\ Number(queue, "rehook") # 0 => Alive(cm.abo) /\ cm.abo = 2
         /\ ct.rehook => Alive(ct.abo) /\ Alive(cm.abo) /\ cm.abo = 2
  BY DEF RecoveryInv, SecondLife, Rehooking, InHand, Alive

LEMMA ConfigThreadRecovery ==
  ASSUME ConfigInv, RecoveryInv, ConfigThread
  PROVE  RecoveryInv'
<1>0. /\ TypeOK /\ cm \in Fields /\ ct \in Threads /\ ct.rehook \in BOOLEAN
      /\ Number(queue, "rehook") \in Nat /\ Number(mq, "recover") \in Nat
      /\ queue \in Seq(QueueItems) /\ mq \in Seq(MainItems)
      /\ Unfinished \in Nat /\ Unrecovered \in Nat
      /\ cm.ThreadProcessingDisabled \in Nat /\ cm.InCrashedState \in Nat
  BY ConfigTypeParts, TypeParts, TallyNat DEF ConfigInv, Fields, Threads
<1>1. UNCHANGED <<inetinfo, monitor, main>>
  BY DEF ConfigThread, StartListeningForChangeNotifications, Unblock, CheckExitWorkLoop,
     ProcessMetabaseChangeOnConfigThread, ProcessMetabaseCrashOnConfigThread,
     ExitChangeThreadItem, DropAllUninterestingMBChanges, CreateTempDataObjectTables,
     ReadPools, ReadSites, ReadApps, ReadKind, FinishChangeProcessing,
     SendMainThreadChangesFails, Dequeue, ConfigUnchanged
\* Steps in which no rehook is begun, finished or given up.
<1>s. ASSUME ct'.rehook = ct.rehook, ct.rehook => InHand',
             Number(mq', "recover") = Number(mq, "recover"),
             Number(queue', "rehook") = Number(queue, "rehook"),
             cm'.abo = cm.abo, cm'.notSent = cm.notSent,
             cm'.ThreadProcessingDisabled = cm.ThreadProcessingDisabled,
             cm'.InCrashedState = cm.InCrashedState
      PROVE  RecoveryInv'
  <2>1. Lost => Lost'
    BY <1>1, <1>s DEF Lost
  <2> QED BY <1>0, <1>1, <1>s, <2>1, NoRecovery
<1>2. ASSUME ~ct.rehook, ct'.rehook = ct.rehook
      PROVE  ct.rehook => InHand'
  BY <1>2
<1>3. InHand
  BY DEF RecoveryInv
<1>4. CASE StartListeningForChangeNotifications
  <2>1. /\ ct.pc = "listen" /\ StartListening /\ ct' = [ct EXCEPT !.pc = "blocked"]
        /\ UNCHANGED <<queue, mq>>
    BY <1>4 DEF StartListeningForChangeNotifications
  <2>2. ~ct.rehook
    BY <1>3, <2>1 DEF InHand
  <2>3. ct'.rehook = ct.rehook
    BY <1>0, <2>1 DEF Threads
  <2>4. /\ cm'.abo = cm.abo /\ cm'.notSent = cm.notSent
        /\ cm'.ThreadProcessingDisabled = cm.ThreadProcessingDisabled
        /\ cm'.InCrashedState = cm.InCrashedState
    BY <1>0, <2>1 DEF StartListening, Fields
  <2> QED BY <1>s, <2>1, <2>2, <2>3, <2>4
<1>5. CASE Unblock \/ CheckExitWorkLoop
  <2>1. /\ ct.pc \in {"blocked", "loop"} /\ UNCHANGED <<queue, mq>>
        /\ ct' \in {[ct EXCEPT !.pc = "loop"], [ct EXCEPT !.pc = "exited"],
                    [ct EXCEPT !.pc = "wait"]}
        /\ cm' \in {cm, [cm EXCEPT !.hooked = 0]}
    BY <1>0, <1>5 DEF Unblock, CheckExitWorkLoop, Fields
  <2>2. ~ct.rehook
    BY <1>3, <2>1 DEF InHand
  <2>3. ct'.rehook = ct.rehook
    BY <1>0, <2>1 DEF Threads
  <2>4. /\ cm'.abo = cm.abo /\ cm'.notSent = cm.notSent
        /\ cm'.ThreadProcessingDisabled = cm.ThreadProcessingDisabled
        /\ cm'.InCrashedState = cm.InCrashedState
    BY <1>0, <2>1 DEF Fields
  <2> QED BY <1>s, <2>1, <2>2, <2>3, <2>4
<1>6. CASE ProcessMetabaseChangeOnConfigThread \/ ExitChangeThreadItem
  <2>1. PICK op \in {"change", "exit"} : Dequeue(op)
    BY <1>6 DEF ProcessMetabaseChangeOnConfigThread, ExitChangeThreadItem
  <2>2. /\ Head(queue) \in QueueItems /\ Number(queue, "rehook") = Number(queue', "rehook")
        /\ mq' = mq
    BY <1>0, <2>1, DequeueType
  <2>3. Head(queue).els \in Seq(Element) /\ ct.pc = "wait"
    BY <2>1, <2>2 DEF QueueItems, Dequeue
  <2>4. cm' = cm /\ ct' \in {NothingToDo, Processing(Head(queue).els, FALSE)}
    BY <1>6 DEF ProcessMetabaseChangeOnConfigThread, ExitChangeThreadItem
  <2>5. ~ct.rehook /\ ct'.rehook = FALSE
    <3>1. NothingToDo.rehook = FALSE
      BY DEF NothingToDo
    <3>2. Processing(Head(queue).els, FALSE).rehook = FALSE
      BY <1>0, <2>3, ProcessingType
    <3> QED BY <1>3, <2>3, <2>4, <3>1, <3>2 DEF InHand
  <2>6. ct'.rehook = ct.rehook
    BY <1>0, <2>5
  <2> QED BY <1>s, <2>2, <2>4, <2>5, <2>6
<1>7. CASE ProcessMetabaseCrashOnConfigThread
  <2>1. Dequeue("rehook") /\ StartListening /\ ct.pc = "wait"
    BY <1>7 DEF ProcessMetabaseCrashOnConfigThread, Dequeue
  <2>2. /\ queue' \in Seq(QueueItems) /\ mq' = mq
        /\ Number(queue, "rehook") = Number(queue', "rehook") + 1
    BY <1>0, <2>1, DequeueType
  <2>3. Number(queue', "rehook") \in Nat
    BY <2>2, NumberNat
  <2>4. Alive(cm.abo) /\ cm.abo = 2
    BY <2>2, <2>3, StillAnswers
  <2>5. ct' = Processing(<<>>, TRUE)
    BY <1>7, <2>4 DEF ProcessMetabaseCrashOnConfigThread
  <2>6. ct'.rehook = TRUE /\ ct'.abo = 2 /\ ct'.pc = "readPools"
    BY <1>0, <2>4, <2>5 DEF Processing, Threads
  <2>7. /\ cm'.abo = cm.abo /\ cm'.notSent = cm.notSent
        /\ cm'.ThreadProcessingDisabled = cm.ThreadProcessingDisabled
        /\ cm'.InCrashedState = cm.InCrashedState
    BY <1>0, <2>1 DEF StartListening, Fields
  <2>8. ~ct.rehook
    BY <1>3, <2>1 DEF InHand
  <2>9. Unrecovered' = Unrecovered
    BY <1>1, <2>2 DEF Unrecovered
  <2>10. Unfinished' = Unfinished
    BY <1>0, <2>2, <2>3, <2>6, <2>8, <2>9 DEF Unfinished
  <2>11. Exact'
    BY <1>1, <2>7, <2>9, <2>10 DEF RecoveryInv, Exact, Lost
  <2>12. InHand'
    BY <2>6 DEF InHand
  <2>13. SecondLife'
    BY <1>1, <2>2, <2>4, <2>7 DEF RecoveryInv, SecondLife, Rehooking, Alive
  <2> QED BY <2>11, <2>12, <2>13 DEF RecoveryInv
<1>8. CASE DropAllUninterestingMBChanges
  <2>1. /\ queue # <<>> /\ Head(queue).op = "change" /\ queue' = Tail(queue)
        /\ UNCHANGED <<cm, ct, mq>>
    BY <1>8 DEF DropAllUninterestingMBChanges, Droppable, CanIgnoreWorkItem
  <2>2. Number(queue', "rehook") \in Nat
    <3>1. queue' \in Seq(QueueItems)
      BY <1>0, <2>1
    <3> QED BY <3>1, NumberNat
  <2>3. Number(queue', "rehook") = Number(queue, "rehook")
    <3>1. Number(queue, "rehook")
            = Number(Tail(queue), "rehook") + (IF Head(queue).op = "rehook" THEN 1 ELSE 0)
      BY <1>0, <2>1, NumberTail
    <3> QED BY <2>1, <2>2, <3>1
  <2>4. InHand'
    BY <1>3, <2>1 DEF InHand
  <2> QED BY <1>s, <2>1, <2>3, <2>4
<1>9. CASE CreateTempDataObjectTables
  <2>1. /\ ct.pc = "drop" /\ ct' = [ct EXCEPT !.pc = "readPools", !.abo = cm.abo]
        /\ UNCHANGED <<cm, queue, mq>>
    BY <1>9 DEF CreateTempDataObjectTables
  <2>2. ~ct.rehook
    BY <1>3, <2>1 DEF InHand
  <2>3. ct'.rehook = ct.rehook
    BY <1>0, <2>1 DEF Threads
  <2> QED BY <1>s, <2>1, <2>2, <2>3
<1>10. ASSUME NEW pc, NEW kind, NEW next \in {"readSites", "readApps", "finish"},
              ReadKind(pc, kind, next)
       PROVE  RecoveryInv'
  <2> DEFINE t == IF ct.rehook THEN ReadAll(mb, kind, ct.temp)
                  ELSE ReadFromMetabaseChangeNotification(mb, table, kind, ct.temp, ct.els)
  <2>1. /\ ct' = NothingToDo \/ ct' = [ct EXCEPT !.pc = next, !.temp = t]
        /\ ct.rehook /\ Alive(ct.abo) => ct' = [ct EXCEPT !.pc = next, !.temp = t]
        /\ UNCHANGED <<cm, queue, mq>>
    BY <1>10 DEF ReadKind
  <2> HIDE DEF t
  <2>2. CASE ct.rehook
    <3>1. ct' = [ct EXCEPT !.pc = next, !.temp = t]
      BY <2>1, <2>2, StillAnswers
    <3>2. ct'.rehook = ct.rehook /\ InHand'
      BY <1>0, <1>3, <3>1 DEF InHand, Threads
    <3> QED BY <1>s, <2>1, <3>2
  <2>3. CASE ~ct.rehook
    <3>1. ct'.rehook = ct.rehook
      <4>1. NothingToDo.rehook = FALSE /\ [ct EXCEPT !.pc = next, !.temp = t].rehook = ct.rehook
        BY <1>0 DEF NothingToDo, Threads
      <4> QED BY <1>0, <2>1, <2>3, <4>1
    <3> QED BY <1>s, <2>1, <2>3, <3>1
  <2> QED BY <2>2, <2>3
<1>11. CASE ReadPools \/ ReadSites \/ ReadApps
  BY <1>10, <1>11 DEF ReadPools, ReadSites, ReadApps
<1>12. CASE FinishChangeProcessing
  <2>1. /\ ct.pc = "finish" /\ mq' = Append(mq, ConfigChange(CopyInteresting(Merged)))
        /\ cm' = ProcessingAllowed /\ ct' = NothingToDo /\ queue' = queue
    BY <1>12 DEF FinishChangeProcessing
  <2>2. /\ ConfigChange(CopyInteresting(Merged)) \in MainItems
        /\ ConfigChange(CopyInteresting(Merged)).op # "recover"
    BY <1>0, MergedType, ClearType, ItemTypes DEF ConfigChange
  <2>3. Number(mq', "recover") = Number(mq, "recover")
    BY <1>0, <2>1, <2>2, NumberAppend
  <2>4. ct'.rehook = FALSE
    BY <2>1 DEF NothingToDo
  <2>5. CASE ~ct.rehook
    <3>1. cm' = cm /\ ct'.rehook = ct.rehook
      BY <1>0, <2>1, <2>4, <2>5 DEF ProcessingAllowed
    <3> QED BY <1>s, <2>1, <2>3, <2>5, <3>1
  <2>6. CASE ct.rehook
    <3>1. cm' = [cm EXCEPT !.ThreadProcessingDisabled = @ - 1]
      BY <2>1, <2>6 DEF ProcessingAllowed
    <3>2. /\ cm'.abo = cm.abo /\ cm'.notSent = cm.notSent
          /\ cm'.ThreadProcessingDisabled = cm.ThreadProcessingDisabled - 1
          /\ cm'.InCrashedState = cm.InCrashedState
      BY <1>0, <3>1 DEF Fields
    <3>3. Unrecovered' = Unrecovered
      BY <1>1, <2>3 DEF Unrecovered
    <3>4. Unfinished' = Unfinished - 1
      BY <1>0, <2>1, <2>4, <2>6, <3>3 DEF Unfinished
    <3>5. Exact'
      BY <1>1, <3>2, <3>3, <3>4 DEF RecoveryInv, Exact, Lost
    <3>6. InHand'
      BY <2>4 DEF InHand
    <3>7. SecondLife'
      BY <1>1, <2>1, <2>3, <2>4, <3>2 DEF RecoveryInv, SecondLife, Rehooking
    <3> QED BY <3>5, <3>6, <3>7 DEF RecoveryInv
  <2> QED BY <2>5, <2>6
<1>13. CASE SendMainThreadChangesFails
  <2>1. /\ cm' = [cm EXCEPT !.notSent = TRUE] /\ ct' = NothingToDo
        /\ UNCHANGED <<queue, mq>>
    BY <1>13 DEF SendMainThreadChangesFails
  <2>2. cm'.notSent /\ cm'.abo = cm.abo /\ ct'.rehook = FALSE
    BY <1>0, <2>1 DEF Fields, NothingToDo
  <2>3. Exact' /\ InHand'
    BY <2>2 DEF Exact, Lost, InHand
  <2>4. SecondLife'
    BY <1>1, <2>1, <2>2 DEF RecoveryInv, SecondLife, Rehooking
  <2> QED BY <2>3, <2>4 DEF RecoveryInv
<1> QED
  BY <1>4, <1>5, <1>6, <1>7, <1>8, <1>9, <1>11, <1>12, <1>13 DEF ConfigThread

LEMMA MainThreadRecovery ==
  ASSUME ConfigInv, RecoveryInv, MainThread \/ StopService
  PROVE  RecoveryInv'
<1>0. /\ TypeOK /\ cm \in Fields /\ main \in Mains
      /\ Number(queue, "rehook") \in Nat /\ Number(mq, "recover") \in Nat
      /\ queue \in Seq(QueueItems) /\ mq \in Seq(MainItems)
      /\ Unfinished \in Nat /\ Unrecovered \in Nat
      /\ cm.ThreadProcessingDisabled \in Nat /\ cm.InCrashedState \in Nat
  BY ConfigTypeParts, TypeParts, TallyNat DEF ConfigInv, TypeOK, Fields, Mains
<1>1. UNCHANGED <<inetinfo, monitor, ct>>
  BY DEF MainThread, LaunchChangeNotificationListener, InitReadPools, InitReadSites,
     InitReadApps, ReadDataFromMetabase, InitializeFinishes, ProcessConfigChange,
     RecoverFromInetinfoCrash, StopServiceWorkItem, RequestShutdown, ShutdownDone,
     BeginTerminate, Terminate, StopService, MainWorkItem, MainUnchanged
<1>2. InHand'
  BY <1>1 DEF RecoveryInv, InHand
<1>s. ASSUME Number(mq', "recover") = Number(mq, "recover"),
             Number(queue', "rehook") = Number(queue, "rehook"),
             cm'.abo = cm.abo, cm'.notSent = cm.notSent,
             cm'.ThreadProcessingDisabled = cm.ThreadProcessingDisabled,
             cm'.InCrashedState = cm.InCrashedState, Lost => Lost'
      PROVE  RecoveryInv'
  BY <1>0, <1>1, <1>2, <1>s, NoRecovery
\* Steps that end in a state in which a recovery does not matter any more.
<1>e. ASSUME Lost', Number(mq', "recover") = 0 \/ Number(mq', "recover") <= Number(mq, "recover"),
             Number(queue', "rehook") = 0 \/ Number(queue', "rehook") = Number(queue, "rehook"),
             Number(mq', "recover") \in Nat, cm'.abo = cm.abo
      PROVE  RecoveryInv'
  <2>1. SecondLife'
    BY <1>0, <1>1, <1>e DEF RecoveryInv, SecondLife, Rehooking
  <2> QED BY <1>2, <1>e, <2>1 DEF RecoveryInv, Exact
<1>3. CASE \/ LaunchChangeNotificationListener \/ InitReadPools \/ InitReadSites
           \/ InitReadApps \/ InitializeFinishes
  <2>1. /\ main.pc \in {"wait", "readPools", "readSites", "readApps", "finish"}
        /\ UNCHANGED <<queue, mq>>
        /\ \/ cm' = cm \/ cm' = [cm EXCEPT !.BlockEvent = TRUE]
           \/ cm' = [cm EXCEPT !.ProcessChanges = TRUE, !.BlockEvent = TRUE]
    BY <1>3 DEF LaunchChangeNotificationListener, InitReadPools, InitReadSites, InitReadApps,
       ReadDataFromMetabase, InitializeFinishes, InitializeFails
  <2>2. /\ cm'.abo = cm.abo /\ cm'.notSent = cm.notSent
        /\ cm'.ThreadProcessingDisabled = cm.ThreadProcessingDisabled
        /\ cm'.InCrashedState = cm.InCrashedState
    BY <1>0, <2>1 DEF Fields
  <2>3. Lost => Lost'
    BY <1>1, <2>1, <2>2 DEF Lost
  <2> QED BY <1>s, <2>1, <2>2, <2>3
<1>4. CASE ProcessConfigChange
  <2>1. MainWorkItem("change") /\ UNCHANGED <<cm, queue, main>>
    BY <1>4 DEF ProcessConfigChange
  <2>2. Number(mq', "recover") = Number(mq, "recover")
    BY <1>0, <2>1, MainItemType
  <2>3. Lost => Lost'
    BY <1>1, <2>1 DEF Lost
  <2> QED BY <1>s, <2>1, <2>2, <2>3
<1>5. CASE RecoverFromInetinfoCrash
  <2>1. MainWorkItem("recover")
    BY <1>5 DEF RecoverFromInetinfoCrash
  <2>2. /\ Number(mq, "recover") = Number(mq', "recover") + 1 /\ Number(mq', "recover") \in Nat
        /\ Number(mq', "recover") <= Number(mq, "recover") /\ Number(mq, "recover") # 0
    BY <1>0, <2>1, MainItemType
  <2>3. CASE main.pc = "stopping" \/ ~inetinfo.up
    <3>1. /\ UNCHANGED <<cm, queue>>
          /\ (main' = main /\ main.pc = "stopping") \/ main' = [main EXCEPT !.pc = "terminate"]
      BY <1>5, <2>3 DEF RecoverFromInetinfoCrash
    <3>2. Lost'
      BY <1>0, <3>1 DEF Lost, Mains
    <3> QED BY <1>e, <2>2, <3>1, <3>2
  <2>4. CASE main.pc # "stopping" /\ inetinfo.up
    <3>1. /\ cm' = [cm EXCEPT !.abo = inetinfo.life, !.InCrashedState = @ - 1,
                              !.hooked = IF @ = cm.abo THEN 0 ELSE @]
          /\ queue' = Append(queue, Rehook) /\ main' = main
      BY <1>5, <2>4 DEF RecoverFromInetinfoCrash
    <3>2. /\ cm'.abo = inetinfo.life /\ cm'.notSent = cm.notSent
          /\ cm'.ThreadProcessingDisabled = cm.ThreadProcessingDisabled
          /\ cm'.InCrashedState = cm.InCrashedState - 1
      BY <1>0, <3>1 DEF Fields
    <3>3. Number(queue', "rehook") = Number(queue, "rehook") + 1
      <4>1. Rehook \in QueueItems /\ Rehook.op = "rehook"
        BY ItemTypes DEF Rehook
      <4> QED BY <1>0, <3>1, <4>1, NumberAppend
    <3>4. inetinfo.life = 2
      BY <2>2, <2>4 DEF RecoveryInv, SecondLife
    <3>5. SecondLife'
      BY <1>1, <2>2, <2>4, <3>2, <3>4 DEF RecoveryInv, SecondLife, Rehooking
    <3>6. Unrecovered' = Unrecovered - 1
      BY <1>0, <1>1, <2>2 DEF Unrecovered
    <3>7. Unfinished' = Unfinished
      <4>1. ct'.rehook = ct.rehook
        BY <1>1
      <4> QED BY <1>0, <3>3, <3>6, <4>1 DEF Unfinished
    <3>8. Exact'
      BY <1>0, <1>1, <3>1, <3>2, <3>6, <3>7 DEF RecoveryInv, Exact, Lost
    <3> QED BY <1>2, <3>5, <3>8 DEF RecoveryInv
  <2> QED BY <2>3, <2>4
<1>6. CASE StopServiceWorkItem
  <2>1. MainWorkItem("stop") /\ StopChangeProcessing("stopping") /\ queue' = queue
    BY <1>6 DEF StopServiceWorkItem
  <2>2. Number(mq', "recover") = Number(mq, "recover")
    BY <1>0, <2>1, MainItemType
  <2>3. main'.pc \in {"flagged", "stopping"} /\ cm'.abo = cm.abo
    BY <1>0, <2>1 DEF StopChangeProcessing, Mains, Fields
  <2>4. Lost'
    BY <2>3 DEF Lost
  <2> QED BY <1>0, <1>e, <2>1, <2>2, <2>3, <2>4
<1>7. CASE RequestShutdown
  <2>1. /\ main' = [main EXCEPT !.pc = main.next] /\ mq' = mq
        /\ cm' = [cm EXCEPT !.ProcessChanges = FALSE] /\ queue' = Append(queue, ExitThread)
    BY <1>7 DEF RequestShutdown
  <2>2. Number(queue', "rehook") = Number(queue, "rehook")
    <3>1. ExitThread \in QueueItems /\ ExitThread.op # "rehook"
      BY ItemTypes DEF ExitThread
    <3> QED BY <1>0, <2>1, <3>1, NumberAppend
  <2>3. main'.pc \in {"stopping", "join"} /\ cm'.abo = cm.abo
    BY <1>0, <2>1 DEF Mains, Fields
  <2>4. Lost'
    BY <2>3 DEF Lost
  <2> QED BY <1>0, <1>e, <2>1, <2>2, <2>3, <2>4
<1>8. CASE ShutdownDone
  <2>1. main' = [main EXCEPT !.pc = "terminate"] /\ UNCHANGED <<cm, queue, mq>>
    BY <1>8 DEF ShutdownDone
  <2>2. Lost'
    BY <1>0, <2>1 DEF Lost, Mains
  <2> QED BY <1>0, <1>e, <2>1, <2>2
<1>9. CASE BeginTerminate
  <2>1. StopChangeProcessing("join") /\ UNCHANGED <<queue, mq>>
    BY <1>9 DEF BeginTerminate
  <2>2. main'.pc \in {"flagged", "join"} /\ cm'.abo = cm.abo
    BY <1>0, <2>1 DEF StopChangeProcessing, Mains, Fields
  <2>3. Lost'
    BY <2>2 DEF Lost
  <2> QED BY <1>0, <1>e, <2>1, <2>2, <2>3
<1>10. CASE Terminate
  <2>1. main' = [main EXCEPT !.pc = "done"] /\ queue' = <<>> /\ mq' = <<>> /\ cm' = cm
    BY <1>10 DEF Terminate
  <2>2. Number(queue', "rehook") = 0 /\ Number(mq', "recover") = 0
    BY <2>1, NumberEmpty
  <2>3. Lost'
    BY <1>0, <2>1 DEF Lost, Mains
  <2> QED BY <1>e, <2>1, <2>2, <2>3
<1>11. CASE StopService
  <2>1. RequestStopService /\ UNCHANGED <<queue, main>>
    BY <1>11 DEF StopService
  <2>2. /\ cm' = [cm EXCEPT !.stopRequested = TRUE]
        /\ Number(mq', "recover") = Number(mq, "recover")
    BY <2>1, RequestStopType
  <2>3. /\ cm'.abo = cm.abo /\ cm'.notSent = cm.notSent
        /\ cm'.ThreadProcessingDisabled = cm.ThreadProcessingDisabled
        /\ cm'.InCrashedState = cm.InCrashedState
    BY <1>0, <2>2 DEF Fields
  <2>4. Lost => Lost'
    BY <1>1, <2>1, <2>3 DEF Lost
  <2> QED BY <1>s, <2>1, <2>2, <2>3, <2>4
<1> QED
  BY <1>3, <1>4, <1>5, <1>6, <1>7, <1>8, <1>9, <1>10, <1>11 DEF MainThread

\* With at most one crash of inetinfo every recovery completes: once nothing is under
\* way, changes are processed again and the metabase is not thought to be in its
\* crashed state (RecordInetinfoCrash, RecoverFromInetinfoCrash,
\* ProcessMetabaseCrashOnConfigThread), unless a change could not be sent, which is
\* logged.  Without the bound it is false: a second crash before the first recovery
\* has finished leaves the processing of changes disabled.
THEOREM RecoverySafety ==
  ASSUME MaxCrashes <= 1
  PROVE  Spec => []RecoveryCompletes
<1>1. Init => RecoveryInv
  <2> SUFFICES ASSUME Init PROVE RecoveryInv
    OBVIOUS
  <2>1. Number(queue, "rehook") = 0 /\ Number(mq, "recover") = 0
    BY NumberEmpty DEF Init
  <2>2. SecondLife /\ InHand
    BY <2>1 DEF Init, SecondLife, Rehooking, InHand
  <2>3. Exact
    BY <2>1 DEF Init, Exact, Unfinished, Unrecovered
  <2> QED BY <2>2, <2>3 DEF RecoveryInv
<1>2. ConfigInv /\ RecoveryInv /\ [Next]_vars => RecoveryInv'
  <2> SUFFICES ASSUME ConfigInv, RecoveryInv, [Next]_vars PROVE RecoveryInv'
    OBVIOUS
  <2>1. CASE UNCHANGED vars
    <3>1. UNCHANGED <<inetinfo, monitor, cm, ct, queue, main, mq>>
      BY <2>1 DEF vars
    <3>2. SecondLife' /\ InHand' /\ Exact'
      BY <3>1 DEF RecoveryInv, SecondLife, InHand, Exact, Lost, Rehooking, Unfinished,
         Unrecovered
    <3> QED BY <3>2 DEF RecoveryInv
  <2>2. CASE Next
    BY <2>2, InetinfoRecovery, MonitorRecovery, ConfigThreadRecovery, MainThreadRecovery
       DEF Next
  <2> QED BY <2>1, <2>2
<1>3. ConfigInv /\ RecoveryInv => RecoveryCompletes
  <2> SUFFICES ASSUME ConfigInv, RecoveryInv, Quiet, ~cm.notSent
               PROVE  cm.ThreadProcessingDisabled = 0 /\ cm.InCrashedState = 0
    BY DEF RecoveryCompletes
  <2>1. Number(queue, "rehook") = 0 /\ Number(mq, "recover") = 0
    BY NumberEmpty DEF Quiet
  <2>2. ~ct.rehook /\ monitor.pc = "watching"
    BY DEF Quiet, RecoveryInv, InHand
  <2>3. Unrecovered = 0 /\ Unfinished = 0
    BY <2>1, <2>2 DEF Unrecovered, Unfinished
  <2>4. ~Lost
    BY <2>2 DEF Quiet, Lost
  <2> QED BY <2>3, <2>4 DEF RecoveryInv, Exact
<1> QED BY <1>1, <1>2, <1>3, ConfigAlways, PTL DEF Spec

-----------------------------------------------------------------------------
(***************************************************************************)
(* What WAS will have been told once it has worked off its queue.          *)
(***************************************************************************)
ToldStep(item, w) ==
  IF item.op = "change" THEN ProcessChanges(item.rows, w) ELSE w

LEMMA ToldStepType ==
  ASSUME NEW item \in MainItems, NEW w \in WasTables
  PROVE  ToldStep(item, w) \in WasTables
<1>1. item.rows \in Tables
  BY DEF MainItems
<1> QED BY <1>1, ProcessChangesType DEF ToldStep

LEMMA ToldSteps ==
  ASSUME NEW w \in WasTables, NEW items \in Seq(MainItems)
  PROVE  \E told \in [0..Len(items) -> WasTables] :
           /\ told[0] = w
           /\ \A i \in 1..Len(items) : told[i] = ToldStep(items[i], told[i - 1])
           /\ Told(w, items) = told[Len(items)]
<1> DEFINE n == Len(items)
           Def(r) == [i \in 0..n |-> IF i = 0 THEN w
                        ELSE IF items[i].op = "change"
                             THEN ProcessChanges(items[i].rows, r[i - 1])
                        ELSE r[i - 1]]
           G == [i \in 1..n |-> [u \in WasTables |-> ToldStep(items[i], u)]]
<1>1. n \in Nat /\ \A i \in 1..n : items[i] \in MainItems
  OBVIOUS
<1>2. G \in [1..n -> [WasTables -> WasTables]]
  BY <1>1, ToldStepType
<1>3. PICK f \in [0..n -> WasTables] : f[0] = w /\ \A i \in 1..n : f[i] = G[i][f[i - 1]]
  <2>1. n \in Nat
    BY <1>1
  <2>2. Stepwise(G, n, WasTables)
    BY <1>2 DEF Stepwise
  <2>3. \E f : Leads(f, w, G, n, WasTables)
    <3> HIDE DEF G, n
    <3> QED BY <2>1, <2>2, IterationExists
  <2> HIDE DEF G, n
  <2> QED BY <2>3, Zenon DEF Leads
<1>8. ASSUME NEW i \in 1..n
      PROVE  f[i] = ToldStep(items[i], f[i - 1])
  <2>1. f[i] = G[i][f[i - 1]] /\ i - 1 \in 0..n
    BY <1>1, <1>3
  <2>2. f[i - 1] \in WasTables
    BY <2>1
  <2> QED BY <2>1, <2>2
<1>4. f = Def(f)
  <2>1. \A i \in 1..n : f[i] = IF items[i].op = "change"
                               THEN ProcessChanges(items[i].rows, f[i - 1]) ELSE f[i - 1]
    BY <1>8 DEF ToldStep
  <2> QED BY <2>1, <1>3
<1> DEFINE told == CHOOSE r : r = Def(r)
<1>5. told = Def(told)
  <2> HIDE DEF Def
  <2> QED BY <1>4
<1>6. Told(w, items) = told[n]
  BY Zenon DEF Told
<1> HIDE DEF told
<1>7. \A i \in 0..n : told[i] = f[i]
  <2>1. told[0] = f[0]
    BY <1>5, <1>3, <1>1
  <2>2. ASSUME NEW i \in 1..n, told[i - 1] = f[i - 1] PROVE told[i] = f[i]
    <3>1. i \in 0..n /\ i # 0
      BY <1>1
    <3>2. told[i] = ToldStep(items[i], told[i - 1])
      BY <1>5, <3>1 DEF ToldStep
    <3> QED BY <1>8, <2>2, <3>2
  <2>3. n \in Nat
    BY <1>1
  <2> HIDE DEF n
  <2>4. SameSteps(told, f, n)
    BY <2>1, <2>2 DEF SameSteps
  <2>5. SameUpTo(told, f, n)
    BY <2>3, <2>4, IterationUnique
  <2> QED BY <2>5 DEF SameUpTo
<1> QED BY <1>6, <1>7, <1>8, <1>3, <1>1

\* Any function that goes the same way ends there.
LEMMA ToldUnique ==
  ASSUME NEW w \in WasTables, NEW items \in Seq(MainItems), NEW g, g[0] = w,
         \A i \in 1..Len(items) : g[i] = ToldStep(items[i], g[i - 1])
  PROVE  Told(w, items) = g[Len(items)] /\ Told(w, items) \in WasTables
<1>1. PICK f \in [0..Len(items) -> WasTables] :
        /\ f[0] = w
        /\ \A i \in 1..Len(items) : f[i] = ToldStep(items[i], f[i - 1])
        /\ Told(w, items) = f[Len(items)]
  BY ToldSteps
<1>2. Len(items) \in Nat
  OBVIOUS
<1>3. SameSteps(f, g, Len(items))
  BY <1>1 DEF SameSteps
<1>4. SameUpTo(f, g, Len(items))
  BY <1>2, <1>3, IterationUnique
<1> QED BY <1>1, <1>2, <1>4 DEF SameUpTo

LEMMA ToldType ==
  ASSUME NEW w \in WasTables, NEW items \in Seq(MainItems)
  PROVE  Told(w, items) \in WasTables
<1>1. Len(items) \in Nat
  OBVIOUS
<1> QED BY <1>1, ToldSteps

\* An item at the end comes last,
LEMMA ToldAppend ==
  ASSUME NEW w \in WasTables, NEW items \in Seq(MainItems), NEW x \in MainItems
  PROVE  Told(w, Append(items, x)) = ToldStep(x, Told(w, items))
<1> DEFINE n == Len(items)
           s == Append(items, x)
<1>1. PICK f \in [0..n -> WasTables] :
        /\ f[0] = w
        /\ \A i \in 1..n : f[i] = ToldStep(items[i], f[i - 1])
        /\ Told(w, items) = f[n]
  BY ToldSteps
<1>2. /\ n \in Nat /\ s \in Seq(MainItems) /\ Len(s) = n + 1
      /\ \A i \in 1..n : s[i] = items[i]
      /\ s[n + 1] = x
  OBVIOUS
<1> HIDE DEF s, n
<1> DEFINE g == [i \in 0..(n + 1) |-> IF i = n + 1 THEN ToldStep(x, f[n]) ELSE f[i]]
<1>3. g[0] = w
  BY <1>1, <1>2
<1>4. ASSUME NEW i \in 1..(n + 1)
      PROVE  g[i] = ToldStep(s[i], g[i - 1])
  <2>1. CASE i = n + 1
    <3>1. g[i] = ToldStep(x, f[n]) /\ g[n] = f[n] /\ i - 1 = n
      BY <1>2, <2>1
    <3> QED BY <1>2, <2>1, <3>1
  <2>2. CASE i # n + 1
    <3>1. i \in 1..n /\ i - 1 \in 0..n /\ i - 1 # n + 1
      BY <1>2, <2>2
    <3>2. g[i] = f[i] /\ g[i - 1] = f[i - 1] /\ s[i] = items[i]
      BY <1>2, <2>2, <3>1
    <3> QED BY <1>1, <3>1, <3>2
  <2> QED BY <2>1, <2>2
<1>5. g[n + 1] = ToldStep(x, f[n])
  BY <1>2
<1> HIDE DEF g
<1>6. Told(w, s) = g[n + 1]
  BY <1>2, <1>3, <1>4, ToldUnique
<1> QED BY <1>1, <1>5, <1>6 DEF s

\* and the first item first.
LEMMA ToldTail ==
  ASSUME NEW w \in WasTables, NEW items \in Seq(MainItems), items # <<>>
  PROVE  Told(w, items) = Told(ToldStep(Head(items), w), Tail(items))
<1> DEFINE n == Len(items)
           t == Tail(items)
<1>1. PICK f \in [0..n -> WasTables] :
        /\ f[0] = w
        /\ \A i \in 1..n : f[i] = ToldStep(items[i], f[i - 1])
        /\ Told(w, items) = f[n]
  BY ToldSteps
<1>2. /\ n \in Nat \ {0} /\ t \in Seq(MainItems) /\ Len(t) = n - 1
      /\ Head(items) = items[1] /\ items[1] \in MainItems
      /\ \A i \in 1..(n - 1) : t[i] = items[i + 1]
  OBVIOUS
<1> HIDE DEF t, n
<1> DEFINE g == [i \in 0..(n - 1) |-> f[i + 1]]
           v == ToldStep(Head(items), w)
<1>3. v \in WasTables
  BY <1>2, ToldStepType
<1>4. g[0] = v
  <2>1. g[0] = f[1]
    BY <1>2
  <2>2. f[1] = ToldStep(items[1], f[1 - 1]) /\ 1 - 1 = 0
    BY <1>1, <1>2
  <2> QED BY <1>1, <1>2, <2>1, <2>2
<1>5. ASSUME NEW i \in 1..(n - 1)
      PROVE  g[i] = ToldStep(t[i], g[i - 1])
  <2>1. i + 1 \in 1..n /\ (i + 1) - 1 = i /\ i - 1 \in 0..(n - 1) /\ (i - 1) + 1 = i
    BY <1>2
  <2>2. g[i] = f[i + 1] /\ g[i - 1] = f[i]
    BY <1>2, <2>1
  <2>3. f[i + 1] = ToldStep(items[i + 1], f[i])
    BY <1>1, <2>1
  <2> QED BY <1>2, <2>2, <2>3
<1>6. g[n - 1] = f[n]
  BY <1>2
<1> HIDE DEF g, v
<1>7. Told(v, t) = g[n - 1]
  BY <1>2, <1>3, <1>4, <1>5, ToldUnique
<1> QED BY <1>1, <1>6, <1>7 DEF v, t

\* Without changes WAS learns nothing.
LEMMA ToldNothing ==
  ASSUME NEW w \in WasTables, NEW items \in Seq(MainItems),
         \A i \in DOMAIN items : items[i].op # "change"
  PROVE  Told(w, items) = w
<1> DEFINE g == [i \in 0..Len(items) |-> w]
<1>1. Len(items) \in Nat /\ DOMAIN items = 1..Len(items)
  OBVIOUS
<1>2. g[0] = w /\ g[Len(items)] = w
  BY <1>1
<1>3. \A i \in 1..Len(items) : g[i] = ToldStep(items[i], g[i - 1])
  BY <1>1 DEF ToldStep
<1> HIDE DEF g
<1> QED BY <1>2, <1>3, ToldUnique

-----------------------------------------------------------------------------
(***************************************************************************)
(* A change as WAS works it off.  M is the merged and validated table, c   *)
(* the rows of it that are sent, w what WAS knows before.                  *)
(***************************************************************************)
Will(o) == QueryWillWasKnowAboutObject(o)

\* The flags of the table are what WAS knows.
Matches(t, w) ==
  /\ \A k \in Object : t[k].InWas <=> w[k].InMetabase
  /\ \A k \in Pool \cup Site : w[k].InMetabase <=> Present(w[k])
  /\ \A a \in App : w[a].InMetabase => Present(w[a])
\* What WAS does not know counts as changed; it knows the site of an application.
Regular(t) ==
  /\ \A k \in Object : ~t[k].InWas => t[k].changed
  /\ \A k \in Object : t[k].InWas => Present(t[k])
  /\ \A a \in App : t[a].InWas => t[a[1]].InWas
Validated(t) ==
  \A a \in App : Will(t[a]) => Will(t[a[1]]) /\ t[a].val \in Pool /\ Will(t[t[a].val])
Rows(c, t) ==
  \A k \in Object : c[k] = t[k] \/ (c[k] = NoObject /\ ~QueryDoesWasCareAboutObject(t[k]))

\* Between the creations and the deletions WAS knows the old and the new.
Both(t, w) ==
  /\ \A k \in Object : w[k].InMetabase <=> t[k].InWas \/ Will(t[k])
  /\ \A k \in Pool \cup Site : w[k].InMetabase <=> Present(w[k])
  /\ \A a \in App : w[a].InMetabase => Present(w[a])

LEMMA NoObjectFacts ==
  /\ ~Present(NoObject) /\ ~Will(NoObject) /\ ~QueryShouldWasInsert(NoObject)
  /\ ~QueryShouldWasUpdate(NoObject) /\ ~QueryShouldWasDelete(NoObject)
  /\ ~NoObject.InWas /\ NoObject.changed
  BY DEF NoObject, NewObject, Present, Will, QueryWillWasKnowAboutObject,
     QueryShouldWasInsert, QueryShouldWasUpdate, QueryShouldWasDelete

\* The rows say of every object what is to be done about it.
LEMMA RowFacts ==
  ASSUME NEW c \in Tables, NEW M \in Tables, Rows(c, M), NEW k \in Object
  PROVE  /\ QueryShouldWasInsert(c[k]) <=> ~M[k].InWas /\ Will(M[k])
         /\ QueryShouldWasInsert(c[k]) => c[k] = M[k]
         /\ QueryShouldWasUpdate(c[k]) => c[k] = M[k] /\ M[k].InWas /\ Will(M[k])
         /\ QueryShouldWasDelete(c[k]) <=> M[k].InWas /\ ~Will(M[k])
         /\ ~Present(c[k]) => ~(~M[k].InWas /\ Will(M[k]))
<1>1. c[k] = M[k] \/ (c[k] = NoObject /\ ~QueryDoesWasCareAboutObject(M[k]))
  BY DEF Rows
<1>2. M[k].InWas \in BOOLEAN
  BY DEF Tables, DataObject
<1>3. CASE c[k] = M[k]
  BY <1>2, <1>3 DEF Will, QueryWillWasKnowAboutObject,
     QueryShouldWasInsert, QueryShouldWasUpdate, QueryShouldWasDelete
<1>4. CASE c[k] = NoObject /\ ~QueryDoesWasCareAboutObject(M[k])
  <2>1. ~(~M[k].InWas /\ Will(M[k])) /\ ~(M[k].InWas /\ ~Will(M[k]))
    BY <1>4 DEF QueryDoesWasCareAboutObject, QueryShouldWasInsert, QueryShouldWasDelete, Will
  <2> QED BY <1>4, <2>1, NoObjectFacts
<1> QED BY <1>1, <1>3, <1>4

\* Kinds do not overlap, and no pool is called Absent.
LEMMA KindFacts ==
  /\ \A k \in Pool : k \notin Site /\ k \notin App /\ k # Absent /\ k \in Object /\ k \in Value
  /\ \A k \in Site : k \notin Pool /\ k \notin App /\ k \in Object
  /\ \A k \in App : k \notin Pool /\ k \notin Site /\ k \in Object
  BY KeysDistinct, ValuesDistinct DEF Object, Value

LEMMA CreatePoolsAndSitesFacts ==
  ASSUME NEW c \in Tables, NEW M \in Tables, Rows(c, M), NEW w \in WasTables, Matches(M, w),
         Regular(M), NEW u, u = CreatePoolsAndSites(c, CreatePoolsAndSites(c, w, Pool), Site)
  PROVE  /\ u \in WasTables
         /\ \A k \in Pool \cup Site : /\ u[k].InMetabase <=> M[k].InWas \/ Will(M[k])
                                      /\ u[k].InMetabase <=> Present(u[k])
         /\ \A k \in App : u[k] = w[k]
<1>1. u \in WasTables
  BY CreatePoolsAndSitesType
<1>2. ASSUME NEW k \in Object
      PROVE  u[k] = IF k \in Pool \cup Site /\ QueryShouldWasInsert(c[k])
                    THEN SetConfiguration(c[k], w[k]) ELSE w[k]
  BY KindFacts DEF CreatePoolsAndSites
<1>3. \A k \in App : u[k] = w[k]
  BY <1>2, KindFacts
<1>4. ASSUME NEW k \in Pool \cup Site
      PROVE  /\ u[k].InMetabase <=> M[k].InWas \/ Will(M[k])
             /\ u[k].InMetabase <=> Present(u[k])
  <2>1. k \in Object
    BY DEF Object
  <2>2. M[k].InWas <=> w[k].InMetabase
    BY <2>1 DEF Matches
  <2>3. w[k].InMetabase <=> Present(w[k])
    BY DEF Matches
  <2>4. CASE QueryShouldWasInsert(c[k])
    <3>1. u[k] = SetConfiguration(M[k], w[k]) /\ ~M[k].InWas /\ Will(M[k])
      BY <1>2, <2>1, <2>4, RowFacts
    <3>2. M[k].changed /\ Present(M[k])
      BY <2>1, <3>1 DEF Regular, Will, QueryWillWasKnowAboutObject
    <3>3. u[k].InMetabase = TRUE /\ Present(u[k])
      BY <3>1, <3>2 DEF SetConfiguration, Present
    <3> QED BY <3>1, <3>3
  <2>5. CASE ~QueryShouldWasInsert(c[k])
    <3>1. u[k] = w[k] /\ ~(~M[k].InWas /\ Will(M[k]))
      BY <1>2, <2>1, <2>5, RowFacts
    <3> QED BY <2>2, <2>3, <3>1
  <2> QED BY <2>4, <2>5
<1> QED BY <1>1, <1>3, <1>4

\* An application that is created, or taken over from a site that had made it up.
LEMMA ModifyKnown ==
  ASSUME NEW w \in WasTables, NEW a \in App, NEW o \in DataObject, o.val \in Pool,
         Present(w[a[1]]), Present(w[o.val])
  PROVE  /\ ModifyApplication(w, a, o, TRUE).InMetabase
         /\ Present(ModifyApplication(w, a, o, TRUE))
<1>1. w[a] \in WasObject
  BY KindFacts DEF WasTables
<1>2. o.val # Absent
  BY KindFacts
<1>3. CASE ~Present(w[a])
  <2>1. ModifyApplication(w, a, o, TRUE) = [val |-> o.val, InMetabase |-> TRUE, cmd |-> 0]
    BY <1>3 DEF ModifyApplication, CreateApplication
  <2>2. PICK x : x = [val |-> o.val, InMetabase |-> TRUE, cmd |-> 0]
    OBVIOUS
  <2>3. x.val # Absent /\ x.InMetabase
    BY <1>2, <2>2
  <2>4. ModifyApplication(w, a, o, TRUE) = x
    BY <2>1, <2>2
  <2> QED BY <2>3, <2>4, Zenon DEF Present
<1>4. CASE Present(w[a])
  <2> DEFINE v == IF o.changed THEN o.val ELSE w[a].val
  <2>1. ModifyApplication(w, a, o, TRUE) = [w[a] EXCEPT !.val = v, !.InMetabase = TRUE]
    BY <1>4 DEF ModifyApplication
  <2>2. v # Absent
    BY <1>2, <1>4 DEF Present
  <2> HIDE DEF v
  <2> QED BY <1>1, <2>1, <2>2 DEF Present, WasObject
<1> QED BY <1>3, <1>4

\* What a site makes up is not in the metabase.
LEMMA ModifyMadeUp ==
  ASSUME NEW w \in WasTables, NEW a \in App, NEW o, ~w[a].InMetabase
  PROVE  ~ModifyApplication(w, a, o, FALSE).InMetabase
<1>1. w[a] \in WasObject
  BY KindFacts DEF WasTables
<1>2. ~CreateApplication(w, a, o.val, FALSE).InMetabase
  BY DEF CreateApplication, NotInWas
<1> DEFINE v == IF o.changed THEN o.val ELSE w[a].val
<1>3. [w[a] EXCEPT !.val = v, !.InMetabase = FALSE].InMetabase = FALSE
  BY <1>1 DEF WasObject
<1>4. ModifyApplication(w, a, o, FALSE) \in
        {CreateApplication(w, a, o.val, FALSE), w[a], [w[a] EXCEPT !.val = v, !.InMetabase = FALSE]}
  BY DEF ModifyApplication
<1> QED BY <1>2, <1>3, <1>4

LEMMA CreateFacts ==
  ASSUME NEW c \in Tables, NEW M \in Tables, Rows(c, M), NEW w \in WasTables, Matches(M, w),
         Regular(M), Validated(M)
  PROVE  CreateWASObjects(c, w) \in WasTables /\ Both(M, CreateWASObjects(c, w))
<1> DEFINE u == CreatePoolsAndSites(c, CreatePoolsAndSites(c, w, Pool), Site)
           v == CreateApplications(c, u)
<1>1. CreateWASObjects(c, w) = v
  BY DEF CreateWASObjects
<1>2. /\ u \in WasTables
      /\ \A k \in Pool \cup Site : /\ u[k].InMetabase <=> M[k].InWas \/ Will(M[k])
                                   /\ u[k].InMetabase <=> Present(u[k])
      /\ \A k \in App : u[k] = w[k]
  BY CreatePoolsAndSitesFacts
<1> HIDE DEF u
<1>3. v \in WasTables
  BY <1>2, CreateApplicationsType
<1>4. \A k \in Pool \cup Site : v[k] = u[k]
  BY KindFacts DEF CreateApplications, Object
<1>5. ASSUME NEW k \in App
      PROVE  /\ v[k].InMetabase <=> M[k].InWas \/ Will(M[k])
             /\ v[k].InMetabase => Present(v[k])
  <2>1. k \in Object /\ k[1] \in Site /\ k[1] \in Object
    BY KindFacts, AppsAreObjects
  <2>2. v[k] = IF QueryShouldWasInsert(c[k]) THEN ModifyApplication(u, k, c[k], TRUE)
               ELSE IF MakesUpRoot(c, k)
                    THEN ModifyApplication(u, k, NewObject(c[k[1]].val, 0), FALSE)
               ELSE u[k]
    BY <2>1 DEF CreateApplications
  <2>3. /\ u[k] = w[k] /\ (M[k].InWas <=> w[k].InMetabase)
        /\ w[k].InMetabase => Present(w[k])
    BY <1>2, <2>1 DEF Matches
  <2>4. CASE QueryShouldWasInsert(c[k])
    <3>1. c[k] = M[k] /\ Will(M[k])
      BY <2>1, <2>4, RowFacts
    <3>2. Will(M[k[1]]) /\ M[k].val \in Pool /\ Will(M[M[k].val])
      BY <3>1 DEF Validated
    <3>3. Present(u[k[1]]) /\ Present(u[M[k].val])
      BY <1>2, <2>1, <3>2
    <3>4. M[k] \in DataObject
      BY <2>1 DEF Tables
    <3>5. ModifyApplication(u, k, M[k], TRUE).InMetabase /\ Present(ModifyApplication(u, k, M[k], TRUE))
      BY <1>2, <3>2, <3>3, <3>4, ModifyKnown
    <3> QED BY <2>2, <2>4, <3>1, <3>5
  <2>5. CASE ~QueryShouldWasInsert(c[k]) /\ MakesUpRoot(c, k)
    <3>1. QueryShouldWasInsert(c[k[1]]) /\ ~Present(c[k])
      BY <2>5 DEF MakesUpRoot
    <3>2. ~M[k[1]].InWas /\ ~(~M[k].InWas /\ Will(M[k]))
      BY <2>1, <3>1, RowFacts
    <3>3. ~M[k].InWas
      BY <3>2 DEF Regular
    <3>4. ~ModifyApplication(u, k, NewObject(c[k[1]].val, 0), FALSE).InMetabase
      BY <1>2, <2>3, <3>3, ModifyMadeUp
    <3> QED BY <2>2, <2>5, <3>2, <3>3, <3>4
  <2>6. CASE ~QueryShouldWasInsert(c[k]) /\ ~MakesUpRoot(c, k)
    <3>1. v[k] = w[k] /\ ~(~M[k].InWas /\ Will(M[k]))
      BY <2>1, <2>2, <2>3, <2>6, RowFacts
    <3> QED BY <2>3, <3>1
  <2> QED BY <2>4, <2>5, <2>6
<1> HIDE DEF v
<1>6. Both(M, v)
  BY <1>2, <1>4, <1>5 DEF Both, Object
<1> QED BY <1>1, <1>3, <1>6

\* The updates leave WAS what it knows.
LEMMA UpdateFacts ==
  ASSUME NEW c \in Tables, NEW M \in Tables, Rows(c, M), NEW w \in WasTables, Both(M, w),
         Validated(M)
  PROVE  UpdateWASObjects(c, w) \in WasTables /\ Both(M, UpdateWASObjects(c, w))
<1> DEFINE u == UpdateSites(c, UpdatePools(c, w))
           v == UpdateApplications(c, u)
<1>a. UpdatePools(c, w) \in WasTables
  BY SetConfigurationType DEF UpdatePools, WasTables, Tables
<1>1. UpdateWASObjects(c, w) = v /\ u \in WasTables
  BY <1>a, UpdateTypes DEF UpdateWASObjects
<1>2. ASSUME NEW k \in Pool \cup Site
      PROVE  /\ u[k].InMetabase <=> M[k].InWas \/ Will(M[k])
             /\ u[k].InMetabase <=> Present(u[k])
  <2>1. k \in Object /\ k \notin App
    BY KindFacts
  <2>2. u[k] \in {w[k], SetConfiguration(c[k], w[k])}
        /\ (u[k] # w[k] => QueryShouldWasUpdate(c[k]))
    BY <2>1, KindFacts DEF UpdateSites, UpdatePools
  <2>3. (w[k].InMetabase <=> M[k].InWas \/ Will(M[k])) /\ (w[k].InMetabase <=> Present(w[k]))
    BY <2>1 DEF Both
  <2>4. CASE u[k] = w[k]
    BY <2>3, <2>4
  <2>5. CASE u[k] # w[k]
    <3>1. u[k] = SetConfiguration(M[k], w[k]) /\ M[k].InWas /\ Will(M[k])
      BY <2>1, <2>2, <2>5, RowFacts
    <3>2. Present(w[k]) /\ Present(M[k])
      BY <2>3, <3>1 DEF Will, QueryWillWasKnowAboutObject
    <3>3. u[k].InMetabase = TRUE /\ u[k].val # Absent
      BY <3>1, <3>2 DEF SetConfiguration, Present
    <3> QED BY <3>1, <3>3 DEF Present
  <2> QED BY <2>4, <2>5
<1>3. ASSUME NEW k \in App
      PROVE  /\ u[k].InMetabase <=> M[k].InWas \/ Will(M[k])
             /\ u[k].InMetabase => Present(u[k])
  <2>1. k \in Object /\ k \notin Pool /\ k \notin Site /\ k[1] \in Site
    BY KindFacts, AppsAreObjects
  <2> DEFINE p == UpdatePools(c, w)
             made == ModifyApplication(p, k, NewObject(c[k[1]].val, 0), FALSE)
  <2>2. p \in WasTables /\ p[k] = w[k]
    BY <1>a, <2>1 DEF UpdatePools
  <2>3. (w[k].InMetabase <=> M[k].InWas \/ Will(M[k])) /\ (w[k].InMetabase => Present(w[k]))
    BY <2>1 DEF Both
  <2>4. u[k] = p[k] \/ (u[k] = made /\ ~p[k].InMetabase)
    BY <2>1 DEF UpdateSites
  <2>5. ~p[k].InMetabase => ~made.InMetabase
    BY <2>2, ModifyMadeUp
  <2> HIDE DEF p, made
  <2> QED BY <2>2, <2>3, <2>4, <2>5
<1> HIDE DEF u
<1>4. v \in WasTables
  BY <1>1, UpdateTypes
<1>5. \A k \in Pool \cup Site : v[k] = u[k]
  BY KindFacts DEF UpdateApplications
<1>6. ASSUME NEW k \in App
      PROVE  /\ v[k].InMetabase <=> M[k].InWas \/ Will(M[k])
             /\ v[k].InMetabase => Present(v[k])
  <2>1. k \in Object /\ k[1] \in Site
    BY KindFacts, AppsAreObjects
  <2>2. v[k] = IF QueryShouldWasUpdate(c[k]) THEN ModifyApplication(u, k, c[k], TRUE) ELSE u[k]
    BY <2>1 DEF UpdateApplications
  <2>3. CASE QueryShouldWasUpdate(c[k])
    <3>1. c[k] = M[k] /\ M[k].InWas /\ Will(M[k])
      BY <2>1, <2>3, RowFacts
    <3>2. Will(M[k[1]]) /\ M[k].val \in Pool /\ Will(M[M[k].val])
      BY <3>1 DEF Validated
    <3>3. Present(u[k[1]]) /\ Present(u[M[k].val])
      BY <1>2, <2>1, <3>2
    <3>4. M[k] \in DataObject
      BY <2>1 DEF Tables
    <3>5. ModifyApplication(u, k, M[k], TRUE).InMetabase /\ Present(ModifyApplication(u, k, M[k], TRUE))
      BY <1>1, <3>2, <3>3, <3>4, ModifyKnown
    <3> QED BY <2>2, <2>3, <3>1, <3>5
  <2>4. CASE ~QueryShouldWasUpdate(c[k])
    BY <1>3, <2>2, <2>4
  <2> QED BY <2>3, <2>4
<1> HIDE DEF v
<1>7. \A k \in Pool \cup Site : /\ v[k].InMetabase <=> M[k].InWas \/ Will(M[k])
                                /\ v[k].InMetabase <=> Present(v[k])
  BY <1>2, <1>5
<1>8. \A k \in Object : v[k].InMetabase <=> M[k].InWas \/ Will(M[k])
  BY <1>6, <1>7 DEF Object
<1>9. Both(M, v)
  BY <1>6, <1>7, <1>8 DEF Both
<1> QED BY <1>1, <1>4, <1>9

\* After the deletions WAS knows what it should.
After(t, w) ==
  /\ \A k \in Object : w[k].InMetabase <=> Will(t[k])
  /\ \A k \in Pool \cup Site : w[k].InMetabase <=> Present(w[k])
  /\ \A a \in App : w[a].InMetabase => Present(w[a])

LEMMA DeleteFacts ==
  ASSUME NEW c \in Tables, NEW M \in Tables, Rows(c, M), NEW w \in WasTables, Both(M, w),
         Validated(M)
  PROVE  After(M, DeleteWASObjects(c, w))
<1> DEFINE u == DeleteWASObjects(c, w)
<1>1. ~NotInWas.InMetabase /\ ~Present(NotInWas)
  BY DEF NotInWas, Present
<1>2. ASSUME NEW k \in Pool \cup Site
      PROVE  /\ u[k].InMetabase <=> Will(M[k])
             /\ u[k].InMetabase <=> Present(u[k])
  <2>1. k \in Object /\ k \notin App
    BY KindFacts
  <2>2. u[k] = IF QueryShouldWasDelete(c[k]) THEN NotInWas ELSE w[k]
    BY <2>1, KindFacts DEF DeleteWASObjects, DeletePools, DeleteSites, DeleteApplications
  <2>3. (w[k].InMetabase <=> M[k].InWas \/ Will(M[k])) /\ (w[k].InMetabase <=> Present(w[k]))
    BY <2>1 DEF Both
  <2>4. QueryShouldWasDelete(c[k]) <=> M[k].InWas /\ ~Will(M[k])
    BY <2>1, RowFacts
  <2> HIDE DEF u
  <2> QED BY <1>1, <2>2, <2>3, <2>4
<1>3. ASSUME NEW k \in App
      PROVE  /\ u[k].InMetabase <=> Will(M[k])
             /\ u[k].InMetabase => Present(u[k])
  <2>1. k \in Object /\ k \notin Pool /\ k \notin Site /\ k[1] \in Site /\ k[1] \in Object
    BY KindFacts, AppsAreObjects
  <2> DEFINE d == DeleteApplications(c, w)
             made == CreateApplication(w, k, w[k[1]].val, FALSE)
  <2>2. u[k] = IF k[2] = "/" /\ QueryShouldWasDelete(c[k[1]]) THEN NotInWas ELSE d[k]
    BY <2>1 DEF DeleteWASObjects, DeletePools, DeleteSites
  <2>3. d[k] = IF QueryShouldWasDelete(c[k]) /\ w[k].InMetabase
               THEN IF k[2] = "/" /\ ~QueryShouldWasDelete(c[k[1]]) THEN made ELSE NotInWas
               ELSE w[k]
    BY <2>1 DEF DeleteApplications
  <2>4. ~made.InMetabase
    BY <1>1 DEF CreateApplication
  <2>5. (w[k].InMetabase <=> M[k].InWas \/ Will(M[k])) /\ (w[k].InMetabase => Present(w[k]))
    BY <2>1 DEF Both
  <2>6. QueryShouldWasDelete(c[k]) <=> M[k].InWas /\ ~Will(M[k])
    BY <2>1, RowFacts
  <2>7. QueryShouldWasDelete(c[k[1]]) => ~Will(M[k[1]])
    BY <2>1, RowFacts
  <2>8. Will(M[k]) => Will(M[k[1]])
    BY DEF Validated
  <2> HIDE DEF u, d, made
  <2>9. d[k].InMetabase <=> Will(M[k])
    BY <1>1, <2>3, <2>4, <2>5, <2>6
  <2>10. d[k].InMetabase => Present(d[k])
    BY <1>1, <2>3, <2>4, <2>5
  <2> QED BY <1>1, <2>2, <2>7, <2>8, <2>9, <2>10
<1> HIDE DEF u
<1> QED BY <1>2, <1>3 DEF After, Object, u

LEMMA ClearFacts ==
  ASSUME NEW M \in Tables, NEW w \in WasTables, After(M, w), Validated(M)
  PROVE  Matches(ClearDeletedObjects(M), w) /\ Regular(ClearDeletedObjects(M))
<1> DEFINE t == ClearDeletedObjects(M)
<1>1. ASSUME NEW k \in Object
      PROVE  (t[k].InWas <=> Will(M[k])) /\ (t[k].InWas => Present(t[k])) /\ (~t[k].InWas => t[k].changed)
  <2> DEFINE known == QueryWillWasKnowAboutObject(M[k])
             new == [M[k] EXCEPT !.InWas = known, !.changed = ~known, !.cmdChanged = FALSE,
                                 !.SelfValid = TRUE, !.CrossValid = TRUE]
  <2>1. t[k] = IF ~Present(M[k]) \/ M[k].DeleteWhenDone THEN NoObject ELSE new
    BY Zenon DEF ClearDeletedObjects
  <2>2. CASE ~Present(M[k]) \/ M[k].DeleteWhenDone
    <3>1. t[k] = NoObject /\ ~Will(M[k])
      BY <2>1, <2>2 DEF Will, QueryWillWasKnowAboutObject
    <3> HIDE DEF t
    <3> QED BY <3>1, NoObjectFacts
  <2>3. CASE ~(~Present(M[k]) \/ M[k].DeleteWhenDone)
    <3>1. M[k] \in DataObject /\ t[k] = new /\ known \in BOOLEAN
      BY <2>1, <2>3 DEF Tables, QueryWillWasKnowAboutObject, DataObject
    <3>2. M[k].val # Absent
      BY <2>3 DEF Present
    <3> HIDE DEF t, known
    <3>3. t[k].InWas = known /\ t[k].changed = ~known /\ t[k].val = M[k].val
      BY <3>1 DEF DataObject
    <3> QED BY <3>2, <3>3 DEF known, Will, Present
  <2> QED BY <2>2, <2>3
<1> HIDE DEF t
<1>2. Matches(t, w)
  BY <1>1 DEF Matches, After
<1>3. Regular(t)
  <2>1. \A a \in App : a \in Object /\ a[1] \in Object
    BY AppsAreObjects, KindFacts
  <2>2. \A a \in App : t[a].InWas => t[a[1]].InWas
    BY <1>1, <2>1 DEF Validated
  <2> QED BY <1>1, <2>2 DEF Regular
<1> QED BY <1>2, <1>3 DEF t

\* What a change leaves behind: the flags say what WAS will know.
LEMMA SentFacts ==
  ASSUME NEW M \in Tables, NEW w \in WasTables, Matches(M, w), Regular(M), Validated(M)
  PROVE  /\ Matches(ClearDeletedObjects(M), ProcessChanges(CopyInteresting(M), w))
         /\ Regular(ClearDeletedObjects(M))
<1> DEFINE c == CopyInteresting(M)
           w1 == CreateWASObjects(c, w)
           w2 == UpdateWASObjects(c, w1)
           w3 == DeleteWASObjects(c, w2)
<1>1. c \in Tables /\ Rows(c, M)
  BY ClearType DEF CopyInteresting, Rows
<1>2. w3 = ProcessChanges(c, w) /\ w3 \in WasTables
  BY <1>1, ProcessChangesType DEF ProcessChanges
<1> HIDE DEF c, w1, w2, w3
<1>3. w1 \in WasTables /\ Both(M, w1)
  BY <1>1, CreateFacts DEF w1
<1>4. w2 \in WasTables /\ Both(M, w2)
  BY <1>1, <1>3, UpdateFacts DEF w2
<1>5. After(M, w3)
  BY <1>1, <1>4, DeleteFacts DEF w3
<1>6. Matches(ClearDeletedObjects(M), w3) /\ Regular(ClearDeletedObjects(M))
  BY <1>2, <1>5, ClearFacts
<1> QED BY <1>2, <1>6 DEF c

\* Nothing has been sent yet.
Untold(t) == \A k \in Object : ~t[k].InWas /\ t[k].changed

\* The first tables are created as they are.
LEMMA CreatedFacts ==
  ASSUME NEW M \in Tables, Untold(M), Validated(M)
  PROVE  /\ Matches(ClearDeletedObjects(M), CreateWASObjects(M, NothingInWas))
         /\ Regular(ClearDeletedObjects(M))
<1>1. Rows(M, M)
  BY DEF Rows
<1>2. NothingInWas \in WasTables /\ \A k \in Object : NothingInWas[k] = NotInWas
  BY NothingInWasType DEF NothingInWas
<1>3. ~NotInWas.InMetabase /\ ~Present(NotInWas)
  BY DEF NotInWas, Present
<1>4. \A k \in Object : ~NothingInWas[k].InMetabase /\ ~Present(NothingInWas[k])
  BY <1>2, <1>3
<1>5. Pool \cup Site \subseteq Object /\ App \subseteq Object
  BY DEF Object
<1>6. Matches(M, NothingInWas)
  BY <1>4, <1>5 DEF Matches, Untold
<1>7. Regular(M)
  BY <1>5 DEF Regular, Untold
<1> DEFINE u == CreateWASObjects(M, NothingInWas)
<1>8. u \in WasTables /\ Both(M, u)
  BY <1>1, <1>2, <1>6, <1>7, CreateFacts
<1> HIDE DEF u
<1>9. After(M, u)
  BY <1>8 DEF After, Both, Untold
<1> QED BY <1>8, <1>9, ClearFacts DEF u

\* Validation changes verdicts only.
SameObjects(t, u) ==
  \A k \in Object : /\ t[k].InWas = u[k].InWas /\ t[k].changed = u[k].changed
                    /\ t[k].val = u[k].val

LEMMA SameObjectsKeep ==
  ASSUME NEW t, NEW u, SameObjects(t, u)
  PROVE  /\ Regular(t) => Regular(u)
         /\ Untold(t) => Untold(u)
         /\ \A w : Matches(t, w) => Matches(u, w)
<1>1. App \subseteq Object /\ \A a \in App : a[1] \in Object
  BY AppsAreObjects DEF Object
<1>2. Regular(t) => Regular(u)
  BY <1>1 DEF SameObjects, Regular, Present
<1>3. Untold(t) => Untold(u)
  BY DEF SameObjects, Untold
<1>4. \A w : Matches(t, w) => Matches(u, w)
  BY DEF SameObjects, Matches
<1> QED BY <1>2, <1>3, <1>4

LEMMA SelfValidationKeeps ==
  ASSUME NEW t \in Tables
  PROVE  SameObjects(t, PerformSelfValidation(t))
<1> SUFFICES ASSUME NEW k \in Object, NEW o, o = PerformSelfValidation(t)[k]
             PROVE  t[k].InWas = o.InWas /\ t[k].changed = o.changed /\ t[k].val = o.val
  BY DEF SameObjects
<1>1. t[k] \in DataObject
  BY DEF Tables
<1>2. o \in {t[k], [t[k] EXCEPT !.SelfValid = FALSE]}
  BY DEF PerformSelfValidation
<1> QED BY <1>1, <1>2 DEF DataObject

LEMMA InvalidateKeeps ==
  ASSUME NEW t \in Tables, NEW S
  PROVE  /\ SameObjects(t, Invalidate(t, S))
         /\ \A k \in Object : Will(Invalidate(t, S)[k]) <=> Will(t[k]) /\ k \notin S
<1> SUFFICES ASSUME NEW k \in Object, NEW o, o = Invalidate(t, S)[k]
             PROVE  /\ t[k].InWas = o.InWas /\ t[k].changed = o.changed /\ t[k].val = o.val
                    /\ Will(o) <=> Will(t[k]) /\ k \notin S
  BY DEF SameObjects
<1>1. t[k] \in DataObject
  BY DEF Tables
<1>2. o = IF k \in S THEN [t[k] EXCEPT !.CrossValid = FALSE] ELSE t[k]
  BY DEF Invalidate
<1>3. CASE k \in S
  <2>1. /\ t[k].InWas = o.InWas /\ t[k].changed = o.changed /\ t[k].val = o.val
        /\ o.CrossValid = FALSE
    BY <1>1, <1>2, <1>3 DEF DataObject
  <2>2. ~Will(o)
    BY <2>1 DEF Will, QueryWillWasKnowAboutObject
  <2> QED BY <1>3, <2>1, <2>2
<1>4. CASE k \notin S
  BY <1>2, <1>4
<1> QED BY <1>3, <1>4

\* An application that passes has its pool and its site.
LEMMA CrossValidationFacts ==
  ASSUME NEW t \in Tables
  PROVE  Validated(CrossValidateDataObjects(t)) /\ SameObjects(t, CrossValidateDataObjects(t))
<1> DEFINE t1 == FirstCross(t)
           t2 == SecondCross(t1)
           t3 == ThirdCross(t2)
           S1 == {a \in KnownOf(t, App) : t[a].val \notin KnownOf(t, Pool)}
           S2 == {s \in KnownOf(t1, Site) : ~SiteStands(t1, s)}
           S3 == {a \in KnownOf(t2, App) : a[1] \notin KnownOf(t2, Site)}
<1>0. t1 \in Tables /\ t2 \in Tables /\ CrossValidateDataObjects(t) = t3
  BY CrossValidationType, CrossSteps
<1>1. SameObjects(t, t1) /\ \A k \in Object : Will(t1[k]) <=> Will(t[k]) /\ k \notin S1
  BY InvalidateKeeps DEF FirstCross
<1>2. S2 \subseteq Site /\ S3 \subseteq App /\ S1 \subseteq App
  BY DEF KnownOf
<1>s1. \A a \in App : a \in S1 <=> Will(t[a]) /\ ~(t[a].val \in Pool /\ Will(t[t[a].val]))
  BY DEF KnownOf, Will
<1>s3. \A a \in App : a \in S3 <=> Will(t2[a]) /\ ~(a[1] \in Site /\ Will(t2[a[1]]))
  BY DEF KnownOf, Will
<1> HIDE DEF S1, t1
<1>3. SameObjects(t1, t2) /\ \A k \in Object : Will(t2[k]) <=> Will(t1[k]) /\ k \notin S2
  BY <1>0, InvalidateKeeps DEF SecondCross
<1> HIDE DEF S2, t2
<1>4. SameObjects(t2, t3) /\ \A k \in Object : Will(t3[k]) <=> Will(t2[k]) /\ k \notin S3
  BY <1>0, InvalidateKeeps DEF ThirdCross
<1> HIDE DEF S3, t3
<1>5. SameObjects(t, t3)
  BY <1>1, <1>3, <1>4 DEF SameObjects
<1>6. ASSUME NEW a \in App, Will(t3[a])
      PROVE  Will(t3[a[1]]) /\ t3[a].val \in Pool /\ Will(t3[t3[a].val])
  <2>1. a \in Object /\ a[1] \in Site /\ a[1] \in Object
    BY AppsAreObjects, KindFacts
  <2>2. Will(t2[a]) /\ a \notin S3
    BY <1>4, <1>6, <2>1
  <2>3. Will(t2[a[1]])
    BY <1>s3, <2>1, <2>2
  <2>4. a[1] \notin S3
    BY <1>2, <2>1, KindFacts
  <2>5. Will(t1[a])
    BY <1>3, <2>1, <2>2
  <2>6. Will(t[a]) /\ a \notin S1
    BY <1>1, <2>1, <2>5
  <2>7. t[a].val \in Pool /\ Will(t[t[a].val])
    BY <1>s1, <2>6
  <2>8. t3[a].val = t[a].val
    BY <1>5, <2>1 DEF SameObjects
  <2>9. PICK p : p = t[a].val
    OBVIOUS
  <2>10. p \in Object /\ p \notin S1 /\ p \notin S2 /\ p \notin S3
    BY <1>2, <2>7, <2>9, KindFacts
  <2>11. Will(t3[p])
    BY <1>1, <1>3, <1>4, <2>7, <2>9, <2>10
  <2> QED BY <1>4, <2>1, <2>3, <2>4, <2>7, <2>8, <2>9, <2>11
<1> QED BY <1>0, <1>5, <1>6 DEF Validated

-----------------------------------------------------------------------------
(***************************************************************************)
(* What is read for a change: of an object WAS does not know, something    *)
(* that counts as new.                                                     *)
(***************************************************************************)
TempGood(t, temp) ==
  \A k \in Object : ~t[k].InWas => ~temp[k].InWas /\ temp[k].changed
Fresh(t) == \A k \in Object : ~t[k].InWas => t[k].changed
GoodTemps(t) == {temp \in Tables : TempGood(t, temp)}

LEMMA ReadObjectFresh ==
  ASSUME NEW m, NEW k
  PROVE  ~ReadObject(m, k).InWas /\ ReadObject(m, k).changed
  BY DEF ReadObject, NewObject

LEMMA ReadAllGood ==
  ASSUME NEW t, NEW m \in Metabases, NEW kind \in Kinds, NEW temp \in Tables, TempGood(t, temp)
  PROVE  TempGood(t, ReadAll(m, kind, temp))
<1> SUFFICES ASSUME NEW k \in Object, ~t[k].InWas
             PROVE  ~ReadAll(m, kind, temp)[k].InWas /\ ReadAll(m, kind, temp)[k].changed
  BY DEF TempGood
<1>1. ReadAll(m, kind, temp)[k] \in {temp[k], ReadObject(m, k)}
  BY DEF ReadAll
<1>2. ~temp[k].InWas /\ temp[k].changed
  BY DEF TempGood
<1> QED BY <1>1, <1>2, ReadObjectFresh

LEMMA ReadPoolOrSiteGood ==
  ASSUME NEW t, NEW m \in Metabases, NEW temp \in Tables, TempGood(t, temp),
         NEW e \in Element, e.key \in Object
  PROVE  TempGood(t, ReadPoolOrSite(m, temp, e))
<1> DEFINE deleted == "DELETE" \in e.type
           cmd == "SET" \in e.type /\ e.cmd
           base == IF deleted THEN NewObject(Empty, 0) ELSE ReadObject(m, e.key)
           new == [base EXCEPT !.DeleteWhenDone = deleted, !.cmdChanged = cmd]
<1>1. base \in DataObject
  <2>1. Empty \in Value
    BY DEF Value
  <2> QED BY <2>1, ReadObjectType, NewObjectType
<1>2. ~base.InWas /\ base.changed
  BY ReadObjectFresh DEF NewObject
<1>3. ReadPoolOrSite(m, temp, e) \in {temp, [temp EXCEPT ![e.key] = new]}
  BY Zenon DEF ReadPoolOrSite
<1>4. ~new.InWas /\ new.changed
  <2> HIDE DEF base, deleted, cmd
  <2> QED BY <1>1, <1>2 DEF DataObject
<1> HIDE DEF new
<1>5. TempGood(t, [temp EXCEPT ![e.key] = new])
  BY <1>4 DEF TempGood, Tables
<1> QED BY <1>3, <1>5

LEMMA DeleteThisURLGood ==
  ASSUME NEW t \in Tables, Fresh(t), NEW temp \in Tables, TempGood(t, temp), NEW doomed
  PROVE  TempGood(t, DeleteThisURLFromTable(t, temp, doomed))
<1> SUFFICES ASSUME NEW k \in Object, ~t[k].InWas, NEW o,
                    o = DeleteThisURLFromTable(t, temp, doomed)[k]
             PROVE  ~o.InWas /\ o.changed
  BY DEF TempGood
<1>1. t[k] \in DataObject /\ temp[k] \in DataObject
  BY DEF Tables
<1>2. ~t[k].InWas /\ t[k].changed /\ ~temp[k].InWas /\ temp[k].changed
  BY DEF Fresh, TempGood
<1>3. PICK x \in {t[k], temp[k]} : o \in {x, [x EXCEPT !.DeleteWhenDone = TRUE]}
  BY Zenon DEF DeleteThisURLFromTable
<1>4. x \in DataObject /\ ~x.InWas /\ x.changed
  BY <1>1, <1>2
<1> QED BY <1>3, <1>4 DEF DataObject

LEMMA ReadApplicationGood ==
  ASSUME NEW t \in Tables, Fresh(t), NEW m \in Metabases, NEW temp \in Tables, TempGood(t, temp),
         NEW e \in Element, e.key \in Object
  PROVE  TempGood(t, ReadApplication(m, t, temp, e))
<1>1. TempGood(t, DeleteThisURLFromTable(t, temp, DeleteSubApplications(e)))
  BY DeleteThisURLGood
<1>2. TempGood(t, [temp EXCEPT ![e.key] = ReadObject(m, e.key)])
  BY ReadObjectFresh DEF TempGood, Tables
<1>3. ReadApplication(m, t, temp, e) \in
        {temp, DeleteThisURLFromTable(t, temp, DeleteSubApplications(e)),
         [temp EXCEPT ![e.key] = ReadObject(m, e.key)]}
  BY Zenon DEF ReadApplication
<1> QED BY <1>1, <1>2, <1>3

LEMMA ReadElementGood ==
  ASSUME NEW t \in Tables, Fresh(t), NEW m \in Metabases, NEW kind \in Kinds,
         NEW temp \in GoodTemps(t), NEW e \in Element
  PROVE  ReadElement(m, t, kind, temp, e) \in GoodTemps(t)
<1>0. temp \in Tables /\ TempGood(t, temp) /\ ReadElement(m, t, kind, temp, e) \in Tables
  BY ReadElementType DEF GoodTemps
<1>1. CASE ~Concerns(e, kind)
  BY <1>0, <1>1 DEF ReadElement
<1>2. CASE Concerns(e, kind)
  <2>1. e.key \in Object
    BY <1>2, KindOfObjects DEF Concerns, Object
  <2>2. TempGood(t, ReadPoolOrSite(m, temp, e)) /\ TempGood(t, ReadApplication(m, t, temp, e))
    BY <1>0, <2>1, ReadPoolOrSiteGood, ReadApplicationGood
  <2>3. ReadElement(m, t, kind, temp, e) \in
          {ReadPoolOrSite(m, temp, e), ReadApplication(m, t, temp, e)}
    BY <1>2 DEF ReadElement
  <2> QED BY <1>0, <2>2, <2>3 DEF GoodTemps
<1> QED BY <1>1, <1>2

LEMMA ReadNotificationGood ==
  ASSUME NEW t \in Tables, Fresh(t), NEW m \in Metabases, NEW kind \in Kinds,
         NEW temp \in GoodTemps(t), NEW els \in Seq(Element)
  PROVE  TempGood(t, ReadFromMetabaseChangeNotification(m, t, kind, temp, els))
<1> DEFINE n == Len(els)
<1>0. n \in Nat /\ (\A i \in 1..n : els[i] \in Element) /\ temp \in Tables
  BY DEF GoodTemps
<1>1. PICK read \in [0..n -> Tables] :
        /\ read[0] = temp
        /\ \A i \in 1..n : read[i] = ReadElement(m, t, kind, read[i - 1], els[i])
        /\ ReadElements(m, t, kind, temp, els) = read[n]
  BY <1>0, ReadElementsSteps
<1> HIDE DEF n
<1> DEFINE S == {i \in 0..n : read[i] \in GoodTemps(t)}
<1>2. 0 \in S
  BY <1>0, <1>1
<1>3. ASSUME NEW i \in 1..n, i - 1 \in S
      PROVE  i \in S
  <2>1. read[i - 1] \in GoodTemps(t) /\ els[i] \in Element /\ i \in 0..n
    BY <1>0, <1>3
  <2>2. ReadElement(m, t, kind, read[i - 1], els[i]) \in GoodTemps(t)
    BY <2>1, ReadElementGood
  <2> QED BY <1>1, <2>1, <2>2
<1> HIDE DEF S
<1>4. 0..n \subseteq S
  BY <1>0, <1>2, <1>3, UpTo
<1>5. read[n] \in GoodTemps(t)
  BY <1>0, <1>4 DEF S
<1>6. ReadElements(m, t, kind, temp, els) \in Tables
      /\ TempGood(t, ReadElements(m, t, kind, temp, els))
  BY <1>1, <1>5 DEF GoodTemps
<1> QED BY <1>6, ReadAllGood DEF ReadFromMetabaseChangeNotification

LEMMA DeclareDeletionsGood ==
  ASSUME NEW t \in Tables, Fresh(t), NEW temp \in Tables, TempGood(t, temp)
  PROVE  TempGood(t, DeclareDeletions(t, temp))
<1> SUFFICES ASSUME NEW k \in Object, ~t[k].InWas, NEW o, o = DeclareDeletions(t, temp)[k]
             PROVE  ~o.InWas /\ o.changed
  BY DEF TempGood
<1>1. t[k] \in DataObject
  BY DEF Tables
<1>2. ~t[k].InWas /\ t[k].changed /\ ~temp[k].InWas /\ temp[k].changed
  BY DEF Fresh, TempGood
<1>3. o \in {temp[k], [t[k] EXCEPT !.DeleteWhenDone = TRUE]}
  BY DEF DeclareDeletions
<1> QED BY <1>1, <1>2, <1>3 DEF DataObject

LEMMA EmptyTableGood == \A t : TempGood(t, EmptyTable)
  BY NoObjectFacts DEF TempGood, EmptyTable

\* Merging leaves what WAS knows alone.
LEMMA MergeFacts ==
  ASSUME NEW t \in Tables, Regular(t), NEW temp \in Tables, TempGood(t, temp)
  PROVE  /\ Regular(MergeTable(t, temp))
         /\ \A k \in Object : MergeTable(t, temp)[k].InWas = t[k].InWas
<1> DEFINE u == MergeTable(t, temp)
<1>1. ASSUME NEW k \in Object
      PROVE  /\ u[k].InWas = t[k].InWas /\ (~t[k].InWas => u[k].changed)
             /\ (t[k].InWas => Present(u[k]))
  <2> DEFINE c == temp[k].changed /\ ~(t[k].InWas /\ temp[k].val = t[k].val)
             m == [temp[k] EXCEPT !.InWas = t[k].InWas, !.changed = c]
  <2>1. t[k] \in DataObject /\ temp[k] \in DataObject /\ c \in BOOLEAN
    BY DEF Tables, DataObject
  <2>2. u[k] = IF ~Present(temp[k]) THEN t[k]
               ELSE IF ~Present(t[k]) THEN IF temp[k].DeleteWhenDone THEN t[k] ELSE temp[k]
               ELSE m
    BY DEF MergeTable
  <2>3. /\ t[k].InWas \in BOOLEAN /\ temp[k].InWas \in BOOLEAN
        /\ ~t[k].InWas => t[k].changed /\ ~temp[k].InWas /\ temp[k].changed
        /\ t[k].InWas => Present(t[k])
    BY <2>1 DEF Regular, TempGood, DataObject
  <2>4. c <=> temp[k].changed /\ ~(t[k].InWas /\ temp[k].val = t[k].val)
    OBVIOUS
  <2> HIDE DEF c
  <2>5. m.InWas = t[k].InWas /\ m.changed = c /\ m.val = temp[k].val
    BY <2>1 DEF DataObject
  <2> HIDE DEF m, u
  <2>6. CASE u[k] = t[k]
    BY <2>3, <2>6
  <2>7. CASE u[k] = temp[k] /\ ~Present(t[k])
    <3>1. ~t[k].InWas /\ ~temp[k].InWas /\ temp[k].changed
      BY <2>3, <2>7
    <3>2. t[k].InWas = FALSE /\ temp[k].InWas = FALSE
      BY <2>3, <3>1
    <3> QED BY <2>7, <3>1, <3>2
  <2>8. CASE u[k] = m /\ Present(temp[k])
    <3>1. u[k].InWas = t[k].InWas
      BY <2>5, <2>8
    <3>2. ~t[k].InWas => u[k].changed
      BY <2>3, <2>4, <2>5, <2>8
    <3>3. Present(u[k])
      BY <2>5, <2>8 DEF Present
    <3> QED BY <3>1, <3>2, <3>3
  <2> QED BY <2>2, <2>6, <2>7, <2>8
<1> HIDE DEF u
<1>2. App \subseteq Object /\ \A a \in App : a[1] \in Object
  BY AppsAreObjects DEF Object
<1>3. Regular(u)
  BY <1>1, <1>2 DEF Regular
<1> QED BY <1>1, <1>3 DEF u

-----------------------------------------------------------------------------
(***************************************************************************)
(* The flags of the config thread's tables, step by step.                  *)
(***************************************************************************)
Starting == main.pc \in {"wait", "readPools", "readSites", "readApps", "finish"}
\* Until Initialize is done the config thread has not begun and WAS knows nothing.
Beginning ==
  Starting =>
    /\ was = NothingInWas /\ Untold(table) /\ ct.temp = EmptyTable
    /\ \A i \in DOMAIN mq : mq[i].op # "change"
    /\ ct.pc \in {"listen", "blocked"}
    /\ ~cm.BlockEvent /\ ~cm.ProcessChanges /\ ~cm.ExitWorkLoop
\* Changes are processed no more when the config thread is told to end.
Ending ==
  /\ main.pc \in {"join", "done"} => ~cm.ProcessChanges
  /\ cm.ExitWorkLoop /\ main.pc # "flagged" => ~cm.ProcessChanges
Synced ==
  cm.ProcessChanges =>
    Regular(table) /\ TempGood(table, ct.temp) /\ Matches(table, Told(was, mq))
WasInv == Beginning /\ Ending /\ Synced

LEMMA MergedFacts ==
  ASSUME TypeOK, Regular(table), TempGood(table, ct.temp)
  PROVE  /\ Merged \in Tables /\ Regular(Merged) /\ Validated(Merged)
         /\ \A w : Matches(table, w) => Matches(Merged, w)
<1> DEFINE temp == IF ct.rehook THEN DeclareDeletions(table, ct.temp) ELSE ct.temp
           t1 == MergeTable(table, temp)
           t2 == PerformSelfValidation(t1)
<1>1. table \in Tables /\ ct.temp \in Tables /\ Fresh(table)
  BY TypeParts DEF Regular, Fresh
<1>2. temp \in Tables /\ TempGood(table, temp)
  BY <1>1, DeclareDeletionsType, DeclareDeletionsGood
<1>3. Merged = CrossValidateDataObjects(t2)
  BY DEF Merged, MergeAndSelfValidateTables
<1> HIDE DEF temp
<1>4. t1 \in Tables /\ Regular(t1) /\ \A k \in Object : t1[k].InWas = table[k].InWas
  BY <1>1, <1>2, MergeTableType, MergeFacts
<1>5. \A w : Matches(table, w) => Matches(t1, w)
  BY <1>4 DEF Matches
<1> HIDE DEF t1
<1>6. t2 \in Tables /\ SameObjects(t1, t2)
  BY <1>4, SelfValidationType, SelfValidationKeeps
<1>7. Regular(t2) /\ \A w : Matches(table, w) => Matches(t2, w)
  BY <1>4, <1>5, <1>6, SameObjectsKeep
<1> HIDE DEF t2
<1>8. /\ Merged \in Tables /\ Validated(Merged) /\ SameObjects(t2, Merged)
  BY <1>3, <1>6, CrossValidationType, CrossValidationFacts
<1> QED BY <1>7, <1>8, SameObjectsKeep

\* An item that brings no change.
LEMMA ToldSame ==
  ASSUME NEW w \in WasTables, NEW items \in Seq(MainItems), NEW x \in MainItems,
         x.op # "change"
  PROVE  /\ Told(w, Append(items, x)) = Told(w, items)
         /\ (\A i \in DOMAIN items : items[i].op # "change")
              => \A i \in DOMAIN Append(items, x) : Append(items, x)[i].op # "change"
<1>1. Told(w, Append(items, x)) = ToldStep(x, Told(w, items))
  BY ToldAppend
<1>2. ToldStep(x, Told(w, items)) = Told(w, items)
  BY DEF ToldStep
<1> QED BY <1>1, <1>2

\* The same fields of the config manager, as far as the invariant looks at them.
SameFlags ==
  /\ cm'.ProcessChanges = cm.ProcessChanges /\ cm'.ExitWorkLoop = cm.ExitWorkLoop
  /\ cm'.BlockEvent = cm.BlockEvent

\* A step that touches neither the tables nor what WAS knows.
LEMMA WasKept ==
  ASSUME TypeOK, WasInv, SameFlags, UNCHANGED <<table, main, was>>,
         \/ mq' = mq
         \/ \E x \in MainItems : x.op # "change" /\ mq' = Append(mq, x),
         cm.ProcessChanges => TempGood(table, ct'.temp),
         Starting => ct'.temp = EmptyTable /\ ct'.pc \in {"listen", "blocked"}
  PROVE  WasInv'
<1>0. mq \in Seq(MainItems) /\ was \in WasTables
  BY TypeParts
<1>1. /\ Told(was, mq') = Told(was, mq)
      /\ (\A i \in DOMAIN mq : mq[i].op # "change") => \A i \in DOMAIN mq' : mq'[i].op # "change"
  BY <1>0, ToldSame
<1>2. Told(was, mq)' = Told(was, mq)
  BY <1>1
<1>3. Starting' <=> Starting
  BY DEF Starting
<1>4. Beginning'
  BY <1>1, <1>3 DEF WasInv, Beginning, SameFlags
<1>5. Ending'
  BY DEF WasInv, Ending, SameFlags
<1>6. Synced'
  <2>1. table' = table /\ cm'.ProcessChanges = cm.ProcessChanges
    BY DEF SameFlags
  <2> QED BY <1>2, <2>1 DEF WasInv, Synced
<1> QED BY <1>4, <1>5, <1>6 DEF WasInv

LEMMA OutsideWas ==
  ASSUME ConfigInv, WasInv,
         Administration \/ Crash \/ Restart \/ StartMBChangeItem \/ MonitorThread \/ StopService
  PROVE  WasInv'
<1>0. TypeOK /\ cm \in Fields
  BY ConfigTypeParts DEF ConfigInv
<1>1. /\ cm.ProcessChanges => TempGood(table, ct.temp)
      /\ Starting => ct.temp = EmptyTable /\ ct.pc \in {"listen", "blocked"}
  BY DEF WasInv, Synced, Beginning
<1>2. CASE UNCHANGED <<cm, ct, mq, table, main, was>>
  BY <1>0, <1>1, <1>2, WasKept DEF SameFlags
<1>3. CASE RecordInetinfoCrash
  <2>1. /\ cm' = [cm EXCEPT !.InCrashedState = @ + 1, !.ThreadProcessingDisabled = @ + 1]
        /\ UNCHANGED <<mq, ct, main, table, was>>
    BY <1>3 DEF RecordInetinfoCrash, MonitorUnchanged
  <2>2. SameFlags
    BY <1>0, <2>1 DEF SameFlags, Fields
  <2> QED BY <1>0, <1>1, <2>1, <2>2, WasKept
<1>4. CASE MonitorActionShutdown \/ StopService
  <2>1. RequestStopService /\ UNCHANGED <<ct, main, table, was>>
    BY <1>4 DEF MonitorActionShutdown, StopService, MonitorUnchanged, MainUnchanged
  <2>2. cm' = [cm EXCEPT !.stopRequested = TRUE] /\ mq' \in {mq, Append(mq, StopItem)}
    BY <2>1 DEF RequestStopService
  <2>3. StopItem \in MainItems /\ StopItem.op # "change"
    BY ItemTypes DEF StopItem
  <2>4. SameFlags
    BY <1>0, <2>2 DEF SameFlags, Fields
  <2> QED BY <1>0, <1>1, <2>1, <2>2, <2>3, <2>4, WasKept
<1>5. CASE QueueRecoveryFromInetinfoCrash
  <2>1. mq' = Append(mq, Recover) /\ UNCHANGED <<cm, ct, main, table, was>>
    BY <1>5 DEF QueueRecoveryFromInetinfoCrash, MonitorUnchanged
  <2>2. Recover \in MainItems /\ Recover.op # "change"
    BY ItemTypes DEF Recover
  <2>3. SameFlags
    BY <2>1 DEF SameFlags
  <2> QED BY <1>0, <1>1, <2>1, <2>2, <2>3, WasKept
<1>6. Administration => UNCHANGED <<cm, ct, mq, table, main, was>>
  BY DEF Administration, SetData, WriteCommand, AddObject, DeleteObject, DeleteData, Change
<1>7. Crash \/ Restart \/ StartMBChangeItem \/ MonitorActionRehook \/ RecordInetinfoMonitorStopped
        => UNCHANGED <<cm, ct, mq, table, main, was>>
  BY DEF Crash, Restart, StartMBChangeItem, MonitorActionRehook, RecordInetinfoMonitorStopped,
     MonitorUnchanged
<1> QED BY <1>2, <1>3, <1>4, <1>5, <1>6, <1>7 DEF MonitorThread

\* The config thread reads a kind of objects.
LEMMA ReadKindWas ==
  ASSUME TypeOK, WasInv, NEW pc \in {"readPools", "readSites", "readApps"}, NEW kind \in Kinds,
         NEW next, ReadKind(pc, kind, next)
  PROVE  WasInv'
<1>0. /\ cm \in Fields /\ ct \in Threads /\ mb \in Metabases /\ table \in Tables
      /\ ct.temp \in Tables /\ ct.els \in Seq(Element)
  BY ConfigTypeParts, TypeParts
<1>1. ct.pc = pc /\ UNCHANGED <<cm, mq, table, main, was>>
  BY DEF ReadKind, ConfigUnchanged
<1>2. ~Starting
  BY <1>1 DEF WasInv, Beginning
<1> DEFINE t == IF ct.rehook THEN ReadAll(mb, kind, ct.temp)
                ELSE ReadFromMetabaseChangeNotification(mb, table, kind, ct.temp, ct.els)
<1>3. ct' \in {NothingToDo, [ct EXCEPT !.pc = next, !.temp = t]}
  BY DEF ReadKind
<1>4. ASSUME cm.ProcessChanges PROVE TempGood(table, t)
  <2>1. TempGood(table, ct.temp) /\ Fresh(table) /\ ct.temp \in GoodTemps(table)
    BY <1>0, <1>4 DEF WasInv, Synced, Regular, Fresh, GoodTemps
  <2> QED BY <1>0, <2>1, ReadAllGood, ReadNotificationGood
<1> HIDE DEF t
<1>n. NothingToDo.temp = EmptyTable
  BY DEF NothingToDo
<1>e. [ct EXCEPT !.pc = next, !.temp = t].temp = t
  BY <1>0 DEF Threads
<1>5. ct'.temp \in {EmptyTable, t}
  BY <1>3, <1>n, <1>e
<1>6. SameFlags
  BY <1>1 DEF SameFlags
<1> QED BY <1>1, <1>2, <1>4, <1>5, <1>6, EmptyTableGood, WasKept

LEMMA ConfigThreadWas ==
  ASSUME ConfigInv, WasInv, ConfigThread
  PROVE  WasInv'
<1>0. /\ TypeOK /\ cm \in Fields /\ ct \in Threads /\ mq \in Seq(MainItems) /\ was \in WasTables
      /\ table \in Tables
  BY ConfigTypeParts, TypeParts DEF ConfigInv
<1>t. /\ cm.ProcessChanges => TempGood(table, ct.temp)
      /\ Starting => ct.temp = EmptyTable /\ ct.pc \in {"listen", "blocked"} /\ ~cm.BlockEvent
  BY DEF WasInv, Synced, Beginning
<1>n. NothingToDo.temp = EmptyTable
  BY DEF NothingToDo
<1>p. \A els, b : Processing(els, b).temp = EmptyTable
  BY <1>0 DEF Processing, Threads
<1>l. StartListening => SameFlags
  BY <1>0 DEF StartListening, SameFlags, Fields
<1>1. CASE StartListeningForChangeNotifications
  <2>1. /\ StartListening /\ ct' = [ct EXCEPT !.pc = "blocked"]
        /\ UNCHANGED <<mq, table, main, was>>
    BY <1>1 DEF StartListeningForChangeNotifications, ConfigUnchanged
  <2>2. ct'.temp = ct.temp /\ ct'.pc = "blocked"
    BY <1>0, <2>1 DEF Threads
  <2> QED BY <1>0, <1>t, <1>l, <2>1, <2>2, WasKept
<1>2. CASE Unblock \/ CheckExitWorkLoop \/ CreateTempDataObjectTables \/ DropAllUninterestingMBChanges
  <2>1. ~Starting
    BY <1>2, <1>t DEF Unblock, CheckExitWorkLoop, CreateTempDataObjectTables,
       DropAllUninterestingMBChanges
  <2>2. UNCHANGED <<mq, table, main, was>> /\ (cm' = cm \/ \E h : cm' = [cm EXCEPT !.hooked = h])
    BY <1>2 DEF Unblock, CheckExitWorkLoop, CreateTempDataObjectTables,
       DropAllUninterestingMBChanges, ConfigUnchanged
  <2>3. SameFlags
    BY <1>0, <2>2 DEF SameFlags, Fields
  <2>4. ct'.temp = ct.temp
    BY <1>0, <1>2 DEF Unblock, CheckExitWorkLoop, CreateTempDataObjectTables,
       DropAllUninterestingMBChanges, Threads
  <2> QED BY <1>0, <1>t, <2>1, <2>2, <2>3, <2>4, WasKept
<1>3. CASE ProcessMetabaseChangeOnConfigThread \/ ProcessMetabaseCrashOnConfigThread
             \/ ExitChangeThreadItem
  <2>1. ct.pc = "wait" /\ UNCHANGED <<mq, table, main, was>>
    BY <1>3 DEF ProcessMetabaseChangeOnConfigThread, ProcessMetabaseCrashOnConfigThread,
       ExitChangeThreadItem, Dequeue, ConfigUnchanged
  <2>2. ~Starting
    BY <1>t, <2>1
  <2>3. ct'.temp = EmptyTable
    <3>1. ct' \in {NothingToDo, Processing(Head(queue).els, FALSE), Processing(<<>>, TRUE)}
      BY <1>3 DEF ProcessMetabaseChangeOnConfigThread,
         ProcessMetabaseCrashOnConfigThread, ExitChangeThreadItem
    <3>2. /\ Processing(Head(queue).els, FALSE).temp = EmptyTable
          /\ Processing(<<>>, TRUE).temp = EmptyTable
      BY <1>p, Zenon
    <3> QED BY <1>n, <3>1, <3>2
  <2>4. SameFlags
    <3>1. cm' = cm \/ StartListening
      BY <1>3 DEF ProcessMetabaseChangeOnConfigThread, ProcessMetabaseCrashOnConfigThread,
         ExitChangeThreadItem
    <3> QED BY <1>l, <3>1 DEF SameFlags
  <2> QED BY <1>0, <2>1, <2>2, <2>3, <2>4, EmptyTableGood, WasKept
<1>4. CASE ReadPools \/ ReadSites \/ ReadApps
  <2>1. Pool \in Kinds /\ Site \in Kinds /\ App \in Kinds
    BY DEF Kinds
  <2> QED BY <1>0, <1>4, <2>1, ReadKindWas DEF ReadPools, ReadSites, ReadApps
\* The changes are sent, or sending them fails.
<1>5. ASSUME ct.pc = "finish", ct' = NothingToDo, UNCHANGED <<main, was>>, SameFlags,
             cm.ProcessChanges => Regular(table') /\ Matches(table', Told(was, mq'))
      PROVE  WasInv'
  <2>1. ~Starting /\ ~Starting'
    BY <1>5, <1>t DEF Starting
  <2>2. Beginning'
    BY <2>1 DEF Beginning
  <2>3. Ending'
    BY <1>5 DEF WasInv, Ending, SameFlags
  <2>4. TempGood(table', ct'.temp)
    BY <1>5, <1>n, EmptyTableGood
  <2>5. Told(was, mq)' = Told(was, mq')
    BY <1>5
  <2>6. Synced'
    BY <1>5, <2>4, <2>5 DEF Synced, SameFlags
  <2> QED BY <2>2, <2>3, <2>6 DEF WasInv
<1>6. cm.ProcessChanges => /\ Merged \in Tables /\ Regular(Merged) /\ Validated(Merged)
                           /\ Matches(Merged, Told(was, mq)) /\ Told(was, mq) \in WasTables
  BY <1>0, MergedFacts, ToldType DEF WasInv, Synced
<1>7. CASE FinishChangeProcessing
  <2> DEFINE item == ConfigChange(CopyInteresting(Merged))
  <2>1. /\ ct.pc = "finish" /\ mq' = Append(mq, item) /\ table' = ClearDeletedObjects(Merged)
        /\ cm' = ProcessingAllowed /\ ct' = NothingToDo /\ UNCHANGED <<main, was>>
    BY <1>7 DEF FinishChangeProcessing, ConfigUnchanged
  <2>2. SameFlags
    BY <1>0, <2>1 DEF SameFlags, ProcessingAllowed, Fields
  <2>3. ASSUME cm.ProcessChanges
        PROVE  Regular(table') /\ Matches(table', Told(was, mq'))
    <3>1. item \in MainItems /\ item.op = "change" /\ item.rows = CopyInteresting(Merged)
      BY <1>6, <2>3, ClearType, ItemTypes DEF ConfigChange
    <3> HIDE DEF item
    <3>2. Told(was, mq') = ToldStep(item, Told(was, mq))
      BY <1>0, <2>1, <3>1, ToldAppend
    <3>3. Told(was, mq') = ProcessChanges(CopyInteresting(Merged), Told(was, mq))
      BY <3>1, <3>2 DEF ToldStep
    <3> QED BY <1>6, <2>1, <2>3, <3>3, SentFacts
  <2> QED BY <1>5, <2>1, <2>2, <2>3
<1>8. CASE SendMainThreadChangesFails
  <2>1. /\ ct.pc = "finish" /\ table' = Merged /\ cm' = [cm EXCEPT !.notSent = TRUE]
        /\ ct' = NothingToDo /\ UNCHANGED <<mq, main, was>>
    BY <1>8 DEF SendMainThreadChangesFails, ConfigUnchanged
  <2>2. SameFlags
    BY <1>0, <2>1 DEF SameFlags, Fields
  <2> QED BY <1>5, <1>6, <2>1, <2>2
<1> QED BY <1>1, <1>2, <1>3, <1>4, <1>7, <1>8 DEF ConfigThread

\* The main thread.
LEMMA MainThreadWas ==
  ASSUME ConfigInv, WasInv, MainThread
  PROVE  WasInv'
<1>0. /\ TypeOK /\ cm \in Fields /\ main \in Mains /\ mq \in Seq(MainItems) /\ was \in WasTables
      /\ table \in Tables /\ mb \in Metabases
  BY ConfigTypeParts, TypeParts DEF ConfigInv, TypeOK, Mains
<1>u. MainUnchanged => ct' = ct
  BY DEF MainUnchanged
\* A failure of Initialize, and what is not part of it.
<1>s. ASSUME ~Starting', ct' = ct, table' = table,
             cm'.ProcessChanges => cm.ProcessChanges /\ Told(was', mq') = Told(was, mq),
             Ending'
      PROVE  WasInv'
  <2>1. Beginning'
    BY <1>s DEF Beginning
  <2>2. Told(was, mq)' = Told(was', mq')
    OBVIOUS
  <2>3. Synced'
    BY <1>s, <2>2 DEF WasInv, Synced
  <2> QED BY <1>s, <2>1, <2>3 DEF WasInv
<1>f. ASSUME Starting, main' = [main EXCEPT !.pc = "terminate"], cm' = InitializeFails, ct' = ct,
             table' = table
      PROVE  WasInv'
  <2>1. ~cm'.ProcessChanges /\ ~Starting'
    BY <1>0, <1>f DEF WasInv, Beginning, Starting, InitializeFails, Fields, Mains
  <2> QED BY <1>s, <1>f, <2>1 DEF Ending
<1>1. CASE LaunchChangeNotificationListener
  <2>1. /\ main.pc = "wait" /\ UNCHANGED <<mq, table, was>> /\ ct' = ct
        /\ \/ main' = [main EXCEPT !.pc = "readPools", !.abo = cm.abo] /\ cm' = cm
           \/ main' = [main EXCEPT !.pc = "terminate"] /\ cm' = InitializeFails
    BY <1>1, <1>u DEF LaunchChangeNotificationListener
  <2>2. Starting
    BY <2>1 DEF Starting
  <2>3. CASE main' = [main EXCEPT !.pc = "readPools", !.abo = cm.abo] /\ cm' = cm
    <3>1. main'.pc = "readPools"
      BY <1>0, <2>3 DEF Mains
    <3>2. Beginning'
      BY <2>1, <2>2, <2>3 DEF WasInv, Beginning
    <3>3. ~cm'.ProcessChanges
      BY <2>2, <2>3 DEF WasInv, Beginning
    <3> QED BY <3>2, <3>3 DEF WasInv, Ending, Synced
  <2> QED BY <1>f, <2>1, <2>2, <2>3
<1>2. CASE InitReadPools \/ InitReadSites \/ InitReadApps
  <2>1. PICK kind \in Kinds, next \in {"readSites", "readApps", "finish"} :
          /\ Starting /\ UNCHANGED <<mq, was>> /\ ct' = ct
          /\ \/ /\ main' = [main EXCEPT !.pc = next] /\ cm' = cm
                /\ table' = PerformSelfValidation(ReadAll(mb, kind, table))
             \/ /\ main' = [main EXCEPT !.pc = "terminate"] /\ cm' = InitializeFails
                /\ table' = table
    <3>1. Pool \in Kinds /\ Site \in Kinds /\ App \in Kinds
      BY DEF Kinds
    <3> QED BY <1>2, <1>u, <3>1 DEF InitReadPools, InitReadSites, InitReadApps,
            ReadDataFromMetabase, Starting
  <2>2. CASE /\ main' = [main EXCEPT !.pc = next] /\ cm' = cm
             /\ table' = PerformSelfValidation(ReadAll(mb, kind, table))
    <3>1. main'.pc = next
      BY <1>0, <2>2 DEF Mains
    <3>2. Untold(table)
      BY <2>1 DEF WasInv, Beginning
    <3>3. TempGood(EmptyTable, table)
      BY <3>2 DEF TempGood, Untold
    <3>4. ReadAll(mb, kind, table) \in Tables /\ TempGood(EmptyTable, ReadAll(mb, kind, table))
      BY <1>0, <3>3, ReadAllType, ReadAllGood
    <3>5. Untold(ReadAll(mb, kind, table))
      BY <3>4, NoObjectFacts DEF TempGood, Untold, EmptyTable
    <3>6. Untold(table')
      BY <2>2, <3>4, <3>5, SelfValidationKeeps, SameObjectsKeep
    <3>7. Beginning'
      BY <2>1, <2>2, <3>6 DEF WasInv, Beginning, Untold
    <3>8. ~cm'.ProcessChanges
      BY <2>1, <2>2 DEF WasInv, Beginning
    <3> QED BY <3>7, <3>8 DEF WasInv, Ending, Synced
  <2> QED BY <1>f, <2>1, <2>2
<1>3. CASE InitializeFinishes
  <2> DEFINE valid == CrossValidateDataObjects(table)
  <2>1. /\ main.pc = "finish" /\ main' = [main EXCEPT !.pc = "run"]
        /\ was' = CreateWASObjects(valid, was) /\ table' = ClearDeletedObjects(valid)
        /\ cm' = [cm EXCEPT !.ProcessChanges = TRUE, !.BlockEvent = TRUE]
        /\ mq' = mq /\ ct' = ct
    BY <1>3, <1>u DEF InitializeFinishes
  <2>2. /\ was = NothingInWas /\ Untold(table) /\ ct.temp = EmptyTable /\ ~cm.ExitWorkLoop
        /\ \A i \in DOMAIN mq : mq[i].op # "change"
    BY <2>1 DEF WasInv, Beginning, Starting
  <2>3. valid \in Tables /\ Validated(valid) /\ Untold(valid)
    BY <1>0, <2>2, CrossValidationType, CrossValidationFacts, SameObjectsKeep
  <2> HIDE DEF valid
  <2>4. Matches(table', was') /\ Regular(table')
    BY <2>1, <2>2, <2>3, CreatedFacts
  <2>5. was' \in WasTables
    BY <1>0, <2>1, <2>3, CreateWASObjectsType
  <2>6. Told(was', mq') = was'
    BY <1>0, <2>1, <2>2, <2>5, ToldNothing
  <2>7. Told(was, mq)' = was'
    BY <2>6
  <2>8. main'.pc = "run" /\ ~cm'.ExitWorkLoop
    BY <1>0, <2>1, <2>2 DEF Mains, Fields
  <2>9. Beginning' /\ Ending'
    BY <2>8 DEF Beginning, Starting, Ending
  <2>10. Synced'
    BY <2>1, <2>2, <2>4, <2>7, EmptyTableGood DEF Synced
  <2> QED BY <2>9, <2>10 DEF WasInv
\* An item of the main work queue.
<1>4. ASSUME NEW op, MainWorkItem(op)
      PROVE  /\ main.pc \in {"run", "stopping"} /\ ct' = ct /\ table' = table
             /\ mq # <<>> /\ mq' = Tail(mq) /\ Head(mq).op = op /\ Head(mq) \in MainItems
             /\ Told(was, mq) = Told(ToldStep(Head(mq), was), mq')
  BY <1>0, <1>4, <1>u, MainItemType, ToldTail DEF MainWorkItem
<1>5. CASE ProcessConfigChange
  <2>1. /\ MainWorkItem("change") /\ UNCHANGED <<cm, main>>
        /\ was' = IF cm.ProcessChanges THEN ProcessChanges(Head(mq).rows, was) ELSE was
    BY <1>5 DEF ProcessConfigChange
  <2>2. ~Starting'
    BY <1>4, <2>1 DEF Starting
  <2>3. cm.ProcessChanges => Told(was', mq') = Told(was, mq)
    BY <1>4, <2>1 DEF ToldStep
  <2>4. Ending'
    BY <2>1 DEF WasInv, Ending
  <2> QED BY <1>4, <1>s, <2>1, <2>2, <2>3, <2>4
<1>6. CASE RecoverFromInetinfoCrash
  <2>1. /\ MainWorkItem("recover") /\ was' = was
        /\ main' = main \/ main' = [main EXCEPT !.pc = "terminate"]
        /\ cm' = cm \/ cm' = [cm EXCEPT !.abo = inetinfo.life, !.InCrashedState = @ - 1,
                                        !.hooked = IF @ = cm.abo THEN 0 ELSE @]
    <3>1. /\ MainWorkItem("recover") /\ was' = was
          /\ main' = main \/ main' = [main EXCEPT !.pc = "terminate"]
      BY <1>6 DEF RecoverFromInetinfoCrash
    <3>2. cm' = cm \/ cm' = [cm EXCEPT !.abo = inetinfo.life, !.InCrashedState = @ - 1,
                                       !.hooked = IF @ = cm.abo THEN 0 ELSE @]
      BY <1>6 DEF RecoverFromInetinfoCrash
    <3> QED BY <3>1, <3>2
  <2>2. SameFlags
    BY <1>0, <2>1 DEF SameFlags, Fields
  <2>3. main.pc \in {"run", "stopping"} /\ main'.pc \in {"run", "stopping", "terminate"}
    BY <1>0, <1>4, <2>1 DEF Mains
  <2>4. ~Starting' /\ Ending'
    BY <2>2, <2>3 DEF Starting, WasInv, Ending, SameFlags
  <2>5. Told(was', mq') = Told(was, mq)
    BY <1>4, <2>1 DEF ToldStep
  <2> QED BY <1>4, <1>s, <2>1, <2>2, <2>4, <2>5 DEF SameFlags
<1>7. ASSUME NEW then \in {"stopping", "join"}, StopChangeProcessing(then),
             main.pc \in {"run", "stopping", "terminate"}
      PROVE  ~Starting' /\ Ending' /\ cm'.ProcessChanges = cm.ProcessChanges
  <2>1. CASE cm.ExitWorkLoop
    <3>1. main'.pc = then /\ cm' = cm /\ ~cm.ProcessChanges
      BY <1>0, <1>7, <2>1 DEF StopChangeProcessing, Mains, WasInv, Ending
    <3> QED BY <3>1 DEF Starting, Ending
  <2>2. CASE ~cm.ExitWorkLoop
    <3>1. main'.pc = "flagged" /\ cm'.ProcessChanges = cm.ProcessChanges
      BY <1>0, <1>7, <2>2 DEF StopChangeProcessing, Mains, Fields
    <3> QED BY <3>1 DEF Starting, Ending
  <2> QED BY <2>1, <2>2
<1>8. CASE StopServiceWorkItem
  <2>1. MainWorkItem("stop") /\ StopChangeProcessing("stopping") /\ was' = was
    BY <1>8 DEF StopServiceWorkItem
  <2>2. Told(was', mq') = Told(was, mq)
    BY <1>4, <2>1 DEF ToldStep
  <2>3. ~Starting' /\ Ending' /\ cm'.ProcessChanges = cm.ProcessChanges
    BY <1>4, <1>7, <2>1
  <2> QED BY <1>4, <1>s, <2>1, <2>2, <2>3
<1>9. CASE RequestShutdown
  <2>1. /\ main' = [main EXCEPT !.pc = main.next] /\ cm' = [cm EXCEPT !.ProcessChanges = FALSE]
        /\ table' = table /\ ct' = ct
    BY <1>9, <1>u DEF RequestShutdown
  <2>2. ~cm'.ProcessChanges /\ main'.pc \in {"stopping", "join"}
    BY <1>0, <2>1 DEF Fields, Mains
  <2>3. ~Starting' /\ Ending'
    BY <2>2 DEF Starting, Ending
  <2> QED BY <1>s, <2>1, <2>2, <2>3
<1>10. CASE ShutdownDone
  <2>1. /\ main.pc = "stopping" /\ main' = [main EXCEPT !.pc = "terminate"]
        /\ UNCHANGED <<cm, mq, table, was>> /\ ct' = ct
    BY <1>10, <1>u DEF ShutdownDone
  <2>2. main'.pc = "terminate"
    BY <1>0, <2>1 DEF Mains
  <2>3. ~Starting' /\ Ending'
    BY <2>1, <2>2 DEF Starting, WasInv, Ending
  <2> QED BY <1>s, <2>1, <2>3
<1>11. CASE BeginTerminate
  <2>1. /\ main.pc = "terminate" /\ StopChangeProcessing("join") /\ UNCHANGED <<mq, table, was>>
        /\ ct' = ct
    BY <1>11, <1>u DEF BeginTerminate
  <2>2. ~Starting' /\ Ending' /\ cm'.ProcessChanges = cm.ProcessChanges
    BY <1>7, <2>1
  <2> QED BY <1>s, <2>1, <2>2
<1>12. CASE Terminate
  <2>1. /\ main.pc = "join" /\ main' = [main EXCEPT !.pc = "done"]
        /\ UNCHANGED <<cm, table, was>> /\ ct' = ct
    BY <1>12, <1>u DEF Terminate
  <2>2. main'.pc = "done" /\ ~cm'.ProcessChanges
    BY <1>0, <2>1 DEF Mains, WasInv, Ending
  <2>3. ~Starting' /\ Ending'
    BY <2>2 DEF Starting, Ending
  <2> QED BY <1>s, <2>1, <2>2, <2>3
<1> QED BY <1>1, <1>2, <1>3, <1>5, <1>6, <1>8, <1>9, <1>10, <1>11, <1>12 DEF MainThread

\* The config thread's idea of what WAS knows (m_InWas of a DATA_OBJECT) is right once
\* WAS has worked off the changes on their way to it, for every metabase, any number of
\* changes and crashes, and whether or not sending a change may fail: no object is
\* created twice, and none is updated or deleted that WAS does not have.
THEOREM InWasSafety == Spec => []InWasExact
<1>1. Init => WasInv
  <2> SUFFICES ASSUME Init PROVE WasInv
    OBVIOUS
  <2>1. Untold(table)
    BY NoObjectFacts DEF Init, Untold, EmptyTable
  <2>2. Beginning
    BY <2>1 DEF Init, Beginning
  <2>3. Ending /\ Synced
    BY DEF Init, Ending, Synced
  <2> QED BY <2>2, <2>3 DEF WasInv
<1>2. ConfigInv /\ WasInv /\ [Next]_vars => WasInv'
  <2> SUFFICES ASSUME ConfigInv, WasInv, [Next]_vars PROVE WasInv'
    OBVIOUS
  <2>1. CASE UNCHANGED vars
    <3>1. UNCHANGED <<cm, ct, main, mq, table, was>>
      BY <2>1 DEF vars
    <3>2. Beginning' /\ Ending' /\ Synced'
      BY <3>1 DEF WasInv, Beginning, Starting, Ending, Synced
    <3> QED BY <3>2 DEF WasInv
  <2>2. CASE Next
    BY <2>2, OutsideWas, ConfigThreadWas, MainThreadWas DEF Next
  <2> QED BY <2>1, <2>2
<1>3. WasInv => InWasExact
  BY DEF WasInv, Synced, Matches, InWasExact, ToldWas
<1> QED BY <1>1, <1>2, <1>3, ConfigAlways, PTL DEF Spec

-----------------------------------------------------------------------------
(***************************************************************************)
(* No change is lost.  What an element of a notification says about an     *)
(* object: that it is gone, or that it is to be read again.                *)
(***************************************************************************)
There(m, k) == m[k].val # Absent
Live(o) == Present(o) /\ ~o.DeleteWhenDone
Fits(m, o, k) ==
  IF There(m, k) THEN Live(o) /\ o.val = Effective(m, k) ELSE ~Live(o)

Kills(e, k) ==
  \/ "DELETE" \in e.type /\ k \in Subtree(e.key)
  \/ "DELETE_DATA" \in e.type /\ e.key = k /\ k \in App
Renews(e, k) == e.key = k /\ ~Kills(e, k)
Announces(m, e, k) ==
  IF There(m, k) THEN Renews(e, k) \/ (e.key = W3SVC /\ k \in Site) ELSE Kills(e, k)

Said(m, els, k) == \E i \in DOMAIN els : Announces(m, els[i], k)
Revives(els, k) == \E i \in DOMAIN els : Renews(els[i], k)
Ends(els, k) ==
  \E i \in DOMAIN els : /\ Kills(els[i], k)
                        /\ \A j \in DOMAIN els : j > i => ~Renews(els[j], k)

\* The AppPoolId of a root application is not deleted by itself.
Proper(e) == "DELETE_DATA" \in e.type => e.key \in App /\ e.key[2] # "/"
AllProper(els) == \A i \in DOMAIN els : Proper(els[i])
Sane(m) == There(m, W3SVC) /\ \A k \in Pool \cup App : m[k].val # Inherit

LEMMA SubtreeFacts ==
  ASSUME NEW c \in Key, NEW k \in Object
  PROVE  /\ k \in Pool \cup Site => (k \in Subtree(c) <=> c = k)
         /\ k \in App /\ c \in Site => (k \in Subtree(c) <=> k \in AppsOf(c))
         /\ k \in App /\ k \in Subtree(c) => c \in Site \cup App
         /\ k \in Subtree(k)
<1>1. /\ \A s \in Site : AppsOf(s) \subseteq App
      /\ \A a \in App : AppsOf(a[1]) \subseteq App
  BY DEF AppsOf, App
<1>2. c \in Site => Subtree(c) = {c} \cup AppsOf(c)
  BY DEF Subtree
<1>3. c \in App => c \notin Site /\ Subtree(c) = IF c[2] = "/" THEN AppsOf(c[1]) ELSE {c}
  BY KindFacts DEF Subtree
<1>4. c \notin Site \cup App => Subtree(c) = {c}
  BY DEF Subtree
<1>5. k \in Subtree(k)
  BY DEF Subtree, App, AppsOf
<1> QED BY <1>1, <1>2, <1>3, <1>4, <1>5, KindFacts

\* What the tables make of an element.
LEMMA KillFacts ==
  ASSUME NEW e \in Element, Proper(e), NEW k \in Object
  PROVE  /\ k \in Pool \cup Site => (Kills(e, k) <=> e.key = k /\ "DELETE" \in e.type)
         /\ k \in App /\ e.key \in Site \cup App
              => (Kills(e, k) <=> k \in DeleteSubApplications(e))
         /\ k \in App /\ Kills(e, k) => e.key \in Site \cup App
<1>1. e.key \in Key
  BY DEF Element
<1>2. k \in Pool \cup Site => (Kills(e, k) <=> e.key = k /\ "DELETE" \in e.type)
  BY <1>1, SubtreeFacts, KindFacts DEF Kills
<1>3. k \in App /\ Kills(e, k) => e.key \in Site \cup App
  BY <1>1, SubtreeFacts DEF Kills
<1>4. ASSUME k \in App, e.key \in Site
      PROVE  Kills(e, k) <=> k \in DeleteSubApplications(e)
  <2>1. k # e.key
    BY <1>4, KindFacts
  <2> QED BY <1>1, <1>4, <2>1, SubtreeFacts DEF Kills, DeleteSubApplications
<1>5. ASSUME k \in App, e.key \in App
      PROVE  Kills(e, k) <=> k \in DeleteSubApplications(e)
  <2>1. e.key \notin Site
    BY <1>5, KindFacts
  <2>2. "DELETE_DATA" \in e.type => Subtree(e.key) = {e.key}
    BY <1>5, <2>1 DEF Proper, Subtree
  <2> QED BY <1>5, <2>1, <2>2 DEF Kills, DeleteSubApplications
<1> QED BY <1>2, <1>3, <1>4, <1>5

LEMMA ReadObjectFits ==
  ASSUME NEW m \in Metabases, Sane(m), NEW k \in Object
  PROVE  /\ Present(ReadObject(m, k)) <=> There(m, k)
         /\ ~ReadObject(m, k).DeleteWhenDone
         /\ ReadObject(m, k).val = Effective(m, k)
         /\ Fits(m, ReadObject(m, k), k)
<1>1. Absent # Inherit
  BY ValuesDistinct
<1>2. /\ ReadObject(m, k).val = Effective(m, k)
      /\ ~ReadObject(m, k).DeleteWhenDone
  BY DEF ReadObject, NewObject
<1>3. Effective(m, k) # Absent <=> There(m, k)
  BY <1>1 DEF Effective, There, Sane
<1>4. Present(ReadObject(m, k)) <=> There(m, k)
  BY <1>2, <1>3 DEF Present
<1> QED BY <1>2, <1>4 DEF Fits, Live

\* What one element makes of an object: o is what was read of it so far, p what has
\* been read afterwards, b what the table knows.
Effect(m, e, k, b, o, p) ==
  /\ Kills(e, k) => IF Present(p) THEN p.DeleteWhenDone ELSE p = o /\ ~Present(b)
  /\ Renews(e, k) /\ There(m, k)
       => \/ Live(p) /\ p.val = Effective(m, k)
          \/ Live(o) /\ p = o
  /\ Renews(e, k) /\ ~There(m, k) => p = o
  /\ ~Kills(e, k) /\ ~Renews(e, k) => p = o

LEMMA PoolOrSiteEffect ==
  ASSUME NEW m \in Metabases, Sane(m), NEW temp \in Tables, NEW e \in Element, Proper(e),
         e.key \in Pool \cup Site, NEW b
  PROVE  /\ Effect(m, e, e.key, b, temp[e.key], ReadPoolOrSite(m, temp, e)[e.key])
         /\ \A k \in Object : k # e.key => ReadPoolOrSite(m, temp, e)[k] = temp[k]
<1> DEFINE k == e.key
           deleted == "DELETE" \in e.type
           cmd == "SET" \in e.type /\ e.cmd
           base == IF deleted THEN NewObject(Empty, 0) ELSE ReadObject(m, k)
           new == [base EXCEPT !.DeleteWhenDone = deleted, !.cmdChanged = cmd]
           keep == /\ ~deleted /\ ~new.cmdChanged
                   /\ Present(temp[k]) /\ ~temp[k].DeleteWhenDone /\ temp[k].cmdChanged
           p == ReadPoolOrSite(m, temp, e)
<1>1. k \in Object /\ Empty \in Value /\ Empty # Absent
  BY ValuesDistinct DEF Object, Value
<1>2. base \in DataObject
  BY <1>1, ReadObjectType, NewObjectType
<1>3. p = IF ~Present(new) \/ keep THEN temp ELSE [temp EXCEPT ![k] = new]
  BY Zenon DEF ReadPoolOrSite
<1>4. deleted => base.val = Empty
  BY DEF NewObject
<1>5. ~deleted => base = ReadObject(m, k)
  OBVIOUS
<1>6. new.val = base.val /\ new.DeleteWhenDone = deleted
  <2> HIDE DEF base, deleted, cmd
  <2> QED BY <1>2 DEF DataObject
<1>7. Kills(e, k) <=> deleted
  BY <1>1, KillFacts
<1>8. Renews(e, k) <=> ~deleted
  BY <1>7 DEF Renews
<1>9. keep => ~deleted /\ Live(temp[k])
  BY DEF Live
<1>10. DOMAIN temp = Object
  BY DEF Tables
<1>11. /\ Present(ReadObject(m, k)) <=> There(m, k)
       /\ ReadObject(m, k).val = Effective(m, k)
  BY <1>1, ReadObjectFits
<1> HIDE DEF new, keep, p
<1>12. \A j \in Object : j # k => p[j] = temp[j]
  BY <1>3, <1>10
<1>13. CASE deleted
  <2>1. Present(new)
    BY <1>1, <1>4, <1>6, <1>13 DEF Present
  <2>2. p[k] = new
    BY <1>1, <1>3, <1>9, <1>10, <1>13, <2>1
  <2>3. p[k].DeleteWhenDone
    BY <1>6, <1>13, <2>2
  <2> QED BY <1>7, <1>8, <1>12, <1>13, <2>1, <2>2, <2>3 DEF Effect, p
<1>14. CASE ~deleted
  <2>1. new.val = Effective(m, k) /\ ~new.DeleteWhenDone
    BY <1>5, <1>6, <1>11, <1>14
  <2>2. Present(new) <=> There(m, k)
    BY <1>11, <2>1 DEF Present
  <2>3. p[k] = IF ~There(m, k) \/ keep THEN temp[k] ELSE new
    BY <1>1, <1>3, <1>10, <2>2
  <2>4. There(m, k) => (Live(p[k]) /\ p[k].val = Effective(m, k)) \/ (Live(temp[k]) /\ p[k] = temp[k])
    BY <1>9, <2>1, <2>2, <2>3 DEF Live
  <2>5. ~There(m, k) => p[k] = temp[k]
    BY <2>3
  <2> HIDE DEF deleted, k
  <2>6. Effect(m, e, k, b, temp[k], p[k])
    BY <1>7, <1>8, <1>14, <2>4, <2>5 DEF Effect
  <2> QED BY <1>12, <2>6 DEF p, k
<1> QED BY <1>13, <1>14

LEMMA ApplicationEffect ==
  ASSUME NEW m \in Metabases, Sane(m), NEW master \in Tables, NEW temp \in Tables,
         NEW e \in Element, Proper(e), e.key \in Site \cup App, NEW k \in Object
  PROVE  /\ k \in App
              => Effect(m, e, k, master[k], temp[k], ReadApplication(m, master, temp, e)[k])
         /\ k \notin App => ReadApplication(m, master, temp, e)[k] = temp[k]
<1> DEFINE doomed == DeleteSubApplications(e)
           p == ReadApplication(m, master, temp, e)
           d == DeleteThisURLFromTable(master, temp, doomed)
           new == ReadObject(m, e.key)
<1>1. p = IF e.key \in Site \/ doomed # {} THEN d
          ELSE IF Present(new) THEN [temp EXCEPT ![e.key] = new] ELSE temp
  BY Zenon DEF ReadApplication
<1>2. e.key \in Object /\ (e.key \in Site => e.key \notin App)
  BY KindFacts
<1>3. k \in App => (Kills(e, k) <=> k \in doomed)
  BY KillFacts
<1>4. k \notin App => k \notin doomed
  <2>1. e.key \in App => doomed = {} \/ doomed = Subtree(e.key)
    BY <1>2 DEF DeleteSubApplications
  <2>2. e.key \in Site => doomed = {} \/ doomed = AppsOf(e.key)
    BY <1>2 DEF DeleteSubApplications
  <2>3. /\ e.key \in Site => AppsOf(e.key) \subseteq App
        /\ e.key \in App => Subtree(e.key) \subseteq App
    BY <1>2 DEF AppsOf, App, Subtree
  <2> QED BY <2>1, <2>2, <2>3
<1>5. /\ master[k] \in DataObject /\ temp[k] \in DataObject /\ DOMAIN temp = Object
  BY DEF Tables
<1>6. CASE e.key \in Site \/ doomed # {}
  <2>1. p = d
    BY <1>1, <1>6
  <2>2. k \notin doomed => d[k] = temp[k]
    BY DEF DeleteThisURLFromTable
  <2>3. ASSUME k \in doomed
        PROVE  IF Present(d[k]) THEN d[k].DeleteWhenDone ELSE d[k] = temp[k] /\ ~Present(master[k])
    <3> DEFINE o == IF Present(master[k]) THEN master[k] ELSE temp[k]
    <3>1. d[k] = IF Present(o) THEN [o EXCEPT !.DeleteWhenDone = TRUE] ELSE o
      BY <2>3 DEF DeleteThisURLFromTable
    <3>2. o \in DataObject
      BY <1>5
    <3>3. CASE Present(o)
      <4>1. d[k].val = o.val /\ d[k].DeleteWhenDone
        <5> HIDE DEF o, d
        <5> QED BY <3>1, <3>2, <3>3 DEF DataObject
      <4> QED BY <3>3, <4>1 DEF Present
    <3>4. CASE ~Present(o)
      BY <3>1, <3>4
    <3> QED BY <3>3, <3>4
  <2>4. k \in App /\ k \notin doomed => ~Renews(e, k)
    <3> SUFFICES ASSUME k \in App, e.key = k PROVE k \in doomed
      BY <1>3 DEF Renews
    <3>1. e.key \notin Site /\ doomed # {}
      BY <1>2, <1>6
    <3>2. doomed = Subtree(k)
      BY <3>1 DEF DeleteSubApplications
    <3>3. k \in Key
      BY DEF Key
    <3> QED BY <3>2, <3>3, SubtreeFacts
  <2>5. k \in doomed => ~Renews(e, k) \/ k \notin App
    BY <1>3 DEF Renews
  <2> HIDE DEF d, p, doomed
  <2>6. ASSUME k \in App PROVE Effect(m, e, k, master[k], temp[k], p[k])
    <3>1. CASE k \in doomed
      BY <1>3, <2>1, <2>3, <2>5, <2>6, <3>1 DEF Effect
    <3>2. CASE k \notin doomed
      BY <1>3, <2>1, <2>2, <2>4, <2>6, <3>2 DEF Effect
    <3> QED BY <3>1, <3>2
  <2>7. k \notin App => p[k] = temp[k]
    BY <1>4, <2>1, <2>2
  <2> QED BY <2>6, <2>7 DEF p
<1>7. CASE ~(e.key \in Site \/ doomed # {})
  <2>1. p = IF Present(new) THEN [temp EXCEPT ![e.key] = new] ELSE temp
    BY <1>1, <1>7
  <2>2. e.key \in App
    BY <1>7
  <2>3. ~Kills(e, k) \/ k \notin App
    BY <1>3, <1>7
  <2>4. /\ Present(new) <=> There(m, e.key)
        /\ ~new.DeleteWhenDone /\ new.val = Effective(m, e.key)
    BY <1>2, ReadObjectFits
  <2> HIDE DEF new, p, d, doomed
  <2>5. k # e.key => p[k] = temp[k]
    BY <1>5, <2>1
  <2>6. k = e.key => p[k] = IF There(m, k) THEN new ELSE temp[k]
    BY <1>5, <2>1, <2>4
  <2>7. ASSUME k \in App PROVE Effect(m, e, k, master[k], temp[k], p[k])
    <3>1. CASE k # e.key
      BY <2>3, <2>5, <2>7, <3>1 DEF Effect, Renews
    <3>2. CASE k = e.key
      <4>1. There(m, k) => Live(p[k]) /\ p[k].val = Effective(m, k)
        BY <2>4, <2>6, <3>2 DEF Live
      <4> QED BY <2>3, <2>6, <2>7, <3>2, <4>1 DEF Effect, Renews
    <3> QED BY <3>1, <3>2
  <2>8. k \notin App => p[k] = temp[k]
    BY <2>2, <2>5
  <2> QED BY <2>7, <2>8 DEF p
<1> QED BY <1>6, <1>7

LEMMA ElementEffect ==
  ASSUME NEW m \in Metabases, Sane(m), NEW master \in Tables, NEW kind \in Kinds,
         NEW temp \in Tables, NEW e \in Element, Proper(e), NEW k \in Object
  PROVE  /\ k \in kind
              => Effect(m, e, k, master[k], temp[k], ReadElement(m, master, kind, temp, e)[k])
         /\ k \notin kind => ReadElement(m, master, kind, temp, e)[k] = temp[k]
<1> DEFINE p == ReadElement(m, master, kind, temp, e)
<1>1. CASE ~Concerns(e, kind)
  <2>1. p = temp
    BY <1>1 DEF ReadElement
  <2>2. k \in kind => ~Kills(e, k) /\ ~Renews(e, k)
    BY <1>1, KillFacts, KindFacts DEF Concerns, Kinds, Renews
  <2> HIDE DEF p
  <2> QED BY <2>1, <2>2 DEF Effect, p
<1>2. CASE Concerns(e, kind) /\ kind = App
  <2>1. e.key \in Site \cup App
    BY <1>2 DEF Concerns
  <2>2. p = ReadApplication(m, master, temp, e)
    BY <1>2 DEF ReadElement
  <2> QED BY <1>2, <2>1, <2>2, ApplicationEffect
<1>3. CASE Concerns(e, kind) /\ kind # App
  <2>1. e.key \in kind /\ e.key \in Pool \cup Site
    BY <1>3 DEF Concerns, Kinds
  <2>2. p = ReadPoolOrSite(m, temp, e)
    BY <1>3 DEF ReadElement
  <2>3. k # e.key => p[k] = temp[k]
    BY <2>1, <2>2, PoolOrSiteEffect
  <2>4. k = e.key => Effect(m, e, k, master[k], temp[k], p[k])
    BY <2>1, <2>2, PoolOrSiteEffect
  <2>5. k # e.key /\ k \in kind => ~Kills(e, k) /\ ~Renews(e, k)
    BY <1>3, KillFacts, KindFacts DEF Kinds, Renews
  <2> HIDE DEF p
  <2>6. k # e.key /\ k \in kind => Effect(m, e, k, master[k], temp[k], p[k])
    BY <2>3, <2>5 DEF Effect
  <2> QED BY <2>1, <2>3, <2>4, <2>6 DEF p
<1> QED BY <1>1, <1>2, <1>3

\* What the first n elements make of an object that was not read before.
EndsBy(els, k, n) ==
  \E i \in 1..n : Kills(els[i], k) /\ \A j \in 1..n : j > i => ~Renews(els[j], k)
Read(m, els, k, b, o, n) ==
  /\ Live(o) => There(m, k) /\ o.val = Effective(m, k)
  /\ There(m, k) => \/ Live(o) \/ EndsBy(els, k, n)
                    \/ \A i \in 1..n : ~Kills(els[i], k) /\ ~Renews(els[i], k)
  /\ (\A i \in 1..n : ~Kills(els[i], k)) => ~Present(o) \/ Live(o)
  /\ ~There(m, k) /\ (\E i \in 1..n : Kills(els[i], k)) => Present(o) \/ ~Present(b)

LEMMA ReadNext ==
  ASSUME NEW m, NEW els, NEW k, NEW b, NEW o, NEW p, NEW n \in Nat \ {0},
         Read(m, els, k, b, o, n - 1), Effect(m, els[n], k, b, o, p)
  PROVE  Read(m, els, k, b, p, n)
<1> DEFINE e == els[n]
<1>0. /\ n \in 1..n /\ n - 1 \in Nat
      /\ \A i \in 1..n : i = n \/ i \in 1..(n - 1)
      /\ \A i \in 1..(n - 1) : i \in 1..n /\ i < n
      /\ \A i \in 1..n : ~(i > n)
  OBVIOUS
<1>1. CASE Kills(e, k)
  <2>1. ~Live(p) /\ (Present(p) \/ ~Present(b))
    <3>1. CASE Present(p)
      BY <1>1, <3>1 DEF Effect, Live
    <3>2. CASE ~Present(p)
      BY <1>1, <3>2 DEF Effect, Live
    <3> QED BY <3>1, <3>2
  <2>2. EndsBy(els, k, n)
    BY <1>0, <1>1 DEF EndsBy
  <2>3. ~\A i \in 1..n : ~Kills(els[i], k)
    BY <1>0, <1>1
  <2> QED BY <2>1, <2>2, <2>3 DEF Read
<1>2. CASE ~Kills(e, k) /\ p = o /\ (~Renews(e, k) \/ ~There(m, k) \/ Live(o))
  <2>1. (\E i \in 1..n : Kills(els[i], k)) <=> \E i \in 1..(n - 1) : Kills(els[i], k)
    BY <1>0, <1>2
  <2>2. ~Renews(e, k) /\ EndsBy(els, k, n - 1) => EndsBy(els, k, n)
    <3> SUFFICES ASSUME ~Renews(e, k), EndsBy(els, k, n - 1) PROVE EndsBy(els, k, n)
      OBVIOUS
    <3>1. PICK i \in 1..(n - 1) : /\ Kills(els[i], k)
                                  /\ \A j \in 1..(n - 1) : j > i => ~Renews(els[j], k)
      BY DEF EndsBy
    <3>2. \A j \in 1..n : j > i => ~Renews(els[j], k)
      BY <1>0, <3>1
    <3> QED BY <1>0, <3>1, <3>2 DEF EndsBy
  <2>3. ~Renews(e, k) /\ (\A i \in 1..(n - 1) : ~Kills(els[i], k) /\ ~Renews(els[i], k))
          => \A i \in 1..n : ~Kills(els[i], k) /\ ~Renews(els[i], k)
    BY <1>0, <1>2
  <2> QED BY <1>2, <2>1, <2>2, <2>3 DEF Read
<1>3. CASE ~Kills(e, k) /\ Live(p) /\ p.val = Effective(m, k) /\ There(m, k)
  BY <1>3 DEF Read
<1>4. \/ Kills(e, k)
      \/ ~Renews(e, k) /\ p = o
      \/ ~There(m, k) /\ p = o
      \/ There(m, k) /\ Live(p) /\ p.val = Effective(m, k)
      \/ Live(o) /\ p = o
  BY DEF Effect
<1> QED BY <1>1, <1>2, <1>3, <1>4

LEMMA ReadAllElements ==
  ASSUME NEW m \in Metabases, Sane(m), NEW master \in Tables, NEW kind \in Kinds,
         NEW temp \in Tables, NEW els \in Seq(Element), AllProper(els), NEW k \in Object
  PROVE  /\ ReadElements(m, master, kind, temp, els) \in Tables
         /\ k \in kind /\ ~Present(temp[k])
              => Read(m, els, k, master[k], ReadElements(m, master, kind, temp, els)[k], Len(els))
         /\ k \notin kind => ReadElements(m, master, kind, temp, els)[k] = temp[k]
<1> DEFINE n == Len(els)
           b == master[k]
<1>0. n \in Nat /\ \A i \in 1..n : els[i] \in Element /\ Proper(els[i])
  BY DEF AllProper
<1>1. PICK read \in [0..n -> Tables] :
        /\ read[0] = temp
        /\ \A i \in 1..n : read[i] = ReadElement(m, master, kind, read[i - 1], els[i])
        /\ ReadElements(m, master, kind, temp, els) = read[n]
  BY <1>0, ReadElementsSteps
<1> HIDE DEF n, b
<1>2. \A i \in 1..n : i - 1 \in 0..n /\ i \in 0..n /\ i \in Nat \ {0}
  BY <1>0
<1>3. \A i \in 1..n : /\ k \in kind => Effect(m, els[i], k, b, read[i - 1][k], read[i][k])
                      /\ k \notin kind => read[i][k] = read[i - 1][k]
  BY <1>0, <1>1, <1>2, ElementEffect DEF b
<1>4. ASSUME k \notin kind PROVE read[n][k] = temp[k]
  <2> DEFINE S == {i \in 0..n : read[i][k] = temp[k]}
  <2>1. 0 \in S
    BY <1>0, <1>1
  <2>2. \A i \in 1..n : i - 1 \in S => i \in S
    BY <1>2, <1>3, <1>4
  <2> HIDE DEF S
  <2>3. 0..n \subseteq S
    BY <1>0, <2>1, <2>2, UpTo
  <2> QED BY <1>0, <2>3 DEF S
<1>5. ASSUME k \in kind, ~Present(temp[k]) PROVE Read(m, els, k, b, read[n][k], n)
  <2> DEFINE S == {i \in 0..n : Read(m, els, k, b, read[i][k], i)}
  <2>1. 0 \in S
    BY <1>0, <1>1, <1>5 DEF Read, Live
  <2>2. ASSUME NEW i \in 1..n, i - 1 \in S PROVE i \in S
    <3>1. Read(m, els, k, b, read[i - 1][k], i - 1)
      BY <2>2
    <3>2. Effect(m, els[i], k, b, read[i - 1][k], read[i][k])
      BY <1>3, <1>5
    <3>3. i \in 0..n /\ i \in Nat \ {0}
      BY <1>2
    <3>4. Read(m, els, k, b, read[i][k], i)
      BY <3>1, <3>2, <3>3, ReadNext
    <3> QED BY <3>3, <3>4
  <2> HIDE DEF S
  <2>3. 0..n \subseteq S
    BY <1>0, <2>1, <2>2, UpTo
  <2> QED BY <1>0, <2>3 DEF S
<1>6. read[n] \in Tables
  BY <1>0, <1>1
<1> QED BY <1>1, <1>4, <1>5, <1>6 DEF n, b

\* A notification is read: what is known of an object fits the metabase, or the
\* notification ends with the deletion of an object that is there again, or it says
\* nothing about it.
LEMMA NotificationRead ==
  ASSUME NEW m \in Metabases, Sane(m), NEW master \in Tables, NEW kind \in Kinds,
         NEW temp \in Tables, NEW els \in Seq(Element), AllProper(els), NEW k \in Object,
         NEW t, t = ReadFromMetabaseChangeNotification(m, master, kind, temp, els)
  PROVE  /\ k \notin kind => t[k] = temp[k]
         /\ k \in kind /\ ~Present(temp[k]) =>
              LET b == IF Present(t[k]) THEN t[k] ELSE master[k]
              IN \/ Fits(m, b, k)
                 \/ There(m, k) /\ Ends(els, k)
                 \/ ~Said(m, els, k) /\ b = master[k]
<1> DEFINE r == ReadElements(m, master, kind, temp, els)
           all == \E i \in DOMAIN els : els[i].key = W3SVC
           n == Len(els)
<1>1. t = IF all THEN ReadAll(m, kind, r) ELSE r
  BY DEF ReadFromMetabaseChangeNotification
<1>2. /\ r \in Tables
      /\ k \in kind /\ ~Present(temp[k]) => Read(m, els, k, master[k], r[k], n)
      /\ k \notin kind => r[k] = temp[k]
  BY ReadAllElements
<1>3. t[k] = IF all /\ k \in kind /\ ~Present(r[k]) THEN ReadObject(m, k) ELSE r[k]
  BY <1>1 DEF ReadAll
<1>4. DOMAIN els = 1..n
  OBVIOUS
<1> HIDE DEF r, n
<1>5. k \notin kind => t[k] = temp[k]
  BY <1>2, <1>3
<1> SUFFICES ASSUME k \in kind, ~Present(temp[k])
             PROVE  LET b == IF Present(t[k]) THEN t[k] ELSE master[k]
                    IN \/ Fits(m, b, k)
                       \/ There(m, k) /\ Ends(els, k)
                       \/ ~Said(m, els, k) /\ b = master[k]
  BY <1>5
<1> DEFINE b == IF Present(t[k]) THEN t[k] ELSE master[k]
<1>6. Read(m, els, k, master[k], r[k], n)
  BY <1>2
<1>7. EndsBy(els, k, n) <=> Ends(els, k)
  BY <1>4 DEF EndsBy, Ends
<1>8. /\ Present(ReadObject(m, k)) <=> There(m, k)
      /\ Fits(m, ReadObject(m, k), k)
  BY ReadObjectFits
<1>9. CASE There(m, k) /\ ~Ends(els, k)
  <2>1. CASE Live(r[k])
    <3>1. t[k] = r[k] /\ r[k].val = Effective(m, k) /\ Present(t[k])
      BY <1>3, <1>6, <2>1 DEF Read, Live
    <3> QED BY <1>9, <2>1, <3>1 DEF Fits
  <2>2. CASE \A i \in 1..n : ~Kills(els[i], k) /\ ~Renews(els[i], k)
    <3>1. ~Present(r[k]) \/ Live(r[k])
      BY <1>6, <2>2 DEF Read
    <3>2. CASE all /\ ~Present(r[k])
      <4>1. t[k] = ReadObject(m, k)
        BY <1>3, <3>2
      <4> HIDE DEF all
      <4> QED BY <1>8, <1>9, <4>1
    <3>3. CASE ~all /\ ~Present(r[k])
      <4>1. ~Said(m, els, k)
        BY <1>4, <1>9, <2>2, <3>3 DEF Said, Announces
      <4>2. ~Present(t[k])
        BY <1>3, <3>3
      <4> QED BY <4>1, <4>2
    <3> QED BY <2>1, <3>1, <3>2, <3>3
  <2> QED BY <1>6, <1>7, <1>9, <2>1, <2>2 DEF Read
<1>10. CASE ~There(m, k)
  <2>1. ~Live(r[k]) /\ ~Live(t[k])
    BY <1>3, <1>6, <1>8, <1>10 DEF Read, Live
  <2>2. CASE \E i \in 1..n : Kills(els[i], k)
    <3>1. Present(r[k]) \/ ~Present(master[k])
      BY <1>6, <1>10, <2>2 DEF Read
    <3>2. Present(r[k]) => Present(t[k])
      BY <1>3
    <3>3. ~Live(b)
      BY <2>1, <3>1, <3>2 DEF Live
    <3> QED BY <1>10, <3>3 DEF Fits
  <2>3. CASE ~\E i \in 1..n : Kills(els[i], k)
    <3>1. ~Said(m, els, k)
      BY <1>4, <1>10, <2>3 DEF Said, Announces
    <3>2. ~Present(r[k])
      BY <1>6, <2>1, <2>3 DEF Read
    <3>3. ~Present(t[k])
      BY <1>3, <1>8, <1>10, <3>2
    <3> QED BY <3>1, <3>3
  <2> QED BY <2>2, <2>3
<1> QED BY <1>9, <1>10

\* Validating and clearing a table keep what it says.
Alike(o, p) == (Live(p) <=> Live(o)) /\ (Live(o) => p.val = o.val)
AlikeTables(t, u) == \A k \in Object : Alike(t[k], u[k])

LEMMA AlikeFits ==
  ASSUME NEW m, NEW k, NEW o, NEW p, Alike(o, p), Fits(m, o, k)
  PROVE  Fits(m, p, k)
  BY DEF Alike, Fits

LEMMA SelfValidationAlike ==
  ASSUME NEW t \in Tables
  PROVE  AlikeTables(t, PerformSelfValidation(t))
<1> SUFFICES ASSUME NEW k \in Object, NEW o, o = PerformSelfValidation(t)[k]
             PROVE  Alike(t[k], o)
  BY DEF AlikeTables
<1>1. t[k] \in DataObject
  BY DEF Tables
<1>2. o \in {t[k], [t[k] EXCEPT !.SelfValid = FALSE]}
  BY DEF PerformSelfValidation
<1>3. o.val = t[k].val /\ o.DeleteWhenDone = t[k].DeleteWhenDone
  BY <1>1, <1>2 DEF DataObject
<1> QED BY <1>3 DEF Alike, Live, Present

LEMMA InvalidateAlike ==
  ASSUME NEW t \in Tables, NEW S
  PROVE  AlikeTables(t, Invalidate(t, S))
<1> SUFFICES ASSUME NEW k \in Object, NEW o, o = Invalidate(t, S)[k]
             PROVE  Alike(t[k], o)
  BY DEF AlikeTables
<1>1. t[k] \in DataObject
  BY DEF Tables
<1>2. o \in {t[k], [t[k] EXCEPT !.CrossValid = FALSE]}
  BY DEF Invalidate
<1>3. o.val = t[k].val /\ o.DeleteWhenDone = t[k].DeleteWhenDone
  BY <1>1, <1>2 DEF DataObject
<1> QED BY <1>3 DEF Alike, Live, Present

LEMMA CrossValidationAlike ==
  ASSUME NEW t \in Tables
  PROVE  AlikeTables(t, CrossValidateDataObjects(t))
<1> DEFINE t1 == FirstCross(t)
           t2 == SecondCross(t1)
           t3 == ThirdCross(t2)
<1>0. t1 \in Tables /\ t2 \in Tables /\ CrossValidateDataObjects(t) = t3
  BY CrossValidationType, CrossSteps
<1>1. AlikeTables(t, t1)
  BY InvalidateAlike DEF FirstCross
<1> HIDE DEF t1
<1>2. AlikeTables(t1, t2)
  BY <1>0, InvalidateAlike DEF SecondCross
<1> HIDE DEF t2
<1>3. AlikeTables(t2, t3)
  BY <1>0, InvalidateAlike DEF ThirdCross
<1> HIDE DEF t3
<1> QED BY <1>0, <1>1, <1>2, <1>3 DEF AlikeTables, Alike

LEMMA ClearAlike ==
  ASSUME NEW t \in Tables
  PROVE  AlikeTables(t, ClearDeletedObjects(t))
<1> SUFFICES ASSUME NEW k \in Object PROVE Alike(t[k], ClearDeletedObjects(t)[k])
  BY DEF AlikeTables
<1> DEFINE o == t[k]
           p == ClearDeletedObjects(t)[k]
           kn == QueryWillWasKnowAboutObject(o)
           q == [o EXCEPT !.InWas = kn, !.changed = ~kn, !.cmdChanged = FALSE,
                          !.SelfValid = TRUE, !.CrossValid = TRUE]
<1>1. o \in DataObject
  BY DEF Tables
<1>2. p = IF ~Present(o) \/ o.DeleteWhenDone THEN NoObject ELSE q
  BY DEF ClearDeletedObjects
<1>3. q.val = o.val /\ q.DeleteWhenDone = o.DeleteWhenDone
  <2> HIDE DEF o, kn
  <2> QED BY <1>1 DEF DataObject
<1> HIDE DEF o, p, q
<1>4. CASE ~Live(o)
  <2>1. p = NoObject
    BY <1>2, <1>4 DEF Live
  <2> QED BY <1>4, <2>1, NoObjectFacts DEF Alike, Live, o, p
<1>5. CASE Live(o)
  <2>1. p = q
    BY <1>2, <1>5 DEF Live
  <2>2. Alike(o, p)
    BY <1>3, <2>1 DEF Alike, Live, Present
  <2> QED BY <2>2 DEF o, p
<1> QED BY <1>4, <1>5

\* What the merged table says of an object: what was read of it, or else what was
\* known before; after a crash only what was read.
LEMMA MergedAlike ==
  ASSUME TypeOK, NEW k \in Object
  PROVE  /\ Merged \in Tables
         /\ Alike(IF ct.rehook \/ Present(ct.temp[k]) THEN ct.temp[k] ELSE table[k], Merged[k])
         /\ Alike(IF ct.rehook \/ Present(ct.temp[k]) THEN ct.temp[k] ELSE table[k],
                  ClearDeletedObjects(Merged)[k])
<1> DEFINE temp == IF ct.rehook THEN DeclareDeletions(table, ct.temp) ELSE ct.temp
           t1 == MergeTable(table, temp)
           t2 == PerformSelfValidation(t1)
           o == IF ct.rehook \/ Present(ct.temp[k]) THEN ct.temp[k] ELSE table[k]
<1>1. table \in Tables /\ ct.temp \in Tables
  BY TypeParts
<1>2. temp \in Tables
  BY <1>1, DeclareDeletionsType
<1>3. Merged = CrossValidateDataObjects(t2)
  BY DEF Merged, MergeAndSelfValidateTables
<1>4. /\ table[k] \in DataObject /\ ct.temp[k] \in DataObject /\ temp[k] \in DataObject
  BY <1>1, <1>2 DEF Tables
<1>5. \/ temp[k] = ct.temp[k] /\ (ct.rehook /\ ~Present(temp[k]) => ~Present(table[k]))
      \/ ct.rehook /\ Present(table[k]) /\ ~Present(ct.temp[k]) /\ Present(temp[k])
           /\ temp[k].DeleteWhenDone
  <2>1. CASE ~ct.rehook
    BY <2>1
  <2>2. CASE ct.rehook /\ Present(table[k]) /\ ~Present(ct.temp[k])
    <3>1. temp[k] = [table[k] EXCEPT !.DeleteWhenDone = TRUE]
      BY <2>2 DEF DeclareDeletions
    <3>2. temp[k].val = table[k].val /\ temp[k].DeleteWhenDone
      <4> HIDE DEF temp
      <4> QED BY <1>4, <3>1 DEF DataObject
    <3> QED BY <2>2, <3>2 DEF Present
  <2>3. CASE ct.rehook /\ ~(Present(table[k]) /\ ~Present(ct.temp[k]))
    <3>1. temp[k] = ct.temp[k]
      BY <2>3 DEF DeclareDeletions
    <3> QED BY <2>3, <3>1
  <2> QED BY <2>1, <2>2, <2>3
<1> HIDE DEF temp
<1>6. Alike(o, t1[k])
  <2> DEFINE c == temp[k].changed /\ ~(table[k].InWas /\ temp[k].val = table[k].val)
             q == [temp[k] EXCEPT !.InWas = table[k].InWas, !.changed = c]
  <2>1. t1[k] = IF ~Present(temp[k]) THEN table[k]
                ELSE IF ~Present(table[k])
                THEN IF temp[k].DeleteWhenDone THEN table[k] ELSE temp[k]
                ELSE q
    BY DEF MergeTable
  <2>2. q.val = temp[k].val /\ q.DeleteWhenDone = temp[k].DeleteWhenDone
    <3> HIDE DEF c
    <3> QED BY <1>4 DEF DataObject
  <2> HIDE DEF q, t1
  <2>3. CASE ~Present(temp[k])
    <3>1. t1[k] = table[k]
      BY <2>1, <2>3
    <3> QED BY <1>5, <2>3, <3>1 DEF Alike, Live
  <2>4. CASE Present(temp[k])
    <3>1. Alike(temp[k], t1[k])
      BY <2>1, <2>2, <2>4 DEF Alike, Live, Present
    <3>2. Alike(o, temp[k])
      BY <1>5, <2>4 DEF Alike, Live
    <3> QED BY <3>1, <3>2 DEF Alike
  <2> QED BY <2>3, <2>4
<1>7. t1 \in Tables
  BY <1>1, <1>2, MergeTableType
<1> HIDE DEF t1
<1>8. t2 \in Tables /\ Alike(t1[k], t2[k])
  BY <1>7, SelfValidationType, SelfValidationAlike DEF AlikeTables
<1> HIDE DEF t2
<1>9. Merged \in Tables /\ Alike(t2[k], Merged[k])
  BY <1>3, <1>8, CrossValidationType, CrossValidationAlike DEF AlikeTables
<1>10. Alike(Merged[k], ClearDeletedObjects(Merged)[k])
  BY <1>9, ClearAlike DEF AlikeTables
<1> HIDE DEF o
<1>11. Alike(o, Merged[k])
  BY <1>6, <1>8, <1>9 DEF Alike
<1>12. Alike(o, ClearDeletedObjects(Merged)[k])
  BY <1>10, <1>11 DEF Alike
<1> QED BY <1>9, <1>11, <1>12 DEF o

-----------------------------------------------------------------------------
(***************************************************************************)
(* When the metabase has at most one crash: which inetinfo is hooked, and  *)
(* where the only recovery is.                                             *)
(***************************************************************************)
Hooks ==
  /\ cm.abo \in {1, 2} /\ cm.abo <= inetinfo.life /\ cm.hooked \in {0, 1, cm.abo}
  /\ ~inetinfo.up => notif = <<>>
  /\ notif # <<>> /\ ct.pc # "exited" => cm.hooked = inetinfo.life
  /\ ct.pc = "exited" => cm.hooked # cm.abo /\ cm.hooked # 2
  /\ ct.pc = "listen" => queue = <<>> /\ cm.hooked = 0 /\ main.pc = "wait"
OneRecovery ==
  /\ monitor.watched \in {1, 2}
  /\ monitor.watched = 1 => cm.abo = 1 /\ Number(mq, "recover") = 0
  /\ monitor.watched = 2 => inetinfo.up /\ inetinfo.life = 2 /\ monitor.pc = "watching"
  /\ Number(mq, "recover") <= 1
  /\ Number(mq, "recover") # 0 => cm.abo = 1
\* Nothing is said after a rehook until it is dealt with.
Silent(q, i) == \A j \in DOMAIN q : j > i => q[j].els = <<>> /\ q[j].op # "rehook"
OneRehook ==
  \A i \in DOMAIN queue : queue[i].op = "rehook" =>
    /\ cm.abo = 2 /\ cm.hooked # 2 /\ ~ct.rehook
    /\ ct.pc # "exited" => Silent(queue, i)
HookInv == Hooks /\ OneRecovery /\ OneRehook

\* Lives are numbered 1 and 2.
LEMMA TwoLives ==
  ASSUME MaxCrashes <= 1, ConfigInv, RecoveryInv
  PROVE  /\ inetinfo.life \in {1, 2} /\ (~inetinfo.up => inetinfo.life = 1)
         /\ inetinfo \in [up : BOOLEAN, life : Life]
         /\ cm \in Fields /\ ct \in Threads /\ queue \in Seq(QueueItems) /\ mq \in Seq(MainItems)
         /\ notif \in Seq(Seq(Element)) /\ Number(mq, "recover") \in Nat
<1>1. inetinfo.life \in 0..(MaxCrashes + 1) /\ MaxCrashes \in Nat
  BY BoundsAssumption DEF ConfigInv, TypeOK, Life
<1>2. inetinfo.life >= 1 /\ (~inetinfo.up => inetinfo.life <= MaxCrashes)
  BY DEF ConfigInv, Tallies, RecoveryInv, SecondLife
<1>3. inetinfo.life \in {1, 2} /\ (~inetinfo.up => inetinfo.life = 1)
  BY <1>1, <1>2
<1>4. TypeOK
  BY DEF ConfigInv
<1>5. inetinfo \in [up : BOOLEAN, life : Life] /\ notif \in Seq(Seq(Element))
  BY <1>4 DEF TypeOK
<1> QED BY <1>3, <1>4, <1>5, ConfigTypeParts, TypeParts, TallyNat

\* Steps that leave inetinfo, the hook and the queues alone.
LEMMA HooksKept ==
  ASSUME HookInv, UNCHANGED <<inetinfo, monitor, notif, queue>>,
         cm'.abo = cm.abo, cm'.hooked = cm.hooked,
         Number(mq', "recover") = Number(mq, "recover"),
         ct'.pc = "exited" <=> ct.pc = "exited",
         ct'.pc = "listen" => ct.pc = "listen" /\ main' = main,
         ct'.rehook => ct.rehook
  PROVE  HookInv'
<1>1. Hooks'
  BY DEF HookInv, Hooks
<1>2. OneRecovery'
  BY DEF HookInv, OneRecovery
<1>3. OneRehook'
  BY DEF HookInv, OneRehook
<1> QED BY <1>1, <1>2, <1>3 DEF HookInv

\* An item that is taken from the queue, and one that is added.
LEMMA RehookTail ==
  ASSUME OneRehook, NEW X, queue \in Seq(X), queue # <<>>, queue' = Tail(queue), cm'.abo = cm.abo,
         ct.pc # "exited", ct'.pc # "exited",
         \/ cm'.hooked = cm.hooked /\ ~ct'.rehook
         \/ cm'.hooked = cm.hooked /\ ct'.rehook = ct.rehook
         \/ Head(queue).op = "rehook"
  PROVE  OneRehook'
<1>1. /\ \A i \in DOMAIN Tail(queue) : i + 1 \in DOMAIN queue /\ Tail(queue)[i] = queue[i + 1]
      /\ 1 \in DOMAIN queue /\ Head(queue) = queue[1]
      /\ DOMAIN queue \subseteq Nat /\ DOMAIN Tail(queue) \subseteq Nat \ {0}
  OBVIOUS
<1> SUFFICES ASSUME NEW i \in DOMAIN Tail(queue), Tail(queue)[i].op = "rehook"
             PROVE  cm'.abo = 2 /\ cm'.hooked # 2 /\ ~ct'.rehook /\ Silent(Tail(queue), i)
  BY DEF OneRehook
<1>2. /\ cm.abo = 2 /\ cm.hooked # 2 /\ ~ct.rehook /\ Silent(queue, i + 1)
  BY <1>1 DEF OneRehook
<1>3. Silent(Tail(queue), i)
  <2> SUFFICES ASSUME NEW j \in DOMAIN Tail(queue), j > i
               PROVE  Tail(queue)[j].els = <<>> /\ Tail(queue)[j].op # "rehook"
    BY DEF Silent
  <2>1. j + 1 \in DOMAIN queue /\ j + 1 > i + 1 /\ Tail(queue)[j] = queue[j + 1]
    BY <1>1
  <2> QED BY <1>2, <2>1 DEF Silent
<1>4. Head(queue).op # "rehook"
  <2>1. i + 1 > 1
    BY <1>1
  <2> QED BY <1>1, <2>1 DEF OneRehook, Silent
<1> QED BY <1>2, <1>3, <1>4

LEMMA RehookAppend ==
  ASSUME OneRehook, NEW X, queue \in Seq(X), NEW x, queue' = Append(queue, x), UNCHANGED <<cm, ct>>,
         x.op # "rehook", x.els = <<>> \/ ct.pc = "exited" \/ cm.abo = 1 \/ cm.hooked = 2
  PROVE  OneRehook'
<1>1. /\ \A i \in DOMAIN Append(queue, x) : i \in DOMAIN queue \/ i = Len(queue) + 1
      /\ \A i \in DOMAIN queue : Append(queue, x)[i] = queue[i]
      /\ Append(queue, x)[Len(queue) + 1] = x
  OBVIOUS
<1> SUFFICES ASSUME NEW i \in DOMAIN Append(queue, x), Append(queue, x)[i].op = "rehook"
             PROVE  /\ cm.abo = 2 /\ cm.hooked # 2 /\ ~ct.rehook
                    /\ ct.pc # "exited" => Silent(Append(queue, x), i)
  BY DEF OneRehook
<1>2. i \in DOMAIN queue /\ queue[i].op = "rehook"
  BY <1>1
<1>3. /\ cm.abo = 2 /\ cm.hooked # 2 /\ ~ct.rehook /\ (ct.pc # "exited" => Silent(queue, i))
  BY <1>2 DEF OneRehook
<1>4. ct.pc # "exited" => Silent(Append(queue, x), i)
  <2> SUFFICES ASSUME ct.pc # "exited", NEW j \in DOMAIN Append(queue, x), j > i
               PROVE  Append(queue, x)[j].els = <<>> /\ Append(queue, x)[j].op # "rehook"
    BY DEF Silent
  <2>1. CASE j \in DOMAIN queue
    BY <1>1, <1>3, <2>1 DEF Silent
  <2>2. CASE j = Len(queue) + 1
    BY <1>1, <1>3, <2>2
  <2> QED BY <1>1, <2>1, <2>2
<1> QED BY <1>3, <1>4

LEMMA InetinfoHooks ==
  ASSUME MaxCrashes <= 1, ConfigInv, RecoveryInv, HookInv,
         Administration \/ Crash \/ Restart \/ StartMBChangeItem
  PROVE  HookInv'
<1>0. /\ inetinfo.life \in {1, 2} /\ (~inetinfo.up => inetinfo.life = 1)
      /\ inetinfo \in [up : BOOLEAN, life : Life] /\ queue \in Seq(QueueItems)
      /\ notif \in Seq(Seq(Element))
  BY TwoLives
<1>1. CASE Administration
  <2>1. /\ inetinfo.up /\ UNCHANGED <<inetinfo, monitor, cm, ct, queue, main, mq>>
        /\ notif' = notif \/ cm.hooked = inetinfo.life
    BY <1>1 DEF Administration, SetData, WriteCommand, AddObject, DeleteObject, DeleteData,
       Change, Notify, NotifyTogether
  <2>2. Hooks'
    BY <2>1 DEF HookInv, Hooks
  <2>3. OneRecovery' /\ OneRehook'
    BY <2>1 DEF HookInv, OneRecovery, OneRehook
  <2> QED BY <2>2, <2>3 DEF HookInv
<1>2. CASE Crash
  <2>1. /\ inetinfo.up /\ inetinfo.life <= MaxCrashes /\ notif' = <<>>
        /\ inetinfo' = [inetinfo EXCEPT !.up = FALSE]
        /\ UNCHANGED <<monitor, cm, ct, queue, main, mq>>
    BY <1>2 DEF Crash
  <2>2. inetinfo'.life = inetinfo.life /\ inetinfo.life = 1
    BY <1>0, <2>1, BoundsAssumption
  <2>3. Hooks'
    BY <2>1, <2>2 DEF HookInv, Hooks
  <2>4. OneRecovery' /\ OneRehook'
    BY <2>1, <2>2 DEF HookInv, OneRecovery, OneRehook
  <2> QED BY <2>3, <2>4 DEF HookInv
<1>3. CASE Restart
  <2>1. /\ ~inetinfo.up /\ inetinfo' = [up |-> TRUE, life |-> inetinfo.life + 1]
        /\ UNCHANGED <<monitor, notif, cm, ct, queue, main, mq>>
    BY <1>3 DEF Restart
  <2>2. inetinfo'.up /\ inetinfo'.life = 2 /\ inetinfo.life = 1
    BY <1>0, <2>1
  <2>3. Hooks'
    BY <2>1, <2>2 DEF HookInv, Hooks
  <2>4. OneRecovery' /\ OneRehook'
    BY <2>1, <2>2 DEF HookInv, OneRecovery, OneRehook
  <2> QED BY <2>3, <2>4 DEF HookInv
<1>4. CASE StartMBChangeItem
  <2>1. /\ notif # <<>> /\ notif' = Tail(notif) /\ queue' = Append(queue, MBChange(Head(notif)))
        /\ UNCHANGED <<inetinfo, monitor, cm, ct, main, mq>>
    BY <1>4 DEF StartMBChangeItem
  <2>2. ct.pc # "exited" => cm.hooked = inetinfo.life /\ ct.pc # "listen"
    BY <1>0, <2>1 DEF HookInv, Hooks
  <2>3. cm.abo \in {1, 2} /\ cm.abo <= inetinfo.life /\ cm.hooked \in {0, 1, cm.abo}
    BY DEF HookInv, Hooks
  <2>4. ct.pc = "exited" \/ cm.abo = 1 \/ cm.hooked = 2
    BY <1>0, <2>2, <2>3
  <2>5. Hooks'
    BY <2>1, <2>2 DEF HookInv, Hooks
  <2>6. MBChange(Head(notif)).op # "rehook"
    BY DEF MBChange
  <2>7. OneRehook'
    BY <1>0, <2>1, <2>4, <2>6, RehookAppend DEF HookInv
  <2>8. OneRecovery'
    BY <2>1 DEF HookInv, OneRecovery
  <2> QED BY <2>5, <2>7, <2>8 DEF HookInv
<1> QED BY <1>1, <1>2, <1>3, <1>4

LEMMA MonitorHooks ==
  ASSUME MaxCrashes <= 1, ConfigInv, RecoveryInv, HookInv, MonitorThread \/ StopService
  PROVE  HookInv'
<1>0. /\ inetinfo.life \in {1, 2} /\ (~inetinfo.up => inetinfo.life = 1)
      /\ cm \in Fields /\ mq \in Seq(MainItems) /\ Number(mq, "recover") \in Nat
      /\ monitor.pc # "watching" => ~inetinfo.up \/ inetinfo.life = 2
      /\ monitor \in [pc : {"watching", "deciding", "rehook", "failed", "stopped"},
                      watched : Life]
  BY TwoLives DEF RecoveryInv, SecondLife, ConfigInv, TypeOK
<1>1. UNCHANGED <<inetinfo, notif, ct, queue, main>>
  BY DEF MonitorThread, RecordInetinfoCrash, MonitorActionRehook, MonitorActionShutdown,
     QueueRecoveryFromInetinfoCrash, RecordInetinfoMonitorStopped, MonitorUnchanged,
     StopService, MainUnchanged
<1>2. cm'.abo = cm.abo /\ cm'.hooked = cm.hooked
  BY <1>0 DEF MonitorThread, RecordInetinfoCrash, MonitorActionRehook, MonitorActionShutdown,
     QueueRecoveryFromInetinfoCrash, RecordInetinfoMonitorStopped, StopService,
     RequestStopService, Fields
<1>3. Hooks' /\ OneRehook'
  BY <1>1, <1>2 DEF HookInv, Hooks, OneRehook
<1>4. CASE QueueRecoveryFromInetinfoCrash
  <2>1. /\ monitor.pc = "rehook" /\ inetinfo.up /\ mq' = Append(mq, Recover)
        /\ monitor' = [pc |-> "watching", watched |-> inetinfo.life]
    BY <1>4 DEF QueueRecoveryFromInetinfoCrash
  <2>2. Recover \in MainItems /\ Recover.op = "recover"
    BY ItemTypes DEF Recover
  <2>3. Number(mq', "recover") = Number(mq, "recover") + 1
    BY <1>0, <2>1, <2>2, NumberAppend
  <2>4. inetinfo.life = 2 /\ monitor.watched = 1
    BY <1>0, <2>1 DEF HookInv, OneRecovery
  <2>5. cm.abo = 1 /\ Number(mq, "recover") = 0
    BY <2>4 DEF HookInv, OneRecovery
  <2>6. OneRecovery'
    BY <1>1, <1>2, <2>1, <2>3, <2>4, <2>5 DEF OneRecovery
  <2> QED BY <1>3, <2>6 DEF HookInv
<1>5. CASE ~QueueRecoveryFromInetinfoCrash
  <2>1. Number(mq', "recover") = Number(mq, "recover")
    <3>1. mq' = mq \/ RequestStopService
      BY <1>5 DEF MonitorThread, RecordInetinfoCrash, MonitorActionRehook,
         MonitorActionShutdown, RecordInetinfoMonitorStopped, StopService
    <3> QED BY <3>1, RequestStopType
  <2>2. /\ monitor'.watched = monitor.watched
        /\ monitor' = monitor \/ monitor.watched = 1
    <3>1. CASE RecordInetinfoCrash
      <4>1. monitor' = [monitor EXCEPT !.pc = "deciding"] /\ ~Alive(monitor.watched)
        BY <3>1 DEF RecordInetinfoCrash
      <4>2. monitor.watched # 2
        BY <4>1 DEF HookInv, OneRecovery, Alive
      <4> QED BY <1>0, <4>1, <4>2 DEF HookInv, OneRecovery
    <3>2. CASE StopService
      BY <3>2 DEF StopService, MainUnchanged
    <3>3. CASE MonitorActionRehook \/ MonitorActionShutdown \/ RecordInetinfoMonitorStopped
      <4>1. /\ monitor.pc # "watching"
            /\ \E pc : monitor' = [monitor EXCEPT !.pc = pc]
        BY <3>3 DEF MonitorActionRehook, MonitorActionShutdown, RecordInetinfoMonitorStopped
      <4> QED BY <1>0, <4>1 DEF HookInv, OneRecovery
    <3> QED BY <1>5, <3>1, <3>2, <3>3 DEF MonitorThread
  <2>3. OneRecovery'
    BY <1>1, <1>2, <2>1, <2>2 DEF HookInv, OneRecovery
  <2> QED BY <1>3, <2>3 DEF HookInv
<1> QED BY <1>4, <1>5

LEMMA ConfigThreadHooks ==
  ASSUME MaxCrashes <= 1, ConfigInv, RecoveryInv, HookInv, ConfigThread
  PROVE  HookInv'
<1>0. /\ inetinfo.life \in {1, 2} /\ (~inetinfo.up => inetinfo.life = 1)
      /\ cm \in Fields /\ ct \in Threads /\ queue \in Seq(QueueItems) /\ mq \in Seq(MainItems)
      /\ TypeOK
  BY TwoLives DEF ConfigInv
<1>1. UNCHANGED <<inetinfo, monitor, notif, main>>
  BY DEF ConfigThread, StartListeningForChangeNotifications, Unblock, CheckExitWorkLoop,
     ProcessMetabaseChangeOnConfigThread, ProcessMetabaseCrashOnConfigThread,
     ExitChangeThreadItem, DropAllUninterestingMBChanges, CreateTempDataObjectTables,
     ReadPools, ReadSites, ReadApps, ReadKind, FinishChangeProcessing,
     SendMainThreadChangesFails, Dequeue, ConfigUnchanged
<1>2. ASSUME StartListening
      PROVE  /\ cm'.abo = cm.abo
             /\ cm'.hooked = IF Alive(cm.abo) THEN cm.abo ELSE cm.hooked
  BY <1>0, <1>2 DEF StartListening, Fields
<1>r. ASSUME UNCHANGED <<cm, mq>> \/ (mq' = mq /\ cm'.abo = cm.abo) PROVE OneRecovery'
  BY <1>1, <1>r DEF HookInv, OneRecovery
<1>n. NothingToDo.pc = "loop" /\ ~NothingToDo.rehook
  BY DEF NothingToDo
<1>p. \A els \in Seq(Element), b \in BOOLEAN :
        Processing(els, b).rehook = b /\ Processing(els, b).pc \in {"drop", "readPools"}
  <2> SUFFICES ASSUME NEW els \in Seq(Element), NEW b \in BOOLEAN
               PROVE  Processing(els, b).rehook = b
                        /\ Processing(els, b).pc \in {"drop", "readPools"}
    OBVIOUS
  <2> QED BY <1>0 DEF Processing, Threads
<1>3. CASE StartListeningForChangeNotifications
  <2>1. /\ ct.pc = "listen" /\ StartListening /\ ct' = [ct EXCEPT !.pc = "blocked"]
        /\ UNCHANGED <<queue, mq>>
    BY <1>3 DEF StartListeningForChangeNotifications
  <2>2. ct'.pc = "blocked" /\ queue = <<>> /\ cm.hooked = 0
    BY <1>0, <2>1 DEF Threads, HookInv, Hooks
  <2>3. notif = <<>>
    BY <1>0, <2>1, <2>2 DEF HookInv, Hooks
  <2>4. Hooks'
    BY <1>1, <1>2, <2>1, <2>2, <2>3 DEF HookInv, Hooks
  <2>5. OneRehook'
    BY <2>1, <2>2 DEF OneRehook
  <2> QED BY <1>2, <1>r, <2>1, <2>4, <2>5 DEF HookInv
<1>4. CASE CheckExitWorkLoop /\ cm.ExitWorkLoop
  <2>1. /\ ct.pc = "loop" /\ ct' = [ct EXCEPT !.pc = "exited"] /\ UNCHANGED <<queue, mq>>
        /\ cm' = [cm EXCEPT !.hooked = IF cm.abo = @ THEN 0 ELSE @]
    BY <1>4 DEF CheckExitWorkLoop
  <2>2. /\ ct'.pc = "exited" /\ ct'.rehook = ct.rehook /\ cm'.abo = cm.abo
        /\ cm'.hooked = IF cm.abo = cm.hooked THEN 0 ELSE cm.hooked
    BY <1>0, <2>1 DEF Threads, Fields
  <2>3. Hooks'
    BY <1>1, <2>1, <2>2 DEF HookInv, Hooks
  <2>4. OneRehook'
    BY <2>1, <2>2 DEF HookInv, OneRehook
  <2> QED BY <1>r, <2>1, <2>2, <2>3, <2>4 DEF HookInv
<1>5. CASE Unblock \/ (CheckExitWorkLoop /\ ~cm.ExitWorkLoop)
  <2>1. /\ ct.pc \in {"blocked", "loop"} /\ UNCHANGED <<cm, queue, mq>>
        /\ ct' \in {[ct EXCEPT !.pc = "loop"], [ct EXCEPT !.pc = "wait"]}
    BY <1>5 DEF Unblock, CheckExitWorkLoop
  <2>2. ct'.pc \in {"loop", "wait"} /\ ct'.rehook = ct.rehook
    BY <1>0, <2>1 DEF Threads
  <2> QED BY <1>1, <2>1, <2>2, HooksKept
<1>6. CASE ProcessMetabaseChangeOnConfigThread \/ ExitChangeThreadItem
  <2>1. /\ Dequeue("change") \/ Dequeue("exit")
        /\ ct' = NothingToDo \/ ct' = Processing(Head(queue).els, FALSE)
        /\ cm' = cm
    BY <1>6 DEF ProcessMetabaseChangeOnConfigThread, ExitChangeThreadItem
  <2>2. /\ ct.pc = "wait" /\ queue # <<>> /\ queue' = Tail(queue) /\ mq' = mq
    BY <2>1 DEF Dequeue
  <2>3. Head(queue).els \in Seq(Element)
    <3>1. Head(queue) \in QueueItems
      BY <1>0, <2>2
    <3> QED BY <3>1 DEF QueueItems
  <2>4. ~ct'.rehook /\ ct'.pc \in {"loop", "drop", "readPools"}
    BY <1>n, <1>p, <2>1, <2>3
  <2>5. Hooks'
    BY <1>1, <2>1, <2>2, <2>4 DEF HookInv, Hooks
  <2>6. OneRehook'
    BY <1>0, <2>1, <2>2, <2>4, RehookTail DEF HookInv
  <2> QED BY <1>r, <2>1, <2>2, <2>5, <2>6 DEF HookInv
<1>7. CASE ProcessMetabaseCrashOnConfigThread
  <2>1. /\ Dequeue("rehook") /\ StartListening
        /\ ct' = NothingToDo \/ ct' = Processing(<<>>, TRUE)
    BY <1>7 DEF ProcessMetabaseCrashOnConfigThread
  <2>2. /\ ct.pc = "wait" /\ queue # <<>> /\ queue' = Tail(queue) /\ mq' = mq
        /\ Head(queue).op = "rehook"
    BY <2>1 DEF Dequeue
  <2>3. ct'.pc \in {"loop", "drop", "readPools"}
    <3>1. <<>> \in Seq(Element)
      OBVIOUS
    <3> QED BY <1>n, <1>p, <2>1, <3>1
  <2>4. Alive(cm.abo) => cm.abo = inetinfo.life
    BY DEF Alive
  <2>5. Hooks'
    BY <1>1, <1>2, <2>1, <2>2, <2>3, <2>4 DEF HookInv, Hooks
  <2>6. OneRehook'
    BY <1>0, <1>2, <2>1, <2>2, <2>3, RehookTail DEF HookInv
  <2> QED BY <1>2, <1>r, <2>1, <2>2, <2>5, <2>6 DEF HookInv
<1>8. CASE DropAllUninterestingMBChanges
  <2>1. /\ ct.pc = "drop" /\ queue # <<>> /\ queue' = Tail(queue) /\ UNCHANGED <<cm, ct, mq>>
    BY <1>8 DEF DropAllUninterestingMBChanges, Droppable
  <2>2. Hooks'
    BY <1>1, <2>1 DEF HookInv, Hooks
  <2>3. OneRehook'
    BY <1>0, <2>1, RehookTail DEF HookInv
  <2> QED BY <1>r, <2>1, <2>2, <2>3 DEF HookInv
<1>9. CASE CreateTempDataObjectTables \/ ReadPools \/ ReadSites \/ ReadApps
  <2>1. /\ ct.pc \in {"drop", "readPools", "readSites", "readApps"} /\ UNCHANGED <<cm, queue, mq>>
        /\ \/ ct' = NothingToDo
           \/ ct' = [ct EXCEPT !.pc = "readPools", !.abo = cm.abo]
           \/ \E t : \E pc \in {"readSites", "readApps", "finish"} :
                ct' = [ct EXCEPT !.pc = pc, !.temp = t]
    BY <1>9 DEF CreateTempDataObjectTables, ReadPools, ReadSites, ReadApps, ReadKind
  <2>2. ct'.pc \notin {"listen", "exited"} /\ (ct'.rehook => ct.rehook)
    BY <1>0, <1>n, <2>1 DEF Threads
  <2> QED BY <1>1, <2>1, <2>2, HooksKept
<1>10. CASE FinishChangeProcessing \/ SendMainThreadChangesFails
  <2>1. /\ ct.pc = "finish" /\ ct' = NothingToDo /\ queue' = queue
        /\ cm' = ProcessingAllowed \/ cm' = [cm EXCEPT !.notSent = TRUE]
        /\ mq' = mq \/ mq' = Append(mq, ConfigChange(CopyInteresting(Merged)))
    BY <1>10 DEF FinishChangeProcessing, SendMainThreadChangesFails
  <2>2. cm'.abo = cm.abo /\ cm'.hooked = cm.hooked
    BY <1>0, <2>1 DEF ProcessingAllowed, Fields
  <2>3. Number(mq', "recover") = Number(mq, "recover")
    <3>1. CopyInteresting(Merged) \in Tables
      BY <1>0, MergedType, ClearType
    <3>2. ConfigChange(CopyInteresting(Merged)) \in MainItems
      BY <3>1, ItemTypes
    <3>3. ConfigChange(CopyInteresting(Merged)).op # "recover"
      BY DEF ConfigChange
    <3>4. Number(mq, "recover") \in Nat
      BY <1>0, TallyNat
    <3>5. Number(Append(mq, ConfigChange(CopyInteresting(Merged))), "recover")
            = Number(mq, "recover")
      <4> HIDE DEF Merged
      <4> QED BY <1>0, <3>2, <3>3, <3>4, NumberAppend
    <3> QED BY <2>1, <3>5
  <2> QED BY <1>1, <1>n, <2>1, <2>2, <2>3, HooksKept
<1> QED BY <1>3, <1>4, <1>5, <1>6, <1>7, <1>8, <1>9, <1>10 DEF ConfigThread

LEMMA MainThreadHooks ==
  ASSUME MaxCrashes <= 1, ConfigInv, RecoveryInv, HookInv, MainThread
  PROVE  HookInv'
<1>0. /\ inetinfo.life \in {1, 2} /\ (~inetinfo.up => inetinfo.life = 1)
      /\ cm \in Fields /\ queue \in Seq(QueueItems) /\ mq \in Seq(MainItems)
      /\ TypeOK /\ Number(mq, "recover") \in Nat
  BY TwoLives DEF ConfigInv
<1>1. UNCHANGED <<inetinfo, monitor, notif, ct>>
  BY DEF MainThread, LaunchChangeNotificationListener, InitReadPools, InitReadSites,
     InitReadApps, ReadDataFromMetabase, InitializeFinishes, ProcessConfigChange,
     RecoverFromInetinfoCrash, StopServiceWorkItem, RequestShutdown, ShutdownDone,
     BeginTerminate, Terminate, MainWorkItem, MainUnchanged
<1>2. ct.pc # "listen"
  <2>1. main.pc # "wait" \/ ct.pc # "listen"
    BY DEF MainThread, LaunchChangeNotificationListener, InitReadPools, InitReadSites,
       InitReadApps, ReadDataFromMetabase, InitializeFinishes, ProcessConfigChange,
       RecoverFromInetinfoCrash, StopServiceWorkItem, RequestShutdown, ShutdownDone,
       BeginTerminate, Terminate, MainWorkItem
  <2> QED BY <2>1 DEF HookInv, Hooks
<1>3. CASE \/ LaunchChangeNotificationListener \/ InitReadPools \/ InitReadSites
           \/ InitReadApps \/ InitializeFinishes \/ ShutdownDone \/ BeginTerminate
  <2>1. /\ UNCHANGED <<queue, mq>>
        /\ \/ cm' = cm \/ cm' = [cm EXCEPT !.BlockEvent = TRUE]
           \/ cm' = [cm EXCEPT !.ProcessChanges = TRUE, !.BlockEvent = TRUE]
           \/ cm' = [cm EXCEPT !.ExitWorkLoop = TRUE]
    BY <1>3 DEF LaunchChangeNotificationListener, InitReadPools, InitReadSites, InitReadApps,
       ReadDataFromMetabase, InitializeFinishes, InitializeFails, ShutdownDone, BeginTerminate,
       StopChangeProcessing
  <2>2. cm'.abo = cm.abo /\ cm'.hooked = cm.hooked
    BY <1>0, <2>1 DEF Fields
  <2> QED BY <1>1, <1>2, <2>1, <2>2, HooksKept
<1>4. CASE ProcessConfigChange \/ StopServiceWorkItem
  <2>1. /\ MainWorkItem("change") \/ MainWorkItem("stop")
        /\ queue' = queue
        /\ cm' = cm \/ cm' = [cm EXCEPT !.ExitWorkLoop = TRUE]
    BY <1>4 DEF ProcessConfigChange, StopServiceWorkItem, StopChangeProcessing
  <2>2. cm'.abo = cm.abo /\ cm'.hooked = cm.hooked
    BY <1>0, <2>1 DEF Fields
  <2>3. Number(mq', "recover") = Number(mq, "recover")
    BY <1>0, <2>1, MainItemType
  <2> QED BY <1>1, <1>2, <2>1, <2>2, <2>3, HooksKept
<1>5. CASE RequestShutdown
  <2>1. /\ cm' = [cm EXCEPT !.ProcessChanges = FALSE] /\ queue' = Append(queue, ExitThread)
        /\ mq' = mq
    BY <1>5 DEF RequestShutdown
  <2>2. cm'.abo = cm.abo /\ cm'.hooked = cm.hooked
    BY <1>0, <2>1 DEF Fields
  <2>3. Hooks' /\ OneRecovery'
    BY <1>1, <1>2, <2>1, <2>2 DEF HookInv, Hooks, OneRecovery
  <2>4. OneRehook'
    <3>1. /\ \A i \in DOMAIN Append(queue, ExitThread) : i \in DOMAIN queue \/ i = Len(queue) + 1
          /\ \A i \in DOMAIN queue : Append(queue, ExitThread)[i] = queue[i]
          /\ Append(queue, ExitThread)[Len(queue) + 1] = ExitThread
      BY <1>0
    <3>2. ExitThread.op # "rehook" /\ ExitThread.els = <<>>
      BY DEF ExitThread
    <3> SUFFICES ASSUME NEW i \in DOMAIN queue', queue'[i].op = "rehook"
                 PROVE  /\ cm'.abo = 2 /\ cm'.hooked # 2 /\ ~ct'.rehook
                        /\ ct'.pc # "exited" => Silent(queue', i)
      BY DEF OneRehook
    <3>3. i \in DOMAIN queue /\ queue[i].op = "rehook"
      BY <2>1, <3>1, <3>2
    <3>4. /\ cm.abo = 2 /\ cm.hooked # 2 /\ ~ct.rehook /\ (ct.pc # "exited" => Silent(queue, i))
      BY <3>3 DEF HookInv, OneRehook
    <3>5. Silent(queue, i) => Silent(queue', i)
      BY <2>1, <3>1, <3>2 DEF Silent
    <3> QED BY <1>1, <2>2, <3>4, <3>5
  <2> QED BY <2>3, <2>4 DEF HookInv
<1>6. CASE Terminate
  <2>1. UNCHANGED cm /\ queue' = <<>> /\ mq' = <<>>
    BY <1>6 DEF Terminate
  <2>2. Number(mq', "recover") = 0
    BY <2>1, NumberEmpty
  <2>3. Hooks' /\ OneRecovery'
    BY <1>1, <1>2, <2>1, <2>2 DEF HookInv, Hooks, OneRecovery
  <2>4. OneRehook'
    BY <2>1 DEF OneRehook
  <2> QED BY <2>3, <2>4 DEF HookInv
<1>7. CASE RecoverFromInetinfoCrash
  <2>1. MainWorkItem("recover")
    BY <1>7 DEF RecoverFromInetinfoCrash
  <2>2. /\ Number(mq, "recover") = Number(mq', "recover") + 1 /\ Number(mq', "recover") \in Nat
        /\ Number(mq, "recover") # 0
    BY <1>0, <2>1, MainItemType
  <2>3. cm.abo = 1 /\ Number(mq', "recover") = 0 /\ monitor.watched = 2
    BY <2>2 DEF HookInv, OneRecovery
  <2>4. CASE main.pc = "stopping" \/ ~inetinfo.up
    <3>1. UNCHANGED <<cm, queue>>
      BY <1>7, <2>4 DEF RecoverFromInetinfoCrash
    <3>2. Hooks' /\ OneRecovery' /\ OneRehook'
      BY <1>1, <1>2, <2>3, <3>1 DEF HookInv, Hooks, OneRecovery, OneRehook
    <3> QED BY <3>2 DEF HookInv
  <2>5. CASE main.pc # "stopping" /\ inetinfo.up
    <3>1. /\ cm' = [cm EXCEPT !.abo = inetinfo.life, !.InCrashedState = @ - 1,
                              !.hooked = IF @ = cm.abo THEN 0 ELSE @]
          /\ queue' = Append(queue, Rehook)
      BY <1>7, <2>5 DEF RecoverFromInetinfoCrash
    <3>2. inetinfo.life = 2 /\ inetinfo.up
      BY <2>3 DEF HookInv, OneRecovery
    <3>3. /\ cm'.abo = 2 /\ cm'.hooked = IF cm.hooked = cm.abo THEN 0 ELSE cm.hooked
      BY <1>0, <3>1, <3>2 DEF Fields
    <3>4. cm.hooked \in {0, 1} /\ cm'.hooked = 0
      BY <2>3, <3>3 DEF HookInv, Hooks
    <3>5. ct.pc # "exited" => notif = <<>>
      BY <3>2, <3>4 DEF HookInv, Hooks
    <3>6. Hooks'
      BY <1>1, <1>2, <3>2, <3>3, <3>4, <3>5 DEF HookInv, Hooks
    <3>7. OneRecovery'
      BY <1>1, <2>3, <3>2 DEF HookInv, OneRecovery
    <3>8. ~ct.rehook
      BY <2>3 DEF RecoveryInv, SecondLife, Rehooking
    <3>9. \A i \in DOMAIN queue : queue[i].op # "rehook"
      BY <2>3 DEF HookInv, OneRehook
    <3>10. /\ \A i \in DOMAIN Append(queue, Rehook) : i \in DOMAIN queue \/ i = Len(queue) + 1
           /\ \A i \in DOMAIN queue : Append(queue, Rehook)[i] = queue[i]
           /\ \A j \in DOMAIN Append(queue, Rehook) : ~(j > Len(queue) + 1)
      BY <1>0
    <3>11. OneRehook'
      <4> SUFFICES ASSUME NEW i \in DOMAIN queue', queue'[i].op = "rehook"
                   PROVE  /\ cm'.abo = 2 /\ cm'.hooked # 2 /\ ~ct'.rehook /\ Silent(queue', i)
        BY DEF OneRehook
      <4>1. i = Len(queue) + 1
        BY <3>1, <3>9, <3>10
      <4>2. Silent(queue', i)
        BY <3>1, <3>10, <4>1 DEF Silent
      <4> QED BY <1>1, <3>3, <3>4, <3>8, <4>2
    <3> QED BY <3>6, <3>7, <3>11 DEF HookInv
  <2> QED BY <2>4, <2>5
<1> QED BY <1>3, <1>4, <1>5, <1>6, <1>7 DEF MainThread

-----------------------------------------------------------------------------
(***************************************************************************)
(* What administrators do, as an element says it.                          *)
(***************************************************************************)
RootsKeepData == \A s \in Site : RootOf(s) \notin DataDeletable

Tells(e) ==
  /\ e \in Element /\ Proper(e)
  /\ \A k \in Object : /\ Kills(e, k) => ~There(mb', k)
                       /\ Renews(e, k) => There(mb', k)
                       /\ ~Kills(e, k) /\ ~Renews(e, k) => mb'[k] = mb[k]
  /\ e.key # W3SVC => mb'[W3SVC] = mb[W3SVC]
  /\ Notify(e) \/ NotifyTogether(e)

LEMMA OneKeyTold ==
  ASSUME mb \in Metabases, NEW c \in Key, NEW x \in Entry, mb' = [mb EXCEPT ![c] = x],
         NEW type \in SUBSET {"SET", "ADD", "DELETE", "DELETE_DATA"}, NEW b \in BOOLEAN,
         NEW e, e = [key |-> c, type |-> type, cmd |-> b], Notify(e) \/ NotifyTogether(e),
         "DELETE" \notin type, "DELETE_DATA" \in type => c \in App /\ c[2] # "/",
         c \in Object => (x.val = Absent <=> "DELETE_DATA" \in type)
  PROVE  Tells(e)
<1>1. e \in Element /\ Proper(e) /\ e.key = c /\ e.type = type
  BY DEF Element, Proper
<1>2. DOMAIN mb = Key /\ Object \subseteq Key /\ W3SVC \in Key
  BY DEF Metabases, Key
<1>3. ASSUME NEW k \in Object
      PROVE  /\ Kills(e, k) => ~There(mb', k)
             /\ Renews(e, k) => There(mb', k)
             /\ ~Kills(e, k) /\ ~Renews(e, k) => mb'[k] = mb[k]
  <2>1. Kills(e, k) <=> "DELETE_DATA" \in type /\ c = k
    BY <1>1 DEF Kills
  <2>2. k # c => mb'[k] = mb[k]
    BY <1>2
  <2>3. k = c => mb'[k] = x
    BY <1>2
  <2> QED BY <1>1, <2>1, <2>2, <2>3 DEF Renews, There
<1>4. e.key # W3SVC => mb'[W3SVC] = mb[W3SVC]
  BY <1>1, <1>2
<1> QED BY <1>1, <1>3, <1>4 DEF Tells

LEMMA AdministrationTold ==
  ASSUME RootsKeepData, ConfigInv, Sane(mb), Administration
  PROVE  /\ \E e : Tells(e)
         /\ Sane(mb')
         /\ inetinfo.up /\ UNCHANGED <<inetinfo, monitor, cm, ct, queue, main, mq, table, was>>
<1>0. mb \in Metabases /\ TypeOK /\ DOMAIN mb = Key /\ \A k \in Key : mb[k] \in Entry
  BY TypeParts DEF ConfigInv, Metabases
<1>u. inetinfo.up /\ UNCHANGED <<inetinfo, monitor, cm, ct, queue, main, mq, table, was>>
  BY DEF Administration, SetData, WriteCommand, AddObject, DeleteObject, DeleteData, Change
<1>k. Object \subseteq Key /\ App \subseteq Object /\ W3SVC \in Key /\ W3SVC \notin Object
  BY KeysDistinct DEF Key, Object
<1>v. /\ Absent # Inherit /\ Absent \notin Setting /\ Inherit \notin Setting
      /\ Absent \notin SiteValue /\ Absent \notin AppValue /\ Inherit \notin AppValue
  BY ValuesDistinct, ValuesAssumption
<1>l. ASSUME NEW k \in Key
      PROVE  /\ Absent \notin ValuesOf(k)
             /\ k \in Pool \cup App => Inherit \notin ValuesOf(k)
  BY <1>v DEF ValuesOf
<1>t. /\ {"SET"} \in SUBSET {"SET", "ADD", "DELETE", "DELETE_DATA"}
      /\ {"ADD", "SET"} \in SUBSET {"SET", "ADD", "DELETE", "DELETE_DATA"}
      /\ {"DELETE"} \in SUBSET {"SET", "ADD", "DELETE", "DELETE_DATA"}
      /\ {"DELETE_DATA"} \in SUBSET {"SET", "ADD", "DELETE", "DELETE_DATA"}
  OBVIOUS
\* A value is written.
<1>w. ASSUME NEW k \in Key, NEW v \in Value, v \in ValuesOf(k),
             NEW type \in {{"SET"}, {"ADD", "SET"}},
             Change([mb EXCEPT ![k].val = v], k, type, FALSE)
      PROVE  (\E e : Tells(e)) /\ Sane(mb')
  <2> DEFINE x == [mb[k] EXCEPT !.val = v]
             e == [key |-> k, type |-> type, cmd |-> FALSE]
  <2>1. x \in Entry /\ x.val = v
    BY <1>0 DEF Entry
  <2>2. mb' = [mb EXCEPT ![k] = x] /\ (Notify(e) \/ NotifyTogether(e))
    BY <1>w DEF Change
  <2>3. "DELETE" \notin type /\ "DELETE_DATA" \notin type
        /\ type \in SUBSET {"SET", "ADD", "DELETE", "DELETE_DATA"}
    OBVIOUS
  <2>4. v # Absent
    BY <1>l, <1>w
  <2> HIDE DEF x
  <2>5. Tells(e)
    <3> DEFINE f == e
    <3>1. f = [key |-> k, type |-> type, cmd |-> FALSE]
      OBVIOUS
    <3> HIDE DEF f
    <3>2. Notify(f) \/ NotifyTogether(f)
      BY <2>2, <3>1
    <3> QED BY <1>0, <2>1, <2>2, <2>3, <2>4, <3>1, <3>2, OneKeyTold
  <2>6. Sane(mb')
    <3>1. \A j \in Key : mb'[j].val = IF j = k THEN v ELSE mb[j].val
      BY <1>0, <2>1, <2>2
    <3>2. Pool \cup App \subseteq Key
      BY <1>k DEF Object
    <3> QED BY <1>k, <1>l, <1>w, <2>4, <3>1, <3>2 DEF Sane, There
  <2> QED BY <2>5, <2>6
<1>1. ASSUME NEW k \in Key, NEW v \in Value, SetData(k, v)
      PROVE  (\E e : Tells(e)) /\ Sane(mb')
  <2>1. v \in ValuesOf(k) /\ Change([mb EXCEPT ![k].val = v], k, {"SET"}, FALSE)
    BY <1>1 DEF SetData
  <2> QED BY <1>w, <2>1
<1>2. ASSUME NEW k \in Object, NEW v \in Value, AddObject(k, v)
      PROVE  (\E e : Tells(e)) /\ Sane(mb')
  <2>1. v \in ValuesOf(k) /\ Change([mb EXCEPT ![k].val = v], k, {"ADD", "SET"}, FALSE)
    BY <1>2 DEF AddObject
  <2>2. k \in Key
    BY <1>k
  <2> QED BY <1>w, <2>1, <2>2
<1>3. ASSUME NEW k \in Key, WriteCommand(k)
      PROVE  (\E e : Tells(e)) /\ Sane(mb')
  <2> DEFINE x == [mb[k] EXCEPT !.cmd = changes + 1]
             e == [key |-> k, type |-> {"SET"}, cmd |-> TRUE]
  <2>1. x \in Entry /\ x.val = mb[k].val
    <3>1. changes + 1 \in Nat
      BY <1>0, BoundsAssumption DEF TypeOK
    <3> QED BY <1>0, <3>1 DEF Entry
  <2>2. mb' = [mb EXCEPT ![k] = x] /\ (Notify(e) \/ NotifyTogether(e)) /\ mb[k].val # Absent
    BY <1>3 DEF WriteCommand, Change
  <2>3. "DELETE" \notin {"SET"} /\ "DELETE_DATA" \notin {"SET"}
    OBVIOUS
  <2> HIDE DEF x
  <2>4. Tells(e)
    <3> DEFINE f == e
    <3>1. f = [key |-> k, type |-> {"SET"}, cmd |-> TRUE]
      OBVIOUS
    <3> HIDE DEF f
    <3>2. Notify(f) \/ NotifyTogether(f)
      BY <2>2, <3>1
    <3> QED BY <1>0, <1>t, <2>1, <2>2, <2>3, <3>1, <3>2, OneKeyTold
  <2>5. \A j \in Key : mb'[j].val = mb[j].val
    BY <1>0, <2>1, <2>2
  <2>6. Sane(mb')
    BY <1>k, <2>5 DEF Sane, There, Key, Object
  <2> QED BY <2>4, <2>6
<1>4. ASSUME NEW k \in App, DeleteData(k)
      PROVE  (\E e : Tells(e)) /\ Sane(mb')
  <2> DEFINE e == [key |-> k, type |-> {"DELETE_DATA"}, cmd |-> FALSE]
  <2>1. mb' = [mb EXCEPT ![k] = NoEntry] /\ (Notify(e) \/ NotifyTogether(e)) /\ k \in DataDeletable
    BY <1>4 DEF DeleteData, Change
  <2>2. NoEntry \in Entry /\ NoEntry.val = Absent
    BY DEF NoEntry, Entry, Value
  <2>3. k[2] # "/"
    <3>1. k = <<k[1], k[2]>> /\ k[1] \in Site
      BY DEF App
    <3> QED BY <2>1, <3>1 DEF RootsKeepData, RootOf
  <2>4. "DELETE" \notin {"DELETE_DATA"} /\ "DELETE_DATA" \in {"DELETE_DATA"} /\ k \in Key
    BY <1>k
  <2>5. Tells(e)
    <3> DEFINE f == e
    <3>1. f = [key |-> k, type |-> {"DELETE_DATA"}, cmd |-> FALSE]
      OBVIOUS
    <3> HIDE DEF f
    <3>2. Notify(f) \/ NotifyTogether(f)
      BY <2>1, <3>1
    <3> QED BY <1>0, <1>t, <2>1, <2>2, <2>3, <2>4, <3>1, <3>2, OneKeyTold
  <2>6. \A j \in Key : mb'[j].val = IF j = k THEN Absent ELSE mb[j].val
    BY <1>0, <2>1, <2>2
  <2>7. Sane(mb')
    BY <1>k, <1>v, <2>6 DEF Sane, There, Key, Object
  <2> QED BY <2>5, <2>7
<1>5. ASSUME NEW k \in Object, DeleteObject(k)
      PROVE  (\E e : Tells(e)) /\ Sane(mb')
  <2> DEFINE e == [key |-> k, type |-> {"DELETE"}, cmd |-> FALSE]
  <2>1. /\ mb' = [j \in Key |-> IF j \in Subtree(k) THEN NoEntry ELSE mb[j]]
        /\ Notify(e) \/ NotifyTogether(e)
    BY <1>5 DEF DeleteObject, Change
  <2>2. NoEntry.val = Absent
    BY DEF NoEntry
  <2>3. e \in Element /\ Proper(e) /\ e.key = k /\ e.type = {"DELETE"}
    BY <1>k DEF Element, Proper
  <2>4. \A j \in Object : Kills(e, j) <=> j \in Subtree(k)
    BY <2>3 DEF Kills
  <2>5. k \in Subtree(k)
    BY <1>k, SubtreeFacts
  <2>6. W3SVC \notin Subtree(k)
    <3>1. Subtree(k) \subseteq Object
      BY <1>k, KindFacts DEF Subtree, AppsOf, App
    <3> QED BY <1>k, <3>1
  <2>7. ASSUME NEW j \in Object
        PROVE  /\ Kills(e, j) => ~There(mb', j)
               /\ Renews(e, j) => There(mb', j)
               /\ ~Kills(e, j) /\ ~Renews(e, j) => mb'[j] = mb[j]
    <3>1. j \in Key
      BY <1>k
    <3>2. mb'[j] = IF j \in Subtree(k) THEN NoEntry ELSE mb[j]
      BY <2>1, <3>1
    <3>3. ~Renews(e, j)
      BY <2>3, <2>4, <2>5 DEF Renews
    <3> QED BY <2>2, <2>4, <3>2, <3>3 DEF There
  <2>8. mb'[W3SVC] = mb[W3SVC]
    BY <1>k, <2>1, <2>6
  <2> HIDE DEF e
  <2>9. Tells(e)
    BY <2>1, <2>3, <2>7, <2>8 DEF Tells
  <2>10. \A j \in Key : mb'[j].val = mb[j].val \/ mb'[j].val = Absent
    BY <2>1, <2>2
  <2>11. Sane(mb')
    BY <1>k, <1>v, <2>8, <2>10 DEF Sane, There, Key, Object
  <2> QED BY <2>9, <2>11
<1> QED BY <1>u, <1>1, <1>2, <1>3, <1>4, <1>5 DEF Administration

\* Where the new element is.
Extends(old, new, e, z, y) ==
  /\ z \in DOMAIN new /\ y \in DOMAIN new[z] /\ new[z][y] = e
  /\ \A i \in DOMAIN new : i = z \/ i < z
  /\ \A j \in DOMAIN new[z] : j = y \/ j < y
  /\ \A i \in DOMAIN old : i \in DOMAIN new /\ DOMAIN old[i] \subseteq DOMAIN new[i]
  /\ \A i \in DOMAIN old : \A j \in DOMAIN old[i] : new[i][j] = old[i][j]
  /\ \A i \in DOMAIN new : \A j \in DOMAIN new[i] :
       (i = z /\ j = y) \/ (i \in DOMAIN old /\ j \in DOMAIN old[i])

LEMMA NotifExtended ==
  ASSUME NEW X, notif \in Seq(Seq(X)), NEW e \in X, cm.hooked = inetinfo.life,
         Notify(e) \/ NotifyTogether(e)
  PROVE  \E z, y : Extends(notif, notif', e, z, y)
<1> DEFINE n == Len(notif)
<1>0. n \in Nat /\ DOMAIN notif = 1..n /\ \A i \in 1..n : notif[i] \in Seq(X)
  OBVIOUS
<1>1. CASE Notify(e)
  <2>1. notif' = Append(notif, <<e>>)
    BY <1>1 DEF Notify
  <2>2. /\ DOMAIN notif' = 1..(n + 1) /\ notif'[n + 1] = <<e>>
        /\ \A i \in 1..n : notif'[i] = notif[i]
    BY <2>1
  <2>3. DOMAIN <<e>> = {1} /\ <<e>>[1] = e
    OBVIOUS
  <2> HIDE DEF n
  <2>4. Extends(notif, notif', e, n + 1, 1)
    BY <1>0, <2>2, <2>3 DEF Extends
  <2> QED BY <2>4
<1>2. CASE NotifyTogether(e)
  <2>1. notif # <<>> /\ notif' = Front(notif) \o <<Append(Last(notif), e)>>
    BY <1>2 DEF NotifyTogether
  <2>2. n \in Nat \ {0} /\ Last(notif) = notif[n] /\ Last(notif) \in Seq(X)
    BY <1>0, <2>1 DEF Last
  <2>3. /\ Front(notif) \in Seq(Seq(X)) /\ Len(Front(notif)) = n - 1
        /\ \A i \in 1..(n - 1) : Front(notif)[i] = notif[i]
    <3>1. Front(notif) = SubSeq(notif, 1, n - 1)
      BY DEF Front
    <3> HIDE DEF n
    <3>2. /\ 1 \in Int /\ n - 1 \in Int /\ n - 1 - 1 + 1 = n - 1
          /\ (IF 1 <= n - 1 THEN n - 1 - 1 + 1 ELSE 0) = n - 1
          /\ \A i \in 1..(n - 1) : 1 + i - 1 = i
      <4>1. n \in Nat /\ n >= 1
        BY <2>2
      <4> QED BY <4>1
    <3>3. \A i \in 1..(n - 1) : notif[i] \in Seq(X)
      BY <1>0, <2>2
    <3>4. /\ SubSeq(notif, 1, n - 1) \in Seq(Seq(X))
          /\ Len(SubSeq(notif, 1, n - 1)) = IF 1 <= n - 1 THEN n - 1 - 1 + 1 ELSE 0
          /\ \A i \in 1..(n - 1 - 1 + 1) : SubSeq(notif, 1, n - 1)[i] = notif[1 + i - 1]
      BY <3>2, <3>3, SubSeqProperties
    <3> QED BY <3>1, <3>2, <3>4
  <2> DEFINE l == Append(Last(notif), e)
             y == Len(notif[n]) + 1
  <2>4. /\ DOMAIN notif' = 1..n /\ notif'[n] = l /\ \A i \in 1..(n - 1) : notif'[i] = notif[i]
    <3>1. l \in Seq(X) /\ <<l>> \in Seq(Seq(X))
      BY <2>2
    <3> DEFINE f == Front(notif)
    <3>2. notif' = f \o <<l>> /\ f \in Seq(Seq(X)) /\ Len(f) = n - 1
      BY <2>1, <2>3
    <3>3. \A i \in 1..(n - 1) : f[i] = notif[i]
      BY <2>3
    <3> HIDE DEF l, f, n
    <3>4. /\ Len(f \o <<l>>) = n /\ (f \o <<l>>)[n] = l
          /\ \A i \in 1..(n - 1) : (f \o <<l>>)[i] = f[i]
      <4>1. Len(<<l>>) = 1 /\ <<l>>[1] = l
        OBVIOUS
      <4>2. /\ Len(f \o <<l>>) = n - 1 + 1
            /\ \A i \in 1..(n - 1 + 1) : (f \o <<l>>)[i] =
                 IF i <= n - 1 THEN f[i] ELSE <<l>>[i - (n - 1)]
        BY <3>1, <3>2, <4>1, ConcatProperties
      <4>3. /\ n - 1 + 1 = n /\ n - (n - 1) = 1 /\ n \in 1..n /\ ~(n <= n - 1)
            /\ \A i \in 1..(n - 1) : i \in 1..n /\ i <= n - 1
        BY <2>2
      <4> QED BY <4>1, <4>2, <4>3
    <3>5. f \o <<l>> \in Seq(Seq(X))
      BY <3>1, <3>2
    <3> QED BY <3>2, <3>3, <3>4, <3>5
  <2>5. /\ DOMAIN l = 1..y /\ l[y] = e /\ DOMAIN notif[n] = 1..(y - 1) /\ y \in Nat \ {0}
        /\ \A j \in 1..(y - 1) : l[j] = notif[n][j]
    BY <2>2
  <2> HIDE DEF n, l, y
  <2>6. Extends(notif, notif', e, n, y)
    <3>1. \A i \in 1..n : i = n \/ i \in 1..(n - 1)
      BY <2>2
    <3>2. \A j \in 1..y : j = y \/ j \in 1..(y - 1)
      BY <2>5
    <3>3. \A i \in 1..(n - 1) : i < n /\ i \in 1..n
      BY <2>2
    <3>4. \A j \in 1..(y - 1) : j < y /\ j \in 1..y
      BY <2>5
    <3>5. n \in 1..n /\ y \in 1..y
      BY <2>2, <2>5
    <3> QED BY <1>0, <2>4, <2>5, <3>1, <3>2, <3>3, <3>4, <3>5 DEF Extends
  <2> QED BY <2>6
<1> QED BY <1>1, <1>2

(***************************************************************************)
(* What has to be true of an object: m is the metabase, nf and q what is   *)
(* still to come, h what is in hand and not yet read, b what was made of   *)
(* the object so far, y whether it is still to be read whatever is said.   *)
(***************************************************************************)
\* An object that is there is not thrown away at last: what ends it is followed by
\* what revives it.
Followed(m, nf, q, h, k) ==
  There(m, k) =>
    /\ \A i \in DOMAIN nf : Ends(nf[i], k) => \E j \in DOMAIN nf : j > i /\ Revives(nf[j], k)
    /\ \A i \in DOMAIN q : Ends(q[i].els, k) =>
         \/ \E j \in DOMAIN q : j > i /\ Revives(q[j].els, k)
         \/ \E j \in DOMAIN nf : Revives(nf[j], k)
    /\ Ends(h, k) => \/ \E j \in DOMAIN q : Revives(q[j].els, k)
                     \/ \E j \in DOMAIN nf : Revives(nf[j], k)
Outstanding(m, nf, q, h, k) ==
  \/ \E i \in DOMAIN nf : Said(m, nf[i], k)
  \/ \E i \in DOMAIN q : Said(m, q[i].els, k)
  \/ Said(m, h, k)
Safe(m, nf, q, h, b, y, k) ==
  Followed(m, nf, q, h, k) /\ (y \/ Fits(m, b, k) \/ Outstanding(m, nf, q, h, k))

LEMMA NothingSaid ==
  ASSUME NEW m, NEW k
  PROVE  ~Said(m, <<>>, k) /\ ~Ends(<<>>, k) /\ ~Revives(<<>>, k)
  BY DEF Said, Ends, Revives

\* A notification is delivered.
LEMMA SafeDelivered ==
  ASSUME NEW X, NEW Y, NEW nf \in Seq(X), nf # <<>>, NEW q \in Seq(Y), NEW m, NEW h, NEW b, NEW y,
         NEW k, Safe(m, nf, q, h, b, y, k)
  PROVE  Safe(m, Tail(nf), Append(q, MBChange(Head(nf))), h, b, y, k)
<1> DEFINE n == Len(nf)
           l == Len(q)
           mf == Tail(nf)
           p == Append(q, MBChange(Head(nf)))
<1>1. /\ n \in Nat \ {0} /\ DOMAIN nf = 1..n /\ DOMAIN mf = 1..(n - 1)
      /\ \A i \in 1..(n - 1) : mf[i] = nf[i + 1]
  OBVIOUS
<1>2. /\ l \in Nat /\ DOMAIN q = 1..l /\ DOMAIN p = 1..(l + 1)
      /\ \A i \in 1..l : p[i] = q[i]
  OBVIOUS
<1>3. p[l + 1].els = nf[1]
  BY DEF MBChange
<1> HIDE DEF n, l, mf, p
<1>4. \A j \in 1..n : j = 1 \/ (j - 1 \in 1..(n - 1) /\ mf[j - 1] = nf[j])
  BY <1>1
<1>5. l + 1 \in 1..(l + 1) /\ \A i \in 1..l : i \in 1..(l + 1) /\ l + 1 > i
  BY <1>2
\* A notification that revives it is still to come, or is the last of the queue.
<1>6. ASSUME NEW j \in 1..n, Revives(nf[j], k)
      PROVE  Revives(p[l + 1].els, k) \/ \E i \in DOMAIN mf : Revives(mf[i], k)
  BY <1>1, <1>3, <1>4, <1>6
<1>7. ASSUME There(m, k)
      PROVE  \A i \in DOMAIN mf : Ends(mf[i], k) => \E j \in DOMAIN mf : j > i /\ Revives(mf[j], k)
  <2> SUFFICES ASSUME NEW i \in 1..(n - 1), Ends(mf[i], k)
               PROVE  \E j \in 1..(n - 1) : j > i /\ Revives(mf[j], k)
    BY <1>1
  <2>1. i + 1 \in 1..n /\ Ends(nf[i + 1], k)
    BY <1>1
  <2>2. PICK j \in 1..n : j > i + 1 /\ Revives(nf[j], k)
    BY <1>1, <1>7, <2>1 DEF Safe, Followed
  <2>3. j - 1 \in 1..(n - 1) /\ j - 1 > i /\ mf[j - 1] = nf[j]
    BY <1>1, <1>4, <2>2
  <2> QED BY <2>2, <2>3
<1>8. ASSUME There(m, k)
      PROVE  \A i \in DOMAIN p : Ends(p[i].els, k) =>
               \/ \E j \in DOMAIN p : j > i /\ Revives(p[j].els, k)
               \/ \E j \in DOMAIN mf : Revives(mf[j], k)
  <2> SUFFICES ASSUME NEW i \in 1..(l + 1), Ends(p[i].els, k)
               PROVE  \/ \E j \in 1..(l + 1) : j > i /\ Revives(p[j].els, k)
                      \/ \E j \in DOMAIN mf : Revives(mf[j], k)
    BY <1>2
  <2>1. CASE i = l + 1
    <3>1. 1 \in 1..n /\ Ends(nf[1], k)
      BY <1>1, <1>3, <2>1
    <3>2. PICK j \in 1..n : j > 1 /\ Revives(nf[j], k)
      BY <1>1, <1>8, <3>1 DEF Safe, Followed
    <3>3. j - 1 \in 1..(n - 1) /\ mf[j - 1] = nf[j]
      BY <1>4, <3>2
    <3> QED BY <1>1, <3>2, <3>3
  <2>2. CASE i \in 1..l
    <3>1. Ends(q[i].els, k)
      BY <1>2, <2>2
    <3>2. \/ \E j \in 1..l : j > i /\ Revives(q[j].els, k)
          \/ \E j \in 1..n : Revives(nf[j], k)
      BY <1>1, <1>2, <1>8, <2>2, <3>1 DEF Safe, Followed
    <3> QED BY <1>2, <1>5, <1>6, <2>2, <3>2
  <2>3. i = l + 1 \/ i \in 1..l
    BY <1>2
  <2> QED BY <2>1, <2>2, <2>3
<1>9. ASSUME There(m, k), Ends(h, k)
      PROVE  \/ \E j \in DOMAIN p : Revives(p[j].els, k)
             \/ \E j \in DOMAIN mf : Revives(mf[j], k)
  <2>1. \/ \E j \in 1..l : Revives(q[j].els, k)
        \/ \E j \in 1..n : Revives(nf[j], k)
    BY <1>1, <1>2, <1>9 DEF Safe, Followed
  <2> QED BY <1>2, <1>5, <1>6, <2>1
<1>10. Outstanding(m, nf, q, h, k) => Outstanding(m, mf, p, h, k)
  <2>1. ASSUME NEW i \in 1..n, Said(m, nf[i], k)
        PROVE  Outstanding(m, mf, p, h, k)
    BY <1>1, <1>2, <1>3, <1>4, <1>5, <2>1 DEF Outstanding
  <2>2. ASSUME NEW i \in 1..l, Said(m, q[i].els, k)
        PROVE  Outstanding(m, mf, p, h, k)
    BY <1>2, <1>5, <2>2 DEF Outstanding
  <2> QED BY <1>1, <1>2, <2>1, <2>2 DEF Outstanding
<1>11. Followed(m, mf, p, h, k)
  BY <1>7, <1>8, <1>9 DEF Followed
<1>12. Safe(m, mf, p, h, b, y, k)
  BY <1>10, <1>11 DEF Safe
<1> QED BY <1>12 DEF mf, p

\* Something without elements is queued.
LEMMA SafeQueued ==
  ASSUME NEW Y, NEW q \in Seq(Y), NEW x, x.els = <<>>, NEW nf, NEW m, NEW h, NEW b, NEW y,
         NEW k, Safe(m, nf, q, h, b, y, k)
  PROVE  Safe(m, nf, Append(q, x), h, b, y, k)
<1> DEFINE l == Len(q)
           p == Append(q, x)
<1>1. /\ l \in Nat /\ DOMAIN q = 1..l /\ DOMAIN p = 1..(l + 1)
      /\ \A i \in 1..l : p[i] = q[i] /\ i \in 1..(l + 1)
      /\ p[l + 1] = x
  OBVIOUS
<1> HIDE DEF l, p
<1>2. \A i \in 1..(l + 1) : i = l + 1 \/ i \in 1..l
  BY <1>1
<1>3. \A i \in 1..(l + 1) : Ends(p[i].els, k) => i \in 1..l
  BY <1>1, <1>2, NothingSaid
<1>4. Followed(m, nf, p, h, k)
  BY <1>1, <1>3 DEF Safe, Followed
<1>5. Outstanding(m, nf, q, h, k) => Outstanding(m, nf, p, h, k)
  BY <1>1 DEF Outstanding
<1>6. Safe(m, nf, p, h, b, y, k)
  BY <1>4, <1>5 DEF Safe
<1> QED BY <1>6 DEF p

\* An item of the queue is taken in hand.
LEMMA SafeTaken ==
  ASSUME NEW Y, NEW q \in Seq(Y), q # <<>>, NEW nf, NEW m, NEW b, NEW y, NEW k,
         Safe(m, nf, q, <<>>, b, y, k)
  PROVE  Safe(m, nf, Tail(q), Head(q).els, b, y, k)
<1> DEFINE l == Len(q)
           p == Tail(q)
           h == Head(q).els
<1>1. /\ l \in Nat \ {0} /\ DOMAIN q = 1..l /\ DOMAIN p = 1..(l - 1)
      /\ \A i \in 1..(l - 1) : p[i] = q[i + 1] /\ i + 1 \in 1..l
      /\ q[1].els = h /\ 1 \in 1..l
  OBVIOUS
<1> HIDE DEF l, p, h
<1>2. \A j \in 1..l : j = 1 \/ (j - 1 \in 1..(l - 1) /\ p[j - 1] = q[j])
  BY <1>1
<1>3. ASSUME There(m, k), NEW i \in 1..l, Ends(q[i].els, k)
      PROVE  \/ \E j \in 1..l : j > i /\ Revives(q[j].els, k)
             \/ \E j \in DOMAIN nf : Revives(nf[j], k)
  BY <1>1, <1>3 DEF Safe, Followed
<1>4. ASSUME There(m, k), NEW i \in 1..(l - 1), Ends(p[i].els, k)
      PROVE  \/ \E j \in 1..(l - 1) : j > i /\ Revives(p[j].els, k)
             \/ \E j \in DOMAIN nf : Revives(nf[j], k)
  <2>1. i + 1 \in 1..l /\ Ends(q[i + 1].els, k)
    BY <1>1, <1>4
  <2>2. ASSUME NEW j \in 1..l, j > i + 1, Revives(q[j].els, k)
        PROVE  j - 1 \in 1..(l - 1) /\ j - 1 > i /\ Revives(p[j - 1].els, k)
    BY <1>1, <1>2, <2>2
  <2> QED BY <1>3, <1>4, <2>1, <2>2
<1>5. ASSUME There(m, k), Ends(h, k)
      PROVE  \/ \E j \in 1..(l - 1) : Revives(p[j].els, k)
             \/ \E j \in DOMAIN nf : Revives(nf[j], k)
  <2>1. \/ \E j \in 1..l : j > 1 /\ Revives(q[j].els, k)
        \/ \E j \in DOMAIN nf : Revives(nf[j], k)
    BY <1>1, <1>3, <1>5
  <2> QED BY <1>2, <2>1
<1>6. Followed(m, nf, p, h, k)
  BY <1>1, <1>4, <1>5 DEF Safe, Followed
<1>7. Outstanding(m, nf, q, <<>>, k) => Outstanding(m, nf, p, h, k)
  BY <1>1, <1>2, NothingSaid DEF Outstanding
<1>8. Safe(m, nf, p, h, b, y, k)
  BY <1>6, <1>7 DEF Safe
<1> QED BY <1>8 DEF p, h

\* An item is dropped that says no more than what is in hand.
LEMMA SafeDropped ==
  ASSUME NEW Y, NEW q \in Seq(Y), q # <<>>, NEW nf, NEW m, NEW h, NEW b, NEW y, NEW k \in Object,
         DOMAIN h = {1}, h[1].type \in {{"SET"}, {"ADD"}, {"SET", "ADD"}},
         DOMAIN Head(q).els = {1}, Head(q).els[1].type = {"SET"},
         Head(q).els[1].key = h[1].key,
         Safe(m, nf, q, h, b, y, k)
  PROVE  Safe(m, nf, Tail(q), h, b, y, k)
<1> DEFINE l == Len(q)
           p == Tail(q)
           d == Head(q).els
<1>1. /\ l \in Nat \ {0} /\ DOMAIN q = 1..l /\ DOMAIN p = 1..(l - 1)
      /\ \A i \in 1..(l - 1) : p[i] = q[i + 1] /\ i + 1 \in 1..l
      /\ q[1].els = d /\ 1 \in 1..l
  OBVIOUS
<1>d. DOMAIN d = {1} /\ d[1].type = {"SET"} /\ d[1].key = h[1].key
  OBVIOUS
<1> HIDE DEF l, p, d
<1>2. \A j \in 1..l : j = 1 \/ (j - 1 \in 1..(l - 1) /\ p[j - 1] = q[j])
  BY <1>1
<1>3. ~Kills(h[1], k) /\ ~Kills(d[1], k) /\ (Renews(h[1], k) <=> Renews(d[1], k))
  BY <1>d DEF Kills, Renews
<1>4. Announces(m, d[1], k) => Announces(m, h[1], k)
  BY <1>3, <1>d DEF Announces
<1>5. ~Ends(h, k)
  BY <1>3 DEF Ends
<1>6. Said(m, d, k) => Said(m, h, k)
  BY <1>d, <1>4 DEF Said
<1>7. ASSUME There(m, k), NEW i \in 1..(l - 1), Ends(p[i].els, k)
      PROVE  \/ \E j \in 1..(l - 1) : j > i /\ Revives(p[j].els, k)
             \/ \E j \in DOMAIN nf : Revives(nf[j], k)
  <2>1. i + 1 \in 1..l /\ Ends(q[i + 1].els, k)
    BY <1>1, <1>7
  <2>2. \/ \E j \in 1..l : j > i + 1 /\ Revives(q[j].els, k)
        \/ \E j \in DOMAIN nf : Revives(nf[j], k)
    BY <1>1, <1>7, <2>1 DEF Safe, Followed
  <2>3. ASSUME NEW j \in 1..l, j > i + 1, Revives(q[j].els, k)
        PROVE  j - 1 \in 1..(l - 1) /\ j - 1 > i /\ Revives(p[j - 1].els, k)
    BY <1>1, <1>2, <2>3
  <2> QED BY <2>2, <2>3
<1>8. Followed(m, nf, p, h, k)
  BY <1>1, <1>5, <1>7 DEF Safe, Followed
<1>9. Outstanding(m, nf, q, h, k) => Outstanding(m, nf, p, h, k)
  BY <1>1, <1>2, <1>6 DEF Outstanding
<1>10. Safe(m, nf, p, h, b, y, k)
  BY <1>8, <1>9 DEF Safe
<1> QED BY <1>10 DEF p

\* What is in hand is read.
LEMMA SafeRead ==
  ASSUME NEW m, NEW nf, NEW q, NEW h, NEW b, NEW c, NEW k, Safe(m, nf, q, h, b, FALSE, k),
         \/ Fits(m, c, k)
         \/ There(m, k) /\ Ends(h, k)
         \/ ~Said(m, h, k) /\ c = b
  PROVE  Safe(m, nf, q, <<>>, c, FALSE, k)
<1>1. Followed(m, nf, q, <<>>, k)
  BY NothingSaid DEF Safe, Followed
<1>2. CASE There(m, k) /\ Ends(h, k)
  <2>1. \A els : Revives(els, k) => Said(m, els, k)
    BY <1>2 DEF Revives, Said, Announces
  <2>2. Outstanding(m, nf, q, <<>>, k)
    BY <1>2, <2>1 DEF Safe, Followed, Outstanding
  <2> QED BY <1>1, <2>2 DEF Safe
<1>3. CASE ~Said(m, h, k) /\ c = b
  <2>1. Outstanding(m, nf, q, h, k) => Outstanding(m, nf, q, <<>>, k)
    BY <1>3 DEF Outstanding
  <2> QED BY <1>1, <1>3, <2>1 DEF Safe
<1>4. CASE Fits(m, c, k)
  BY <1>1, <1>4 DEF Safe
<1> QED BY <1>2, <1>3, <1>4

\* The object itself is read, or changes in what does not matter.
LEMMA SafeReread ==
  ASSUME NEW m, NEW nf, NEW q, NEW h, NEW b, NEW c, NEW y, NEW z, NEW k,
         Safe(m, nf, q, h, b, y, k), Fits(m, c, k) \/ (Alike(b, c) /\ z = y)
  PROVE  Safe(m, nf, q, h, c, z, k)
  BY AlikeFits DEF Safe

LEMMA SafeAtFirst ==
  ASSUME NEW m, NEW q, NEW b, NEW k, \A i \in DOMAIN q : q[i].els = <<>>
  PROVE  Safe(m, <<>>, q, <<>>, b, TRUE, k)
  BY NothingSaid DEF Safe, Followed

\* An administrator makes a change, and the metabase says so.
LEMMA SafeAdministered ==
  ASSUME Sane(mb), Sane(mb'), NEW k \in Object, NEW e, Tells(e), NEW z, NEW r,
         NEW nf, NEW mf, Extends(nf, mf, e, z, r),
         NEW q, NEW h, NEW b, NEW y, Safe(mb, nf, q, h, b, y, k)
  PROVE  Safe(mb', mf, q, h, b, y, k)
<1>1. CASE Kills(e, k)
  <2>1. ~There(mb', k) /\ Said(mb', mf[z], k)
    BY <1>1 DEF Tells, Extends, Said, Announces
  <2> QED BY <2>1 DEF Safe, Followed, Outstanding, Extends
<1>2. CASE Renews(e, k)
  <2>1. There(mb', k) /\ Said(mb', mf[z], k) /\ Revives(mf[z], k) /\ z \in DOMAIN mf
    BY <1>2 DEF Tells, Extends, Said, Announces, Revives
  <2>2. ~Ends(mf[z], k)
    <3> SUFFICES ASSUME NEW i \in DOMAIN mf[z], Kills(mf[z][i], k),
                        \A j \in DOMAIN mf[z] : j > i => ~Renews(mf[z][j], k)
                 PROVE  FALSE
      BY DEF Ends
    <3>1. i # r /\ r \in DOMAIN mf[z] /\ Renews(mf[z][r], k)
      BY <1>2 DEF Extends, Renews
    <3>2. i < r
      BY <3>1 DEF Extends
    <3> QED BY <3>1, <3>2
  <2>3. \A i \in DOMAIN mf : Ends(mf[i], k) => z > i
    BY <2>2 DEF Extends
  <2> QED BY <2>1, <2>3 DEF Safe, Followed, Outstanding
<1>3. CASE ~Kills(e, k) /\ ~Renews(e, k)
  <2>1. mb'[k] = mb[k] /\ (There(mb', k) <=> There(mb, k))
    BY <1>3 DEF Tells, There
  <2>2. \A c : Announces(mb', c, k) <=> Announces(mb, c, k)
    BY <2>1 DEF Announces
  <2>3. \A i \in DOMAIN nf : Said(mb, nf[i], k) => i \in DOMAIN mf /\ Said(mb', mf[i], k)
    BY <2>2 DEF Extends, Said
  <2>4. \A i \in DOMAIN nf : Revives(nf[i], k) => i \in DOMAIN mf /\ Revives(mf[i], k)
    BY DEF Extends, Revives
  <2>5. ASSUME NEW i \in DOMAIN mf, Ends(mf[i], k)
        PROVE  i \in DOMAIN nf /\ Ends(nf[i], k)
    <3>1. PICK j \in DOMAIN mf[i] : /\ Kills(mf[i][j], k)
                                    /\ \A u \in DOMAIN mf[i] : u > j => ~Renews(mf[i][u], k)
      BY <2>5 DEF Ends
    <3>2. mf[z][r] = e
      BY DEF Extends
    <3>3. ~(i = z /\ j = r)
      BY <1>3, <3>1, <3>2
    <3>4. i \in DOMAIN nf /\ j \in DOMAIN nf[i]
      BY <3>3 DEF Extends
    <3>5. /\ DOMAIN nf[i] \subseteq DOMAIN mf[i]
          /\ \A u \in DOMAIN nf[i] : mf[i][u] = nf[i][u]
      BY <3>4 DEF Extends
    <3> QED BY <3>1, <3>4, <3>5 DEF Ends
  <2>6. Followed(mb', mf, q, h, k)
    <3>1. ASSUME There(mb, k), NEW i \in DOMAIN mf, Ends(mf[i], k)
          PROVE  \E j \in DOMAIN mf : j > i /\ Revives(mf[j], k)
      BY <2>4, <2>5, <3>1 DEF Safe, Followed
    <3>2. (\E j \in DOMAIN nf : Revives(nf[j], k)) => (\E j \in DOMAIN mf : Revives(mf[j], k))
      BY <2>4
    <3> QED BY <2>1, <3>1, <3>2 DEF Safe, Followed
  <2>7. Outstanding(mb, nf, q, h, k) => Outstanding(mb', mf, q, h, k)
    <3>1. \A els : Said(mb, els, k) => Said(mb', els, k)
      BY <2>2 DEF Said
    <3> QED BY <2>3, <3>1 DEF Outstanding
  <2>8. Fits(mb, b, k) => Fits(mb', b, k) \/ Outstanding(mb', mf, q, h, k)
    <3>1. CASE ~There(mb, k)
      BY <2>1, <3>1 DEF Fits
    <3>2. CASE There(mb, k) /\ e.key = W3SVC /\ k \in Site
      <4>1. Said(mb', mf[z], k) /\ z \in DOMAIN mf
        BY <2>1, <3>2 DEF Said, Announces, Extends
      <4> QED BY <4>1 DEF Outstanding
    <3>3. CASE There(mb, k) /\ ~(e.key = W3SVC /\ k \in Site)
      <4>1. Effective(mb', k) = Effective(mb, k)
        BY <2>1, <3>3 DEF Effective, Tells, Sane, Object
      <4> QED BY <2>1, <4>1 DEF Fits
    <3> QED BY <3>1, <3>2, <3>3
  <2> QED BY <2>6, <2>7, <2>8 DEF Safe
<1> QED BY <1>1, <1>2, <1>3

-----------------------------------------------------------------------------
(***************************************************************************)
(* The invariant.  While WAS is hooked to the inetinfo it talks to, and is *)
(* starting, reading everything again or processing changes, every object  *)
(* is safe.                                                                *)
(***************************************************************************)
InSync == Alive(cm.abo) /\ cm.hooked = cm.abo
Tracked ==
  InSync /\ (Starting \/ ct.rehook \/ (cm.ProcessChanges /\ cm.ThreadProcessingDisabled = 0))
Reading == ct.pc \in {"drop", "readPools", "readSites", "readApps", "finish"}
MainToRead(k) ==
  \/ main.pc \in {"wait", "readPools"}
  \/ main.pc = "readSites" /\ k \notin Pool
  \/ main.pc = "readApps" /\ k \in App
NotYet(k) == MainToRead(k) \/ (ct.rehook /\ ToBeRead(k))
Held(k) == IF ToBeRead(k) THEN ct.els ELSE <<>>
Base(k) ==
  IF ct.rehook \/ (Reading /\ ~ToBeRead(k) /\ Present(ct.temp[k])) THEN ct.temp[k] ELSE table[k]
LossInv ==
  Tracked => \A k \in Object : Safe(mb, notif, queue, Held(k), Base(k), NotYet(k), k)

Unread ==
  /\ \A k \in Object : MainToRead(k) => ~Present(table[k])
  /\ \A k \in Object : ToBeRead(k) => ~Present(ct.temp[k])
Elements ==
  /\ \A i \in DOMAIN notif : AllProper(notif[i])
  /\ \A i \in DOMAIN queue : /\ AllProper(queue[i].els)
                             /\ queue[i].op # "change" => queue[i].els = <<>>
  /\ AllProper(ct.els) /\ (ct.rehook => ct.els = <<>>)
SameInetinfo == InSync /\ Reading => ct.abo = cm.abo
DataInv == Unread /\ Elements /\ SameInetinfo /\ Sane(mb)
Ground == ConfigInv /\ RecoveryInv /\ WasInv /\ HookInv /\ DataInv

LEMMA LossKept ==
  ASSUME LossInv, Tracked' => Tracked, UNCHANGED <<mb, notif, queue>>,
         \A k \in Object : Held(k)' = Held(k) /\ Base(k)' = Base(k) /\ NotYet(k)' = NotYet(k)
  PROVE  LossInv'
<1> SUFFICES ASSUME Tracked', NEW k \in Object
             PROVE  Safe(mb, notif, queue, Held(k)', Base(k)', NotYet(k)', k)
  BY DEF LossInv
<1>1. Safe(mb, notif, queue, Held(k), Base(k), NotYet(k), k)
  BY DEF LossInv
<1>2. Held(k)' = Held(k) /\ Base(k)' = Base(k) /\ NotYet(k)' = NotYet(k)
  OBVIOUS
<1> QED BY <1>1, <1>2

\* Threads that change neither the tables nor what is said.
LEMMA SameParts ==
  ASSUME UNCHANGED <<ct, main, table>>
  PROVE  /\ Starting' = Starting /\ Reading' = Reading
         /\ \A k : Held(k)' = Held(k) /\ Base(k)' = Base(k) /\ NotYet(k)' = NotYet(k)
                   /\ ToBeRead(k)' = ToBeRead(k) /\ MainToRead(k)' = MainToRead(k)
  BY DEF Starting, Reading, Held, Base, NotYet, ToBeRead, MainToRead

LEMMA MonitorLoss ==
  ASSUME Ground, LossInv, MonitorThread \/ StopService
  PROVE  DataInv' /\ LossInv'
<1>0. cm \in Fields /\ cm.ThreadProcessingDisabled \in Nat
  BY ConfigTypeParts DEF Ground, ConfigInv, Fields
<1>1. UNCHANGED <<mb, inetinfo, notif, ct, queue, main, table>>
  BY DEF MonitorThread, RecordInetinfoCrash, MonitorActionRehook, MonitorActionShutdown,
     QueueRecoveryFromInetinfoCrash, RecordInetinfoMonitorStopped, MonitorUnchanged,
     StopService, MainUnchanged
<1>2. /\ cm'.abo = cm.abo /\ cm'.hooked = cm.hooked /\ cm'.ProcessChanges = cm.ProcessChanges
      /\ cm'.ThreadProcessingDisabled \in
           {cm.ThreadProcessingDisabled, cm.ThreadProcessingDisabled + 1}
  BY <1>0 DEF MonitorThread, RecordInetinfoCrash, MonitorActionRehook, MonitorActionShutdown,
     QueueRecoveryFromInetinfoCrash, RecordInetinfoMonitorStopped, StopService,
     RequestStopService, Fields
<1>3. InSync' <=> InSync
  BY <1>1, <1>2 DEF InSync, Alive
<1>4. Tracked' => Tracked
  BY <1>0, <1>1, <1>2, <1>3 DEF Tracked, Starting
<1>5. Unread'
  BY <1>1 DEF Ground, DataInv, Unread, MainToRead, ToBeRead
<1>6. Elements'
  BY <1>1 DEF Ground, DataInv, Elements
<1>7. SameInetinfo' /\ Sane(mb)'
  BY <1>1, <1>2, <1>3 DEF Ground, DataInv, SameInetinfo, Reading
<1>8. LossInv'
  BY <1>1, <1>4, SameParts, LossKept
<1> QED BY <1>5, <1>6, <1>7, <1>8 DEF DataInv

LEMMA AdministrationLoss ==
  ASSUME RootsKeepData, Ground, LossInv, Administration
  PROVE  DataInv' /\ LossInv'
<1>0. notif \in Seq(Seq(Element)) /\ ConfigInv /\ Sane(mb)
  BY DEF Ground, ConfigInv, TypeOK, DataInv
<1>1. PICK e : Tells(e)
  BY <1>0, AdministrationTold
<1>2. Sane(mb') /\ UNCHANGED <<inetinfo, monitor, cm, ct, queue, main, mq, table, was>>
  BY <1>0, AdministrationTold
<1>3. e \in Element /\ Proper(e) /\ (Notify(e) \/ NotifyTogether(e))
  BY <1>1 DEF Tells
<1>4. (InSync' <=> InSync) /\ (Tracked' <=> Tracked)
  BY <1>2 DEF InSync, Alive, Tracked, Starting
<1>5. Unread' /\ SameInetinfo'
  BY <1>2, <1>4 DEF Ground, DataInv, Unread, MainToRead, ToBeRead, SameInetinfo, Reading
<1>6. CASE cm.hooked # inetinfo.life
  <2>1. notif' = notif
    BY <1>3, <1>6 DEF Notify, NotifyTogether
  <2>2. ~Tracked
    BY <1>6 DEF Tracked, InSync, Alive
  <2>3. Elements'
    BY <1>2, <2>1 DEF Ground, DataInv, Elements
  <2> QED BY <1>2, <1>4, <1>5, <2>2, <2>3 DEF DataInv, LossInv
<1>7. CASE cm.hooked = inetinfo.life
  <2>1. PICK z, r : Extends(notif, notif', e, z, r)
    BY <1>0, <1>3, <1>7, NotifExtended
  <2>2. Elements'
    <3>1. ASSUME NEW i \in DOMAIN notif' PROVE AllProper(notif'[i])
      <4> SUFFICES ASSUME NEW j \in DOMAIN notif'[i] PROVE Proper(notif'[i][j])
        BY DEF AllProper
      <4>1. CASE i = z /\ j = r
        BY <1>3, <2>1, <4>1 DEF Extends
      <4>2. CASE i \in DOMAIN notif /\ j \in DOMAIN notif[i]
        BY <2>1, <4>2 DEF Extends, Ground, DataInv, Elements, AllProper
      <4> QED BY <2>1, <4>1, <4>2 DEF Extends
    <3> QED BY <1>2, <3>1 DEF Ground, DataInv, Elements
  <2>3. LossInv'
    <3> SUFFICES ASSUME Tracked', NEW k \in Object
                 PROVE  Safe(mb', notif', queue', Held(k)', Base(k)', NotYet(k)', k)
      BY DEF LossInv
    <3>1. Safe(mb, notif, queue, Held(k), Base(k), NotYet(k), k)
      BY <1>4 DEF LossInv
    <3>2. Safe(mb', notif', queue, Held(k), Base(k), NotYet(k), k)
      BY <1>0, <1>1, <1>2, <2>1, <3>1, SafeAdministered
    <3>3. Held(k)' = Held(k) /\ Base(k)' = Base(k) /\ NotYet(k)' = NotYet(k)
      BY <1>2, SameParts
    <3> QED BY <1>2, <3>2, <3>3
  <2> QED BY <1>2, <1>5, <2>2, <2>3 DEF DataInv
<1> QED BY <1>6, <1>7

LEMMA InitialSane == Sane(InitialMetabase)
  BY ValuesAssumption DEF Sane, There

LEMMA InetinfoLoss ==
  ASSUME MaxCrashes <= 1, Ground, LossInv, Crash \/ Restart \/ StartMBChangeItem
  PROVE  DataInv' /\ LossInv'
<1>0. /\ inetinfo.life \in {1, 2} /\ (~inetinfo.up => inetinfo.life = 1)
      /\ inetinfo \in [up : BOOLEAN, life : Life]
      /\ queue \in Seq(QueueItems) /\ notif \in Seq(Seq(Element))
      /\ cm.abo <= inetinfo.life /\ cm.abo \in {1, 2}
  BY TwoLives DEF Ground, HookInv, Hooks
<1>1. UNCHANGED <<cm, ct, main, mq, table>>
  BY DEF Crash, Restart, StartMBChangeItem
<1>2. Unread'
  BY <1>1 DEF Ground, DataInv, Unread, MainToRead, ToBeRead
<1>3. CASE Crash
  <2>1. /\ inetinfo' = [inetinfo EXCEPT !.up = FALSE] /\ notif' = <<>> /\ queue' = queue
        /\ mb' \in {mb, InitialMetabase}
    BY <1>3 DEF Crash
  <2>2. ~InSync'
    BY <1>0, <2>1 DEF InSync, Alive
  <2>3. Sane(mb')
    BY <2>1, InitialSane DEF Ground, DataInv
  <2>4. Elements'
    BY <1>1, <2>1 DEF Ground, DataInv, Elements
  <2> QED BY <1>2, <2>2, <2>3, <2>4 DEF DataInv, SameInetinfo, LossInv, Tracked
<1>4. CASE Restart
  <2>1. /\ inetinfo' = [up |-> TRUE, life |-> inetinfo.life + 1] /\ UNCHANGED <<mb, notif, queue>>
        /\ ~inetinfo.up
    BY <1>4 DEF Restart
  <2>2. ~InSync'
    BY <1>0, <1>1, <2>1 DEF InSync, Alive
  <2>3. Elements' /\ Sane(mb')
    BY <1>1, <2>1 DEF Ground, DataInv, Elements
  <2> QED BY <1>2, <2>2, <2>3 DEF DataInv, SameInetinfo, LossInv, Tracked
<1>5. CASE StartMBChangeItem
  <2>1. /\ notif # <<>> /\ notif' = Tail(notif) /\ queue' = Append(queue, MBChange(Head(notif)))
        /\ UNCHANGED <<mb, inetinfo>>
    BY <1>5 DEF StartMBChangeItem
  <2>2. (InSync' <=> InSync) /\ (Tracked' <=> Tracked)
    BY <1>1, <2>1 DEF InSync, Alive, Tracked, Starting
  <2>3. SameInetinfo' /\ Sane(mb')
    BY <1>1, <2>1, <2>2 DEF Ground, DataInv, SameInetinfo, Reading
  <2>4. Elements'
    <3>1. /\ \A i \in DOMAIN Tail(notif) : i + 1 \in DOMAIN notif /\ Tail(notif)[i] = notif[i + 1]
          /\ 1 \in DOMAIN notif /\ Head(notif) = notif[1]
      BY <1>0, <2>1
    <3>2. LET q == Append(queue, MBChange(Head(notif)))
          IN \A i \in DOMAIN q : \/ i \in DOMAIN queue /\ q[i] = queue[i]
                                 \/ q[i] = MBChange(Head(notif))
      BY <1>0
    <3>3. MBChange(Head(notif)).els = Head(notif) /\ MBChange(Head(notif)).op = "change"
      BY DEF MBChange
    <3>4. \A i \in DOMAIN notif : AllProper(notif[i])
      BY DEF Ground, DataInv, Elements
    <3>5. AllProper(ct.els)' /\ (ct.rehook => ct.els = <<>>)'
      BY <1>1 DEF Ground, DataInv, Elements
    <3>6. \A i \in DOMAIN notif' : AllProper(notif'[i])
      BY <2>1, <3>1, <3>4
    <3>7. \A i \in DOMAIN queue' : /\ AllProper(queue'[i].els)
                                   /\ queue'[i].op # "change" => queue'[i].els = <<>>
      BY <2>1, <3>1, <3>2, <3>3, <3>4 DEF Ground, DataInv, Elements
    <3> QED BY <3>5, <3>6, <3>7 DEF Elements
  <2>5. LossInv'
    <3> SUFFICES ASSUME Tracked', NEW k \in Object
                 PROVE  Safe(mb', notif', queue', Held(k)', Base(k)', NotYet(k)', k)
      BY DEF LossInv
    <3>1. Safe(mb, notif, queue, Held(k), Base(k), NotYet(k), k)
      BY <2>2 DEF LossInv
    <3>2. Safe(mb, notif', queue', Held(k), Base(k), NotYet(k), k)
      BY <1>0, <2>1, <3>1, SafeDelivered
    <3>3. Held(k)' = Held(k) /\ Base(k)' = Base(k) /\ NotYet(k)' = NotYet(k)
      BY <1>1, SameParts
    <3> QED BY <2>1, <3>2, <3>3
  <2> QED BY <1>2, <2>3, <2>4, <2>5 DEF DataInv
<1> QED BY <1>3, <1>4, <1>5

\* What the invariants say of the config thread and of the main thread.
LEMMA GroundFacts ==
  ASSUME MaxCrashes <= 1, Ground
  PROVE  /\ TypeOK /\ cm \in Fields /\ ct \in Threads /\ queue \in Seq(QueueItems)
         /\ notif \in Seq(Seq(Element)) /\ mq \in Seq(MainItems)
         /\ mb \in Metabases /\ table \in Tables /\ ct.temp \in Tables /\ ct.els \in Seq(Element)
         /\ inetinfo.life \in {1, 2} /\ cm.abo \in {1, 2} /\ cm.ThreadProcessingDisabled \in Nat
         /\ Starting => ct.pc \in {"listen", "blocked"}
         /\ ct.rehook => ct.pc \in {"readPools", "readSites", "readApps", "finish"}
         /\ ct.rehook => cm.ThreadProcessingDisabled # 0
         /\ \A k : MainToRead(k) => Starting
<1>1. TypeOK /\ ct.rehook \in BOOLEAN /\ cm.ThreadProcessingDisabled \in Nat
  BY DEF Ground, ConfigInv, TypeOK
<1>2. ct.rehook => cm.ThreadProcessingDisabled # 0
  <2>1. Unrecovered \in Nat /\ Number(queue, "rehook") \in Nat
    BY <1>1, TallyNat
  <2>2. cm.ThreadProcessingDisabled >= Unfinished
    BY DEF Ground, ConfigInv, Tallies
  <2> QED BY <1>1, <2>1, <2>2 DEF Unfinished
<1>3. Starting => ct.pc \in {"listen", "blocked"}
  BY DEF Ground, WasInv, Beginning
<1>4. ct.rehook => ct.pc \in {"readPools", "readSites", "readApps", "finish"}
  BY DEF Ground, RecoveryInv, InHand
<1>5. \A k : MainToRead(k) => Starting
  BY DEF MainToRead, Starting
<1>6. cm.abo \in {1, 2} /\ inetinfo.life \in {1, 2}
  BY TwoLives DEF Ground, HookInv, Hooks
<1> QED BY <1>1, <1>2, <1>3, <1>4, <1>5, <1>6, TypeParts, ConfigTypeParts DEF TypeOK

LEMMA TailElements ==
  ASSUME Elements, NEW Y, queue \in Seq(Y), queue # <<>>, queue' = Tail(queue), notif' = notif,
         AllProper(ct.els)', (ct.rehook => ct.els = <<>>)'
  PROVE  Elements'
<1>1. \A i \in DOMAIN Tail(queue) : i + 1 \in DOMAIN queue /\ Tail(queue)[i] = queue[i + 1]
  OBVIOUS
<1>2. \A i \in DOMAIN queue' : /\ AllProper(queue'[i].els)
                               /\ queue'[i].op # "change" => queue'[i].els = <<>>
  BY <1>1 DEF Elements
<1> QED BY <1>2 DEF Elements

LEMMA HeadElements ==
  ASSUME Elements, NEW Y, queue \in Seq(Y), queue # <<>>
  PROVE  AllProper(Head(queue).els) /\ (Head(queue).op # "change" => Head(queue).els = <<>>)
<1>1. 1 \in DOMAIN queue /\ Head(queue) = queue[1]
  OBVIOUS
<1> QED BY <1>1 DEF Elements

LEMMA NothingToDoLoss ==
  /\ NothingToDo.pc = "loop" /\ ~NothingToDo.rehook /\ NothingToDo.els = <<>>
  /\ NothingToDo.temp = EmptyTable
  BY DEF NothingToDo

LEMMA EmptyAbsent == \A k \in Object : ~Present(EmptyTable[k])
  BY NoObjectFacts DEF EmptyTable

\* An idle config thread.
Idle == ~ct.rehook /\ ct.pc \notin {"drop", "readPools", "readSites", "readApps", "finish"}
LEMMA IdleFacts ==
  ASSUME Idle
  PROVE  /\ ~Reading
         /\ \A k : /\ ~ToBeRead(k) /\ Held(k) = <<>> /\ Base(k) = table[k]
                   /\ NotYet(k) = MainToRead(k)
<1>1. ~Reading /\ \A k : ~ToBeRead(k)
  BY DEF Idle, Reading, ToBeRead
<1>2. ~ct.rehook
  BY DEF Idle
<1>3. \A k : NotYet(k) <=> MainToRead(k)
  BY <1>2 DEF NotYet
<1>4. \A k : MainToRead(k) \in BOOLEAN /\ NotYet(k) \in BOOLEAN
  BY DEF MainToRead, NotYet
<1> QED BY <1>1, <1>2, <1>3, <1>4 DEF Held, Base

LEMMA IdleNext ==
  ASSUME Idle'
  PROVE  /\ ~Reading'
         /\ \A k : /\ ~ToBeRead(k)' /\ Held(k)' = <<>> /\ Base(k)' = table'[k]
                   /\ NotYet(k)' = MainToRead(k)'
<1>1. ~Reading' /\ \A k : ~ToBeRead(k)'
  BY DEF Idle, Reading, ToBeRead
<1>2. ~ct'.rehook
  BY DEF Idle
<1>3. \A k : NotYet(k)' <=> MainToRead(k)'
  BY <1>2 DEF NotYet
<1>4. \A k : MainToRead(k)' \in BOOLEAN /\ NotYet(k)' \in BOOLEAN
  BY DEF MainToRead, NotYet
<1> QED BY <1>1, <1>2, <1>3, <1>4 DEF Held, Base

\* The config thread begins to listen, and takes items from its queue.
LEMMA ListenLoss ==
  ASSUME MaxCrashes <= 1, Ground, LossInv,
         StartListeningForChangeNotifications \/ Unblock \/ CheckExitWorkLoop
  PROVE  DataInv' /\ LossInv'
<1>0. /\ cm \in Fields /\ ct \in Threads /\ cm.abo \in {1, 2} /\ inetinfo.life \in {1, 2}
      /\ ct.rehook => ct.pc \in {"readPools", "readSites", "readApps", "finish"}
  BY GroundFacts
<1>1. /\ ct.pc \in {"listen", "blocked", "loop"}
      /\ UNCHANGED <<mb, inetinfo, notif, queue, main, table>>
      /\ \E pc \in {"blocked", "loop", "wait", "exited"} : ct' = [ct EXCEPT !.pc = pc]
  BY DEF StartListeningForChangeNotifications, Unblock, CheckExitWorkLoop, ConfigUnchanged
<1>2. /\ ct'.pc \in {"blocked", "loop", "wait", "exited"} /\ ct'.els = ct.els
      /\ ct'.rehook = ct.rehook /\ ct'.temp = ct.temp
  BY <1>0, <1>1 DEF Threads
<1>3. Idle /\ Idle'
  BY <1>0, <1>1, <1>2 DEF Idle
<1>4. ~Reading' /\ \A k : ~ToBeRead(k)'
  BY <1>2 DEF Reading, ToBeRead
<1>5. Unread' /\ SameInetinfo' /\ Sane(mb')
  BY <1>1, <1>4 DEF Ground, DataInv, Unread, MainToRead, SameInetinfo
<1>6. Elements'
  BY <1>1, <1>2 DEF Ground, DataInv, Elements
<1>7. CASE StartListeningForChangeNotifications
  <2>1. queue = <<>> /\ notif = <<>> /\ main.pc = "wait"
    BY <1>0, <1>7 DEF StartListeningForChangeNotifications, Ground, HookInv, Hooks
  <2>2. ASSUME NEW k \in Object
        PROVE  Safe(mb', notif', queue', Held(k)', Base(k)', NotYet(k)', k)
    <3>1. Held(k)' = <<>>
      BY <1>4 DEF Held
    <3>2. NotYet(k)' = TRUE
      BY <1>1, <2>1 DEF NotYet, MainToRead
    <3>3. Safe(mb', <<>>, <<>>, <<>>, Base(k)', TRUE, k)
      <4> DEFINE q == queue
                 b == Base(k)'
                 m == mb'
      <4>1. \A i \in DOMAIN q : q[i].els = <<>>
        BY <2>1
      <4> HIDE DEF q, b, m
      <4>2. Safe(m, <<>>, q, <<>>, b, TRUE, k)
        BY <4>1, SafeAtFirst
      <4> QED BY <2>1, <4>2 DEF q, b, m
    <3> QED BY <1>1, <2>1, <3>1, <3>2, <3>3
  <2> QED BY <1>5, <1>6, <2>2 DEF DataInv, LossInv
<1>8. CASE CheckExitWorkLoop /\ cm.ExitWorkLoop
  <2>1. cm' = [cm EXCEPT !.hooked = IF cm.abo = @ THEN 0 ELSE @]
    BY <1>8 DEF CheckExitWorkLoop
  <2>2. cm'.hooked # cm'.abo
    BY <1>0, <2>1 DEF Fields
  <2> QED BY <1>5, <1>6, <2>2 DEF DataInv, LossInv, Tracked, InSync
<1>9. CASE Unblock \/ (CheckExitWorkLoop /\ ~cm.ExitWorkLoop)
  <2>1. cm' = cm
    BY <1>9 DEF Unblock, CheckExitWorkLoop
  <2>2. Tracked' => Tracked
    BY <1>1, <1>2, <2>1 DEF Tracked, InSync, Alive, Starting
  <2>3. ASSUME NEW k \in Object
        PROVE  Held(k)' = Held(k) /\ Base(k)' = Base(k) /\ NotYet(k)' = NotYet(k)
    <3>1. Held(k)' = <<>> /\ Base(k)' = table'[k] /\ NotYet(k)' = MainToRead(k)'
      BY <1>3, IdleNext
    <3>2. Held(k) = <<>> /\ Base(k) = table[k] /\ NotYet(k) = MainToRead(k)
      BY <1>3, IdleFacts
    <3>3. MainToRead(k)' = MainToRead(k)
      BY <1>1 DEF MainToRead
    <3> QED BY <1>1, <3>1, <3>2, <3>3
  <2> QED BY <1>1, <1>5, <1>6, <2>2, <2>3, LossKept DEF DataInv
<1> QED BY <1>7, <1>8, <1>9

LEMMA ProcessingLoss ==
  ASSUME ct \in Threads, NEW els, NEW b \in BOOLEAN
  PROVE  /\ Processing(els, b).pc = IF b THEN "readPools" ELSE "drop"
         /\ Processing(els, b).abo = cm.abo /\ Processing(els, b).els = els
         /\ Processing(els, b).rehook = b /\ Processing(els, b).temp = EmptyTable
  BY DEF Processing, Threads

LEMMA DequeueLoss ==
  ASSUME MaxCrashes <= 1, Ground, LossInv,
         \/ ProcessMetabaseChangeOnConfigThread \/ ProcessMetabaseCrashOnConfigThread
         \/ ExitChangeThreadItem
  PROVE  DataInv' /\ LossInv'
<1>0. /\ TypeOK /\ cm \in Fields /\ ct \in Threads /\ queue \in Seq(QueueItems)
      /\ cm.abo \in {1, 2} /\ inetinfo.life \in {1, 2}
      /\ ct.rehook => ct.pc \in {"readPools", "readSites", "readApps", "finish"}
      /\ Starting => ct.pc \in {"listen", "blocked"}
      /\ \A k : MainToRead(k) => Starting
  BY GroundFacts
<1>1. /\ ct.pc = "wait" /\ queue # <<>> /\ queue' = Tail(queue)
      /\ UNCHANGED <<mb, inetinfo, notif, main, table>>
  BY DEF ProcessMetabaseChangeOnConfigThread, ProcessMetabaseCrashOnConfigThread,
     ExitChangeThreadItem, Dequeue, ConfigUnchanged
<1>2. ~Starting /\ ~Starting' /\ ~ct.rehook /\ Idle /\ \A k : ~MainToRead(k)
  BY <1>0, <1>1 DEF Idle, Starting
<1>3. \A k : ~MainToRead(k)'
  BY <1>1, <1>2 DEF MainToRead
<1>4. /\ Elements /\ AllProper(Head(queue).els)
      /\ Head(queue).op # "change" => Head(queue).els = <<>>
  BY <1>0, <1>1, HeadElements DEF Ground, DataInv
<1>5. Sane(mb')
  BY <1>1 DEF Ground, DataInv
<1>6. AllProper(<<>>)
  BY DEF AllProper
<1>7. \A k : ~(ct.rehook /\ ToBeRead(k)) /\ NotYet(k) = FALSE
  BY <1>2 DEF NotYet
<1>8. ASSUME Tracked, NEW k \in Object
      PROVE  Safe(mb, notif, Tail(queue), Head(queue).els, table[k], FALSE, k)
  <2>1. Safe(mb, notif, queue, Held(k), Base(k), NotYet(k), k)
    BY <1>8 DEF LossInv
  <2>2. Held(k) = <<>> /\ Base(k) = table[k] /\ NotYet(k) = FALSE
    BY <1>2, <1>7, IdleFacts
  <2>3. Safe(mb, notif, queue, <<>>, table[k], FALSE, k)
    BY <2>1, <2>2
  <2> QED BY <1>0, <1>1, <2>3, SafeTaken
\* The item is thrown away, or has nothing to say.
<1>9. ASSUME ct' = NothingToDo, cm' = cm,
             \/ ~cm.ProcessChanges \/ cm.ThreadProcessingDisabled # 0
             \/ Head(queue).els = <<>>
      PROVE  DataInv' /\ LossInv'
  <2>1. ct'.pc = "loop" /\ ~ct'.rehook /\ ct'.els = <<>> /\ ct'.temp = EmptyTable
    BY <1>9, NothingToDoLoss
  <2>2. Idle'
    BY <2>1 DEF Idle
  <2>3. Unread' /\ SameInetinfo'
    BY <1>3, <2>2, IdleNext DEF Unread, SameInetinfo
  <2>4. Elements'
    BY <1>0, <1>1, <1>4, <1>6, <2>1, TailElements
  <2>5. LossInv'
    <3> SUFFICES ASSUME Tracked', NEW k \in Object
                 PROVE  Safe(mb', notif', queue', Held(k)', Base(k)', NotYet(k)', k)
      BY DEF LossInv
    <3>1. Tracked /\ cm.ProcessChanges /\ cm.ThreadProcessingDisabled = 0
      BY <1>1, <1>2, <1>9, <2>1 DEF Tracked, InSync, Alive
    <3>2. Safe(mb, notif, Tail(queue), <<>>, table[k], FALSE, k)
      BY <1>8, <1>9, <3>1
    <3>3. Held(k)' = <<>> /\ Base(k)' = table'[k]
      BY <2>2, IdleNext
    <3>4. NotYet(k)' = FALSE
      BY <1>3, <2>1 DEF NotYet
    <3> QED BY <1>1, <3>2, <3>3, <3>4
  <2> QED BY <1>5, <2>3, <2>4, <2>5 DEF DataInv
<1>10. CASE ProcessMetabaseChangeOnConfigThread
  <2>1. cm' = cm
    BY <1>10 DEF ProcessMetabaseChangeOnConfigThread
  <2>2. CASE ~cm.ProcessChanges \/ cm.ThreadProcessingDisabled # 0
    BY <1>9, <1>10, <2>1, <2>2 DEF ProcessMetabaseChangeOnConfigThread
  <2>3. CASE ~(~cm.ProcessChanges \/ cm.ThreadProcessingDisabled # 0)
    <3>1. ct' = Processing(Head(queue).els, FALSE)
      BY <1>10, <2>3 DEF ProcessMetabaseChangeOnConfigThread
    <3>2. /\ ct'.pc = "drop" /\ ct'.abo = cm.abo /\ ct'.els = Head(queue).els
          /\ ~ct'.rehook /\ ct'.temp = EmptyTable
      BY <1>0, <3>1, ProcessingLoss
    <3>3. Unread' /\ SameInetinfo'
      BY <1>3, <2>1, <3>2, EmptyAbsent DEF Unread, SameInetinfo
    <3>4. Elements'
      BY <1>0, <1>1, <1>4, <3>2, TailElements
    <3>5. LossInv'
      <4> SUFFICES ASSUME Tracked', NEW k \in Object
                   PROVE  Safe(mb', notif', queue', Held(k)', Base(k)', NotYet(k)', k)
        BY DEF LossInv
      <4>1. Tracked
        BY <1>1, <1>2, <2>1, <3>2 DEF Tracked, InSync, Alive
      <4>2. Safe(mb, notif, Tail(queue), Head(queue).els, table[k], FALSE, k)
        BY <1>8, <4>1
      <4>3. ToBeRead(k)'
        BY <3>2 DEF ToBeRead
      <4>4. Held(k)' = Head(queue).els /\ Base(k)' = table[k]
        BY <1>1, <3>2, <4>3 DEF Held, Base
      <4>5. NotYet(k)' = FALSE
        BY <1>3, <3>2 DEF NotYet
      <4> QED BY <1>1, <4>2, <4>4, <4>5
    <3> QED BY <1>5, <3>3, <3>4, <3>5 DEF DataInv
  <2> QED BY <2>2, <2>3
<1>11. CASE ExitChangeThreadItem
  <2>1. ct' = NothingToDo /\ cm' = cm /\ Head(queue).op = "exit"
    BY <1>11 DEF ExitChangeThreadItem, Dequeue
  <2>2. Head(queue).els = <<>>
    BY <1>4, <2>1
  <2> QED BY <1>9, <2>1, <2>2
<1>12. CASE ProcessMetabaseCrashOnConfigThread
  <2>1. Dequeue("rehook") /\ StartListening
    BY <1>12 DEF ProcessMetabaseCrashOnConfigThread
  <2>2. Number(queue, "rehook") # 0 /\ Head(queue).op = "rehook"
    <3>1. Number(queue, "rehook") = Number(queue', "rehook") + 1 /\ Head(queue).op = "rehook"
          /\ queue' \in Seq(QueueItems)
      BY <1>0, <2>1, DequeueType
    <3>2. Number(queue', "rehook") \in Nat
      BY <3>1, NumberNat
    <3> QED BY <3>1, <3>2
  <2>3. Alive(cm.abo) /\ cm.abo = 2 /\ inetinfo.life = 2
    BY <2>2, StillAnswers DEF Ground, Alive
  <2>4. ct' = Processing(<<>>, TRUE)
    BY <1>12, <2>3 DEF ProcessMetabaseCrashOnConfigThread
  <2>5. /\ ct'.pc = "readPools" /\ ct'.abo = cm.abo /\ ct'.els = <<>>
        /\ ct'.rehook /\ ct'.temp = EmptyTable
    BY <1>0, <2>4, ProcessingLoss
  <2>6. cm'.abo = cm.abo
    BY <1>0, <2>1 DEF StartListening, Fields
  <2>7. Unread' /\ SameInetinfo'
    BY <1>3, <2>5, <2>6, EmptyAbsent DEF Unread, SameInetinfo
  <2>8. Elements'
    BY <1>0, <1>1, <1>4, <1>6, <2>5, TailElements
  <2>9. 1 \in DOMAIN queue /\ queue[1].op = "rehook"
    BY <1>0, <1>1, <2>2
  <2>10. cm.hooked # 2 /\ Silent(queue, 1)
    BY <1>1, <2>9 DEF Ground, HookInv, OneRehook
  <2>11. notif = <<>>
    BY <1>1, <2>3, <2>10 DEF Ground, HookInv, Hooks
  <2>12. \A i \in DOMAIN queue' : queue'[i].els = <<>>
    <3>1. \A i \in DOMAIN Tail(queue) : i + 1 \in DOMAIN queue /\ Tail(queue)[i] = queue[i + 1]
                                        /\ i + 1 > 1
      BY <1>0, <1>1
    <3> QED BY <1>1, <2>10, <3>1 DEF Silent
  <2>13. LossInv'
    <3> SUFFICES ASSUME NEW k \in Object
                 PROVE  Safe(mb', notif', queue', Held(k)', Base(k)', NotYet(k)', k)
      BY DEF LossInv
    <3> DEFINE q == queue'
               b == Base(k)'
               m == mb'
    <3>1. \A i \in DOMAIN q : q[i].els = <<>>
      BY <2>12
    <3> HIDE DEF q, b, m
    <3>2. Safe(m, <<>>, q, <<>>, b, TRUE, k)
      BY <3>1, SafeAtFirst
    <3>3. Held(k)' = <<>>
      BY <2>5 DEF Held
    <3>4. NotYet(k)' = TRUE
      BY <2>5 DEF NotYet, ToBeRead
    <3> QED BY <1>1, <2>11, <3>2, <3>3, <3>4 DEF q, b, m
  <2> QED BY <1>5, <2>7, <2>8, <2>13 DEF DataInv
<1> QED BY <1>10, <1>11, <1>12

LEMMA DropLoss ==
  ASSUME MaxCrashes <= 1, Ground, LossInv,
         DropAllUninterestingMBChanges \/ CreateTempDataObjectTables
  PROVE  DataInv' /\ LossInv'
<1>0. /\ ct \in Threads /\ queue \in Seq(QueueItems) /\ ct.els \in Seq(Element)
      /\ ct.rehook => ct.pc \in {"readPools", "readSites", "readApps", "finish"}
      /\ \A k : MainToRead(k) => Starting
      /\ Starting => ct.pc \in {"listen", "blocked"}
  BY GroundFacts
<1>1. /\ ct.pc = "drop" /\ UNCHANGED <<mb, inetinfo, notif, main, table, cm>>
  BY DEF DropAllUninterestingMBChanges, CreateTempDataObjectTables, ConfigUnchanged
<1>2. ~ct.rehook /\ \A k : ToBeRead(k)
  BY <1>0, <1>1 DEF ToBeRead
<1>3. CASE DropAllUninterestingMBChanges
  <2>1. /\ queue' = Tail(queue) /\ ct' = ct /\ Len(ct.els) = 1
        /\ ct.els[1].type \in {{"SET"}, {"ADD"}, {"SET", "ADD"}}
        /\ queue # <<>> /\ Len(Head(queue).els) = 1 /\ Head(queue).els[1].type = {"SET"}
        /\ Head(queue).els[1].key = ct.els[1].key
    BY <1>3 DEF DropAllUninterestingMBChanges, Droppable, CanIgnoreWorkItem
  <2>2. DOMAIN ct.els = {1} /\ DOMAIN Head(queue).els = {1}
    <3>1. Head(queue) \in QueueItems
      BY <1>0, <2>1
    <3>2. Head(queue).els \in Seq(Element)
      BY <3>1 DEF QueueItems
    <3> QED BY <1>0, <2>1, <3>2
  <2>3. Unread' /\ SameInetinfo' /\ Sane(mb')
    BY <1>1, <2>1 DEF Ground, DataInv, Unread, MainToRead, ToBeRead, SameInetinfo, InSync,
       Alive, Reading
  <2>4. Elements'
    <3>1. AllProper(ct.els)' /\ (ct.rehook => ct.els = <<>>)'
      BY <2>1 DEF Ground, DataInv, Elements
    <3> QED BY <1>0, <1>1, <2>1, <3>1, TailElements DEF Ground, DataInv
  <2>5. LossInv'
    <3> SUFFICES ASSUME Tracked', NEW k \in Object
                 PROVE  Safe(mb', notif', queue', Held(k)', Base(k)', NotYet(k)', k)
      BY DEF LossInv
    <3>1. Tracked
      BY <1>1, <2>1 DEF Tracked, InSync, Alive, Starting
    <3>2. Safe(mb, notif, queue, Held(k), Base(k), NotYet(k), k)
      BY <3>1 DEF LossInv
    <3>3. Held(k) = ct.els
      BY <1>2 DEF Held
    <3>4. Safe(mb, notif, Tail(queue), Held(k), Base(k), NotYet(k), k)
      <4> DEFINE h == Held(k)
                 b == Base(k)
                 y == NotYet(k)
      <4>1. /\ DOMAIN h = {1} /\ h[1].type \in {{"SET"}, {"ADD"}, {"SET", "ADD"}}
            /\ Head(queue).els[1].key = h[1].key
            /\ Safe(mb, notif, queue, h, b, y, k)
        BY <2>1, <2>2, <3>2, <3>3
      <4> HIDE DEF h, b, y
      <4>2. Safe(mb, notif, Tail(queue), h, b, y, k)
        BY <1>0, <2>1, <2>2, <4>1, SafeDropped
      <4> QED BY <4>2 DEF h, b, y
    <3>5. Held(k)' = Held(k) /\ Base(k)' = Base(k) /\ NotYet(k)' = NotYet(k)
      BY <1>1, <2>1, SameParts
    <3> QED BY <1>1, <2>1, <3>4, <3>5
  <2> QED BY <2>3, <2>4, <2>5 DEF DataInv
<1>4. CASE CreateTempDataObjectTables
  <2>1. queue' = queue /\ ct' = [ct EXCEPT !.pc = "readPools", !.abo = cm.abo]
    BY <1>4 DEF CreateTempDataObjectTables
  <2>2. /\ ct'.pc = "readPools" /\ ct'.abo = cm.abo /\ ct'.els = ct.els
        /\ ct'.rehook = ct.rehook /\ ct'.temp = ct.temp
    BY <1>0, <2>1 DEF Threads
  <2>3. \A k : ToBeRead(k)'
    BY <2>2 DEF ToBeRead
  <2>4. Unread'
    BY <1>1, <1>2, <2>2 DEF Ground, DataInv, Unread, MainToRead
  <2>5. SameInetinfo' /\ Sane(mb')
    BY <1>1, <2>2 DEF Ground, DataInv, SameInetinfo
  <2>6. Elements'
    BY <1>1, <2>1, <2>2 DEF Ground, DataInv, Elements
  <2>7. Tracked' => Tracked
    BY <1>1, <2>2 DEF Tracked, InSync, Alive, Starting
  <2>8. ASSUME NEW k \in Object
        PROVE  Held(k)' = Held(k) /\ Base(k)' = Base(k) /\ NotYet(k)' = NotYet(k)
    <3>1. Held(k)' = Held(k) /\ Base(k)' = Base(k)
      BY <1>1, <1>2, <2>2, <2>3 DEF Held, Base
    <3>2. MainToRead(k)' = MainToRead(k)
      BY <1>1 DEF MainToRead
    <3>3. NotYet(k)' = NotYet(k)
      BY <1>2, <2>2, <3>2 DEF NotYet
    <3> QED BY <3>1, <3>3
  <2> QED BY <1>1, <2>1, <2>4, <2>5, <2>6, <2>7, <2>8, LossKept DEF DataInv
<1> QED BY <1>3, <1>4

\* The config thread reads a kind of object.
LEMMA ReadLoss ==
  ASSUME MaxCrashes <= 1, Ground, LossInv, ReadPools \/ ReadSites \/ ReadApps
  PROVE  DataInv' /\ LossInv'
<1>0. /\ ct \in Threads /\ queue \in Seq(QueueItems) /\ ct.els \in Seq(Element)
      /\ mb \in Metabases /\ table \in Tables /\ ct.temp \in Tables /\ Sane(mb)
      /\ \A k : MainToRead(k) => Starting
      /\ Starting => ct.pc \in {"listen", "blocked"}
      /\ Elements /\ AllProper(ct.els) /\ (ct.rehook => ct.els = <<>>)
  BY GroundFacts DEF Ground, DataInv, Elements
<1>1. PICK pc \in {"readPools", "readSites", "readApps"}, kind \in Kinds,
           next \in {"readSites", "readApps", "finish"} :
        /\ ReadKind(pc, kind, next)
        /\ \/ pc = "readPools" /\ kind = Pool /\ next = "readSites"
           \/ pc = "readSites" /\ kind = Site /\ next = "readApps"
           \/ pc = "readApps" /\ kind = App /\ next = "finish"
  BY DEF ReadPools, ReadSites, ReadApps, Kinds
<1>2. ct.pc = pc /\ UNCHANGED <<mb, inetinfo, notif, main, table, cm, queue>>
  BY <1>1 DEF ReadKind, ConfigUnchanged
<1>3. Reading /\ ~Starting /\ \A k : ~MainToRead(k) /\ ~MainToRead(k)'
  BY <1>0, <1>2 DEF Reading, MainToRead
<1>4. Sane(mb')
  BY <1>0, <1>2
<1> DEFINE answered == ~(ct.rehook \/ NeedsMetabase(ct.els, kind)) \/ Alive(ct.abo)
           t == IF ct.rehook THEN ReadAll(mb, kind, ct.temp)
                ELSE ReadFromMetabaseChangeNotification(mb, table, kind, ct.temp, ct.els)
<1>5. CASE ~answered
  <2>1. ct' = NothingToDo /\ ~Alive(ct.abo)
    BY <1>1, <1>5 DEF ReadKind
  <2>2. ~InSync /\ ~InSync'
    BY <1>2, <1>3, <2>1 DEF Ground, DataInv, SameInetinfo, InSync, Alive
  <2>3. ct'.pc = "loop" /\ ~ct'.rehook /\ ct'.els = <<>> /\ ct'.temp = EmptyTable
    BY <2>1, NothingToDoLoss
  <2>4. Unread' /\ SameInetinfo'
    BY <1>3, <2>2, <2>3, EmptyAbsent DEF Unread, SameInetinfo
  <2>5. Elements'
    BY <1>0, <1>2, <2>3 DEF Elements, AllProper
  <2> QED BY <1>4, <2>2, <2>4, <2>5 DEF DataInv, LossInv, Tracked
<1>6. CASE answered
  <2>1. ct' = [ct EXCEPT !.pc = next, !.temp = t]
    BY <1>1, <1>6 DEF ReadKind
  <2>2. /\ ct'.pc = next /\ ct'.abo = ct.abo /\ ct'.els = ct.els /\ ct'.rehook = ct.rehook
        /\ ct'.temp = t
    BY <1>0, <2>1 DEF Threads
  <2>3. ASSUME NEW k \in Object
        PROVE  /\ ToBeRead(k)' <=> ToBeRead(k) /\ k \notin kind
               /\ k \in kind => ToBeRead(k)
    BY <1>1, <1>2, <2>2, KindFacts DEF ToBeRead, Object
  <2>4. ASSUME NEW k \in Object
        PROVE  /\ k \notin kind => t[k] = ct.temp[k]
               /\ k \in kind /\ ct.rehook => t[k] = ReadObject(mb, k)
               /\ k \in kind /\ ~ct.rehook =>
                    LET b == IF Present(t[k]) THEN t[k] ELSE table[k]
                    IN \/ Fits(mb, b, k)
                       \/ There(mb, k) /\ Ends(ct.els, k)
                       \/ ~Said(mb, ct.els, k) /\ b = table[k]
    <3>1. k \in kind => ~Present(ct.temp[k])
      BY <2>3 DEF Ground, DataInv, Unread
    <3>2. CASE ct.rehook
      <4>1. t[k] = IF k \in kind /\ ~Present(ct.temp[k]) THEN ReadObject(mb, k) ELSE ct.temp[k]
        BY <3>2 DEF ReadAll
      <4> QED BY <3>1, <3>2, <4>1
    <3>3. CASE ~ct.rehook
      <4>1. t = ReadFromMetabaseChangeNotification(mb, table, kind, ct.temp, ct.els)
        BY <3>3
      <4> HIDE DEF t
      <4> QED BY <1>0, <3>1, <3>3, <4>1, NotificationRead
    <3> QED BY <3>2, <3>3
  <2> HIDE DEF t, answered
  <2>5. Unread'
    BY <1>3, <2>2, <2>3, <2>4 DEF Ground, DataInv, Unread
  <2>6. SameInetinfo'
    BY <1>2, <1>3, <2>2 DEF Ground, DataInv, SameInetinfo, InSync, Alive
  <2>7. Elements'
    BY <1>2, <2>2 DEF Ground, DataInv, Elements
  <2>8. LossInv'
    <3> SUFFICES ASSUME Tracked', NEW k \in Object
                 PROVE  Safe(mb', notif', queue', Held(k)', Base(k)', NotYet(k)', k)
      BY DEF LossInv
    <3>1. Tracked
      BY <1>2, <2>2 DEF Tracked, InSync, Alive, Starting
    <3>2. Safe(mb, notif, queue, Held(k), Base(k), NotYet(k), k)
      BY <3>1 DEF LossInv
    <3>3. Reading'
      BY <2>2 DEF Reading
    <3>4. CASE k \notin kind
      <4>1. ToBeRead(k)' <=> ToBeRead(k)
        BY <2>3, <3>4
      <4>2. Held(k)' = Held(k) /\ Base(k)' = Base(k)
        BY <1>2, <1>3, <2>2, <2>4, <3>3, <3>4, <4>1 DEF Held, Base
      <4>3. NotYet(k)' = NotYet(k)
        BY <1>3, <2>2, <4>1 DEF NotYet
      <4> QED BY <1>2, <3>2, <4>2, <4>3
    <3>5. CASE k \in kind /\ ct.rehook
      <4>1. Fits(mb, t[k], k)
        BY <1>0, <2>4, <3>5, ReadObjectFits
      <4>2. Base(k)' = t[k]
        BY <2>2, <3>5 DEF Base
      <4>3. Held(k)' = Held(k)
        BY <1>0, <2>2, <3>5 DEF Held
      <4> DEFINE z == NotYet(k)'
                 y == NotYet(k)
                 h == Held(k)
                 b == Base(k)
                 c == t[k]
      <4>4. Safe(mb, notif, queue, h, b, y, k) /\ Fits(mb, c, k)
        BY <3>2, <4>1
      <4> HIDE DEF z, y, h, b, c
      <4>5. Safe(mb, notif, queue, h, c, z, k)
        BY <4>4, SafeReread
      <4> QED BY <1>2, <4>2, <4>3, <4>5 DEF z, h, c
    <3>6. CASE k \in kind /\ ~ct.rehook
      <4>1. ToBeRead(k) /\ ~ToBeRead(k)'
        BY <2>3, <3>6
      <4>2. Held(k) = ct.els /\ Base(k) = table[k]
        BY <3>6, <4>1 DEF Held, Base
      <4>3. NotYet(k) = FALSE
        BY <1>3, <3>6 DEF NotYet
      <4>4. NotYet(k)' = FALSE
        BY <1>3, <2>2, <3>6 DEF NotYet
      <4> DEFINE c == IF Present(t[k]) THEN t[k] ELSE table[k]
      <4>5. Held(k)' = <<>> /\ Base(k)' = c
        BY <1>2, <2>2, <3>3, <3>6, <4>1 DEF Held, Base
      <4>6. Safe(mb, notif, queue, ct.els, table[k], FALSE, k)
        BY <3>2, <4>2, <4>3
      <4>7. \/ Fits(mb, c, k)
            \/ There(mb, k) /\ Ends(ct.els, k)
            \/ ~Said(mb, ct.els, k) /\ c = table[k]
        BY <2>4, <3>6
      <4> HIDE DEF c
      <4>8. Safe(mb, notif, queue, <<>>, c, FALSE, k)
        BY <4>6, <4>7, SafeRead
      <4> QED BY <1>2, <4>4, <4>5, <4>8
    <3> QED BY <3>4, <3>5, <3>6
  <2> QED BY <1>4, <2>5, <2>6, <2>7, <2>8 DEF DataInv
<1> QED BY <1>5, <1>6

\* What was read is merged into the tables.
LEMMA FinishLoss ==
  ASSUME MaxCrashes <= 1, Ground, LossInv, FinishChangeProcessing \/ SendMainThreadChangesFails
  PROVE  DataInv' /\ LossInv'
<1>0. /\ TypeOK /\ ct \in Threads /\ cm \in Fields
      /\ \A k : MainToRead(k) => Starting
      /\ Starting => ct.pc \in {"listen", "blocked"}
      /\ ct.rehook => cm.ThreadProcessingDisabled # 0
  BY GroundFacts
<1>1. /\ ct.pc = "finish" /\ ct' = NothingToDo
      /\ UNCHANGED <<mb, inetinfo, notif, main, queue>>
      /\ \/ table' = ClearDeletedObjects(Merged) /\ cm' = ProcessingAllowed
         \/ table' = Merged /\ cm' = [cm EXCEPT !.notSent = TRUE]
  BY DEF FinishChangeProcessing, SendMainThreadChangesFails, ConfigUnchanged
<1>2. ct'.pc = "loop" /\ ~ct'.rehook /\ ct'.els = <<>> /\ ct'.temp = EmptyTable
  BY <1>1, NothingToDoLoss
<1>3. Idle' /\ ~Starting /\ ~Starting' /\ \A k : ~MainToRead(k) /\ ~MainToRead(k)'
  BY <1>0, <1>1, <1>2 DEF Idle, Starting, MainToRead
<1>4. /\ cm'.abo = cm.abo /\ cm'.hooked = cm.hooked /\ cm'.ProcessChanges = cm.ProcessChanges
      /\ ~ct.rehook => cm'.ThreadProcessingDisabled = cm.ThreadProcessingDisabled
  BY <1>0, <1>1 DEF ProcessingAllowed, Fields
<1>5. Unread' /\ SameInetinfo' /\ Sane(mb')
  BY <1>1, <1>3, IdleNext DEF Unread, SameInetinfo, Ground, DataInv
<1>6. Elements'
  BY <1>1, <1>2 DEF Ground, DataInv, Elements, AllProper
<1>7. LossInv'
  <2> SUFFICES ASSUME Tracked', NEW k \in Object
               PROVE  Safe(mb', notif', queue', Held(k)', Base(k)', NotYet(k)', k)
    BY DEF LossInv
  <2>1. Tracked
    BY <1>1, <1>2, <1>3, <1>4 DEF Tracked, InSync, Alive
  <2>2. Safe(mb, notif, queue, Held(k), Base(k), NotYet(k), k)
    BY <2>1 DEF LossInv
  <2>3. ~ToBeRead(k) /\ Reading
    BY <1>1 DEF ToBeRead, Reading
  <2>4. /\ Held(k) = <<>>
        /\ Base(k) = IF ct.rehook \/ Present(ct.temp[k]) THEN ct.temp[k] ELSE table[k]
    BY <2>3 DEF Held, Base
  <2>5. NotYet(k) = FALSE
    BY <1>3, <2>3 DEF NotYet
  <2>6. NotYet(k)' = FALSE
    BY <1>2, <1>3 DEF NotYet
  <2>7. Held(k)' = <<>> /\ Base(k)' = table'[k]
    BY <1>3, IdleNext
  <2>8. Alike(Base(k), table'[k])
    <3> DEFINE o == IF ct.rehook \/ Present(ct.temp[k]) THEN ct.temp[k] ELSE table[k]
    <3>1. Alike(o, Merged[k]) /\ Alike(o, ClearDeletedObjects(Merged)[k])
      BY <1>0, MergedAlike
    <3> HIDE DEF o
    <3>2. Base(k) = o
      BY <2>4 DEF o
    <3> QED BY <1>1, <3>1, <3>2
  <2> DEFINE b == Base(k)
             c == table'[k]
  <2>9. Safe(mb, notif, queue, <<>>, b, FALSE, k) /\ Alike(b, c)
    BY <2>2, <2>4, <2>5, <2>8
  <2> HIDE DEF b, c
  <2>10. Safe(mb, notif, queue, <<>>, c, FALSE, k)
    BY <2>9, SafeReread
  <2> QED BY <1>1, <2>6, <2>7, <2>10 DEF c
<1> QED BY <1>5, <1>6, <1>7 DEF DataInv

LEMMA AppendElements ==
  ASSUME Elements, NEW Y, queue \in Seq(Y), NEW x, x.els = <<>>, queue' = Append(queue, x),
         UNCHANGED <<notif, ct>>
  PROVE  Elements'
<1>1. \A i \in DOMAIN Append(queue, x) : \/ i \in DOMAIN queue /\ Append(queue, x)[i] = queue[i]
                                         \/ Append(queue, x)[i] = x
  OBVIOUS
<1>2. AllProper(x.els)
  BY DEF AllProper
<1>3. \A i \in DOMAIN queue' : /\ AllProper(queue'[i].els)
                               /\ queue'[i].op # "change" => queue'[i].els = <<>>
  BY <1>1, <1>2 DEF Elements
<1> QED BY <1>3 DEF Elements

LEMMA AlikeTransitive ==
  ASSUME NEW o, NEW p, NEW r, Alike(o, p), Alike(p, r)
  PROVE  Alike(o, r)
  BY DEF Alike

\* The main thread initializes.
LEMMA InitializeLoss ==
  ASSUME MaxCrashes <= 1, Ground, LossInv,
         \/ LaunchChangeNotificationListener \/ InitReadPools \/ InitReadSites \/ InitReadApps
         \/ InitializeFinishes
  PROVE  DataInv' /\ LossInv'
<1>0. /\ TypeOK /\ cm \in Fields /\ ct \in Threads /\ mb \in Metabases /\ table \in Tables
      /\ main \in Mains /\ Sane(mb)
      /\ ct.rehook => ct.pc \in {"readPools", "readSites", "readApps", "finish"}
  BY GroundFacts DEF Ground, DataInv, TypeOK, Mains
<1>1. UNCHANGED <<mb, inetinfo, notif, ct, queue>> /\ Starting
  BY DEF LaunchChangeNotificationListener, InitReadPools, InitReadSites, InitReadApps,
     ReadDataFromMetabase, InitializeFinishes, MainUnchanged, Starting
<1>2. ct.pc \in {"listen", "blocked"} /\ ~cm.ProcessChanges
  BY <1>1 DEF Ground, WasInv, Beginning
<1>3. Idle /\ Idle'
  BY <1>0, <1>1, <1>2 DEF Idle
<1>4. /\ ~Reading' /\ \A k : ~ToBeRead(k)'
      /\ \A k : Held(k) = <<>> /\ Base(k) = table[k] /\ NotYet(k) = MainToRead(k)
      /\ \A k : Held(k)' = <<>> /\ Base(k)' = table'[k] /\ NotYet(k)' = MainToRead(k)'
  BY <1>3, IdleFacts, IdleNext
<1>5. Elements' /\ SameInetinfo' /\ Sane(mb')
  BY <1>1, <1>4 DEF Ground, DataInv, Elements, SameInetinfo
<1>6. \A k : MainToRead(k) \in BOOLEAN /\ MainToRead(k)' \in BOOLEAN
  BY DEF MainToRead
<1>7. InSync => Tracked
  BY <1>1 DEF Tracked
\* An error ends it.
<1>8. ASSUME main' = [main EXCEPT !.pc = "terminate"], cm' = InitializeFails
      PROVE  DataInv' /\ LossInv'
  <2>1. main'.pc = "terminate" /\ ~cm'.ProcessChanges
    BY <1>0, <1>2, <1>8 DEF Mains, InitializeFails, Fields
  <2>2. ~Tracked'
    BY <1>3, <2>1 DEF Tracked, Starting, Idle
  <2>3. Unread'
    BY <1>4, <2>1 DEF Unread, MainToRead
  <2> QED BY <1>5, <2>2, <2>3 DEF DataInv, LossInv
<1>9. CASE LaunchChangeNotificationListener
  <2>1. CASE ~cm.hrInit
    BY <1>8, <1>9, <2>1 DEF LaunchChangeNotificationListener
  <2>2. CASE cm.hrInit
    <3>1. /\ main.pc = "wait" /\ main' = [main EXCEPT !.pc = "readPools", !.abo = cm.abo]
          /\ UNCHANGED <<cm, table>>
      BY <1>9, <2>2 DEF LaunchChangeNotificationListener
    <3>2. main'.pc = "readPools"
      BY <1>0, <3>1 DEF Mains
    <3>3. \A k : MainToRead(k) /\ MainToRead(k)'
      BY <3>1, <3>2 DEF MainToRead
    <3>4. Unread'
      BY <1>4, <3>1, <3>3 DEF Ground, DataInv, Unread
    <3>5. Tracked' => Tracked
      BY <1>1, <1>7, <3>1 DEF Tracked, InSync, Alive
    <3>6. \A k \in Object : Held(k)' = Held(k) /\ Base(k)' = Base(k) /\ NotYet(k)' = NotYet(k)
      BY <1>4, <1>6, <3>1, <3>3
    <3> QED BY <1>1, <1>5, <3>4, <3>5, <3>6, LossKept DEF DataInv
  <2> QED BY <2>1, <2>2
<1>10. CASE InitReadPools \/ InitReadSites \/ InitReadApps
  <2>1. PICK pc \in {"readPools", "readSites", "readApps"}, kind \in Kinds,
             next \in {"readSites", "readApps", "finish"} :
          /\ ReadDataFromMetabase(pc, kind, next)
          /\ \/ pc = "readPools" /\ kind = Pool /\ next = "readSites"
             \/ pc = "readSites" /\ kind = Site /\ next = "readApps"
             \/ pc = "readApps" /\ kind = App /\ next = "finish"
    BY <1>10 DEF InitReadPools, InitReadSites, InitReadApps, Kinds
  <2>2. CASE ~Alive(main.abo)
    BY <1>8, <2>1, <2>2 DEF ReadDataFromMetabase
  <2>3. CASE Alive(main.abo)
    <3> DEFINE t == ReadAll(mb, kind, table)
    <3>1. /\ main.pc = pc /\ main' = [main EXCEPT !.pc = next] /\ cm' = cm
          /\ table' = PerformSelfValidation(t)
      BY <2>1, <2>3 DEF ReadDataFromMetabase
    <3>2. main'.pc = next
      BY <1>0, <3>1 DEF Mains
    <3>3. ASSUME NEW k \in Object
          PROVE  /\ MainToRead(k)' <=> MainToRead(k) /\ k \notin kind
                 /\ k \in kind => MainToRead(k)
      BY <2>1, <3>1, <3>2, KindFacts DEF MainToRead, Object
    <3>4. t \in Tables
      BY <1>0, ReadAllType
    <3>5. ASSUME NEW k \in Object
          PROVE  /\ k \notin kind => t[k] = table[k]
                 /\ k \in kind => Fits(mb, t[k], k)
      <4>1. t[k] = IF k \in kind /\ ~Present(table[k]) THEN ReadObject(mb, k) ELSE table[k]
        BY DEF ReadAll
      <4>2. k \in kind => ~Present(table[k])
        BY <3>3 DEF Ground, DataInv, Unread
      <4> HIDE DEF t
      <4> QED BY <1>0, <4>1, <4>2, ReadObjectFits
    <3> HIDE DEF t
    <3>6. \A k \in Object : Alike(t[k], table'[k])
      BY <3>1, <3>4, SelfValidationAlike DEF AlikeTables
    <3>7. Unread'
      <4>1. ASSUME NEW k \in Object, MainToRead(k)' PROVE ~Present(table'[k])
        <5>1. t[k] = table[k] /\ ~Present(table[k])
          BY <3>3, <3>5, <4>1 DEF Ground, DataInv, Unread
        <5>2. ~QueryWillWasKnowAboutObject(t[k])
          BY <5>1 DEF QueryWillWasKnowAboutObject
        <5>3. table'[k] = t[k]
          BY <3>1, <5>2 DEF PerformSelfValidation
        <5> QED BY <5>1, <5>3
      <4> QED BY <1>4, <4>1 DEF Unread
    <3>8. LossInv'
      <4> SUFFICES ASSUME Tracked', NEW k \in Object
                   PROVE  Safe(mb', notif', queue', Held(k)', Base(k)', NotYet(k)', k)
        BY DEF LossInv
      <4>1. Tracked
        BY <1>1, <1>7, <3>1 DEF Tracked, InSync, Alive
      <4> DEFINE y == MainToRead(k)
                 z == MainToRead(k)'
                 b == table[k]
                 c == table'[k]
      <4>2. Safe(mb, notif, queue, <<>>, b, y, k)
        BY <1>4, <4>1 DEF LossInv
      <4>3. Fits(mb, c, k) \/ (Alike(b, c) /\ z = y)
        <5>1. CASE k \in kind
          BY <3>5, <3>6, <5>1, AlikeFits
        <5>2. CASE k \notin kind
          <6>1. z = y
            BY <1>6, <3>3, <5>2
          <6> QED BY <3>5, <3>6, <5>2, <6>1
        <5> QED BY <5>1, <5>2
      <4>4. Held(k)' = <<>> /\ Base(k)' = c /\ NotYet(k)' = z
        BY <1>4
      <4> HIDE DEF y, z, b, c
      <4>5. Safe(mb, notif, queue, <<>>, c, z, k)
        BY <4>2, <4>3, SafeReread
      <4> QED BY <1>1, <4>4, <4>5
    <3> QED BY <1>5, <3>7, <3>8 DEF DataInv
  <2> QED BY <2>2, <2>3
<1>11. CASE InitializeFinishes
  <2>1. /\ main.pc = "finish" /\ main' = [main EXCEPT !.pc = "run"]
        /\ table' = ClearDeletedObjects(CrossValidateDataObjects(table))
        /\ cm' = [cm EXCEPT !.ProcessChanges = TRUE, !.BlockEvent = TRUE]
    BY <1>11 DEF InitializeFinishes
  <2>2. main'.pc = "run" /\ cm'.abo = cm.abo /\ cm'.hooked = cm.hooked
    BY <1>0, <2>1 DEF Mains, Fields
  <2>3. \A k : ~MainToRead(k) /\ ~MainToRead(k)'
    BY <2>1, <2>2 DEF MainToRead
  <2>4. Unread'
    BY <1>4, <2>3 DEF Unread
  <2>5. ASSUME NEW k \in Object PROVE Alike(table[k], table'[k])
    <3> DEFINE v == CrossValidateDataObjects(table)
    <3>1. v \in Tables
      BY <1>0, CrossValidationType
    <3>2. Alike(table[k], v[k])
      BY <1>0, CrossValidationAlike DEF AlikeTables
    <3> HIDE DEF v
    <3>3. Alike(v[k], ClearDeletedObjects(v)[k])
      BY <3>1, ClearAlike DEF AlikeTables
    <3>4. Alike(table[k], ClearDeletedObjects(v)[k])
      BY <3>2, <3>3, AlikeTransitive
    <3> QED BY <2>1, <3>4 DEF v
  <2>6. LossInv'
    <3> SUFFICES ASSUME Tracked', NEW k \in Object
                 PROVE  Safe(mb', notif', queue', Held(k)', Base(k)', NotYet(k)', k)
      BY DEF LossInv
    <3>1. Tracked
      BY <1>1, <1>7, <2>2 DEF Tracked, InSync, Alive
    <3> DEFINE b == table[k]
               c == table'[k]
    <3>2. MainToRead(k) = FALSE /\ MainToRead(k)' = FALSE
      BY <1>6, <2>3
    <3>3. Safe(mb, notif, queue, <<>>, b, FALSE, k)
      BY <1>4, <3>1, <3>2 DEF LossInv
    <3>4. Alike(b, c)
      BY <2>5
    <3>5. Held(k)' = <<>> /\ Base(k)' = c /\ NotYet(k)' = FALSE
      BY <1>4, <3>2
    <3> HIDE DEF b, c
    <3>6. Safe(mb, notif, queue, <<>>, c, FALSE, k)
      BY <3>3, <3>4, SafeReread
    <3> QED BY <1>1, <3>5, <3>6
  <2> QED BY <1>5, <2>4, <2>6 DEF DataInv
<1> QED BY <1>9, <1>10, <1>11

\* The main thread runs, and ends.
LEMMA RunLoss ==
  ASSUME MaxCrashes <= 1, Ground, LossInv, HookInv',
         \/ ProcessConfigChange \/ RecoverFromInetinfoCrash \/ StopServiceWorkItem
         \/ RequestShutdown \/ ShutdownDone \/ BeginTerminate \/ Terminate
  PROVE  DataInv' /\ LossInv'
<1>0. cm \in Fields /\ ct \in Threads /\ queue \in Seq(QueueItems) /\ main \in Mains /\ TypeOK
  BY GroundFacts DEF TypeOK, Mains
<1>1. UNCHANGED <<mb, inetinfo, notif, ct, table>>
  BY DEF ProcessConfigChange, RecoverFromInetinfoCrash, StopServiceWorkItem, RequestShutdown,
     ShutdownDone, BeginTerminate, Terminate, MainWorkItem, MainUnchanged
<1>2. /\ main.pc \in {"run", "flagged", "stopping", "terminate", "join"}
      /\ \/ main' = main
         \/ \E pc \in {"flagged", "stopping", "terminate", "join", "done"},
               next \in {"stopping", "join"} : main' = [main EXCEPT !.pc = pc, !.next = next]
         \/ \E pc \in {"flagged", "stopping", "terminate", "join", "done"} :
              main' = [main EXCEPT !.pc = pc]
  <2>1. main.next \in {"stopping", "join"}
    BY <1>0 DEF Mains
  <2> QED BY <2>1 DEF ProcessConfigChange, RecoverFromInetinfoCrash, StopServiceWorkItem,
     RequestShutdown, ShutdownDone, BeginTerminate, Terminate, MainWorkItem, StopChangeProcessing
<1>3. main'.pc \in {"run", "flagged", "stopping", "terminate", "join", "done"}
  BY <1>0, <1>2 DEF Mains
<1>4. ~Starting /\ ~Starting' /\ \A k : ~MainToRead(k) /\ ~MainToRead(k)'
  BY <1>2, <1>3 DEF Starting, MainToRead
<1>5. Unread' /\ Sane(mb')
  BY <1>1, <1>4 DEF Ground, DataInv, Unread, ToBeRead
<1>6. \A k : Held(k)' = Held(k) /\ Base(k)' = Base(k) /\ (ToBeRead(k)' <=> ToBeRead(k))
  BY <1>1 DEF Held, Base, ToBeRead, Reading
<1>7. \A k : NotYet(k)' = NotYet(k)
  BY <1>1, <1>4, <1>6 DEF NotYet
\* The hook stays as it is.
<1>8. ASSUME queue' = queue, cm'.abo = cm.abo, cm'.hooked = cm.hooked,
             cm'.ProcessChanges = cm.ProcessChanges,
             cm'.ThreadProcessingDisabled = cm.ThreadProcessingDisabled
      PROVE  DataInv' /\ LossInv'
  <2>1. (InSync' <=> InSync) /\ (Tracked' => Tracked)
    BY <1>1, <1>4, <1>8 DEF Tracked, InSync, Alive
  <2>2. Elements' /\ SameInetinfo'
    BY <1>1, <1>8, <2>1 DEF Ground, DataInv, Elements, SameInetinfo, Reading
  <2>3. LossInv'
    BY <1>1, <1>6, <1>7, <1>8, <2>1, LossKept
  <2> QED BY <1>5, <2>2, <2>3 DEF DataInv
<1>9. CASE ProcessConfigChange \/ StopServiceWorkItem \/ ShutdownDone \/ BeginTerminate
  <2>1. queue' = queue /\ (cm' = cm \/ cm' = [cm EXCEPT !.ExitWorkLoop = TRUE])
    BY <1>9 DEF ProcessConfigChange, StopServiceWorkItem, ShutdownDone, BeginTerminate,
       StopChangeProcessing
  <2>2. /\ cm'.abo = cm.abo /\ cm'.hooked = cm.hooked /\ cm'.ProcessChanges = cm.ProcessChanges
        /\ cm'.ThreadProcessingDisabled = cm.ThreadProcessingDisabled
    BY <1>0, <2>1 DEF Fields
  <2> QED BY <1>8, <2>1, <2>2
<1>10. CASE RequestShutdown
  <2>1. cm' = [cm EXCEPT !.ProcessChanges = FALSE] /\ queue' = Append(queue, ExitThread)
    BY <1>10 DEF RequestShutdown
  <2>2. cm'.abo = cm.abo /\ cm'.hooked = cm.hooked /\ ~cm'.ProcessChanges
    BY <1>0, <2>1 DEF Fields
  <2>3. (InSync' <=> InSync) /\ (Tracked' => Tracked)
    BY <1>1, <1>4, <2>2 DEF Tracked, InSync, Alive
  <2>4. SameInetinfo'
    BY <1>1, <2>2, <2>3 DEF Ground, DataInv, SameInetinfo, Reading
  <2>5. ExitThread.els = <<>>
    BY DEF ExitThread
  <2>6. Elements'
    BY <1>0, <1>1, <2>1, <2>5, AppendElements DEF Ground, DataInv
  <2>7. LossInv'
    <3> SUFFICES ASSUME Tracked', NEW k \in Object
                 PROVE  Safe(mb', notif', queue', Held(k)', Base(k)', NotYet(k)', k)
      BY DEF LossInv
    <3>1. Safe(mb, notif, queue, Held(k), Base(k), NotYet(k), k)
      BY <2>3 DEF LossInv
    <3>2. Safe(mb, notif, queue', Held(k), Base(k), NotYet(k), k)
      BY <1>0, <2>1, <2>5, <3>1, SafeQueued
    <3> QED BY <1>1, <1>6, <1>7, <3>2
  <2> QED BY <1>5, <2>4, <2>6, <2>7 DEF DataInv
<1>11. CASE Terminate
  <2>1. ct.pc = "exited" /\ cm' = cm /\ queue' = <<>>
    BY <1>11 DEF Terminate
  <2>2. ~InSync'
    BY <2>1 DEF Ground, HookInv, Hooks, InSync
  <2>3. Elements'
    BY <1>1, <2>1 DEF Ground, DataInv, Elements
  <2> QED BY <1>5, <2>2, <2>3 DEF DataInv, SameInetinfo, LossInv, Tracked
<1>12. CASE RecoverFromInetinfoCrash
  <2>1. CASE main.pc = "stopping"
    BY <1>8, <1>12, <2>1 DEF RecoverFromInetinfoCrash
  <2>2. CASE main.pc # "stopping" /\ ~inetinfo.up
    BY <1>8, <1>12, <2>2 DEF RecoverFromInetinfoCrash
  <2>3. CASE main.pc # "stopping" /\ inetinfo.up
    <3>1. queue' = Append(queue, Rehook)
      BY <1>12, <2>3 DEF RecoverFromInetinfoCrash
    <3>2. Rehook.els = <<>> /\ Rehook.op = "rehook"
      BY DEF Rehook
    <3>3. Len(queue) + 1 \in DOMAIN queue' /\ queue'[Len(queue) + 1].op = "rehook"
      BY <1>0, <3>1, <3>2
    <3>4. cm'.abo = 2 /\ cm'.hooked # 2
      BY <3>3 DEF HookInv, OneRehook
    <3>5. ~InSync'
      BY <3>4 DEF InSync
    <3>6. Elements'
      BY <1>0, <1>1, <3>1, <3>2, AppendElements DEF Ground, DataInv
    <3> QED BY <1>5, <3>5, <3>6 DEF DataInv, SameInetinfo, LossInv, Tracked
  <2> QED BY <2>1, <2>2, <2>3
<1> QED BY <1>9, <1>10, <1>11, <1>12

\* No change to the metabase is lost on its way to the tables (StartMBChangeItem,
\* DropAllUninterestingMBChanges, CreateTempDataObjectTables): while WAS listens, what
\* the tables do not know is announced, or is in hand and has been read or will be.
\* inetinfo crashes once at most: after two, both recoveries may hook up to the same
\* inetinfo, and a notification from before the second is worked off after it.  And no root application loses its AppPoolId alone, which deletes from the tables
\* all the applications of its site (DeleteSubApplications).
THEOREM NoLossSafety ==
  ASSUME MaxCrashes <= 1, RootsKeepData
  PROVE  Spec => []NoChangeLost
<1> DEFINE All == RecoveryInv /\ WasInv /\ HookInv /\ DataInv /\ LossInv
<1>1. Init => All
  <2> SUFFICES ASSUME Init PROVE All
    OBVIOUS
  <2>1. Number(queue, "rehook") = 0 /\ Number(mq, "recover") = 0
    BY NumberEmpty DEF Init
  <2>2. RecoveryInv
    <3>1. SecondLife /\ InHand
      BY <2>1 DEF Init, SecondLife, Rehooking, InHand
    <3>2. Exact
      BY <2>1 DEF Init, Exact, Unfinished, Unrecovered
    <3> QED BY <3>1, <3>2 DEF RecoveryInv
  <2>3. WasInv
    <3>1. Untold(table)
      BY NoObjectFacts DEF Init, Untold, EmptyTable
    <3>2. Beginning
      BY <3>1 DEF Init, Beginning
    <3>3. Ending /\ Synced
      BY DEF Init, Ending, Synced
    <3> QED BY <3>2, <3>3 DEF WasInv
  <2>4. HookInv
    BY <2>1 DEF Init, HookInv, Hooks, OneRecovery, OneRehook
  <2>5. DataInv
    <3>1. Unread
      BY EmptyAbsent DEF Init, Unread
    <3>2. Elements
      BY DEF Init, Elements, AllProper
    <3>3. SameInetinfo /\ Sane(mb)
      BY InitialSane DEF Init, SameInetinfo, Reading
    <3> QED BY <3>1, <3>2, <3>3 DEF DataInv
  <2>6. LossInv
    BY DEF Init, LossInv, Tracked, InSync
  <2> QED BY <2>2, <2>3, <2>4, <2>5, <2>6
<1>2. ConfigInv /\ All /\ [Next]_vars => All'
  <2> SUFFICES ASSUME ConfigInv, All, [Next]_vars PROVE All'
    OBVIOUS
  <2>0. Ground
    BY DEF Ground
  <2>1. CASE UNCHANGED vars
    <3>1. UNCHANGED <<mb, inetinfo, monitor, notif, cm, ct, queue, main, mq, table, was>>
      BY <2>1 DEF vars
    <3>2. RecoveryInv'
      BY <3>1 DEF RecoveryInv, SecondLife, InHand, Exact, Lost, Rehooking, Unfinished,
         Unrecovered
    <3>3. WasInv'
      BY <3>1 DEF WasInv, Beginning, Starting, Ending, Synced
    <3>4. HookInv'
      BY <3>1, HooksKept
    <3>5. InSync' = InSync /\ Tracked' = Tracked
      BY <3>1 DEF InSync, Alive, Tracked, Starting
    <3>6. Unread' /\ Elements'
      BY <3>1 DEF DataInv, Unread, MainToRead, ToBeRead, Elements
    <3>7. SameInetinfo' /\ Sane(mb')
      BY <3>1, <3>5 DEF DataInv, SameInetinfo, Reading
    <3>8. LossInv'
      BY <3>1, <3>5, SameParts, LossKept
    <3> QED BY <3>2, <3>3, <3>4, <3>6, <3>7, <3>8 DEF DataInv
  <2>2. CASE Next
    <3>1. RecoveryInv'
      BY <2>2, InetinfoRecovery, MonitorRecovery, ConfigThreadRecovery, MainThreadRecovery
         DEF Next
    <3>2. WasInv'
      BY <2>2, OutsideWas, ConfigThreadWas, MainThreadWas DEF Next
    <3>3. HookInv'
      BY <2>2, InetinfoHooks, MonitorHooks, ConfigThreadHooks, MainThreadHooks DEF Next
    <3>4. DataInv' /\ LossInv'
      <4>1. CASE Administration
        BY <2>0, <4>1, AdministrationLoss
      <4>2. CASE Crash \/ Restart \/ StartMBChangeItem
        BY <2>0, <4>2, InetinfoLoss
      <4>3. CASE MonitorThread \/ StopService
        BY <2>0, <4>3, MonitorLoss
      <4>4. CASE ConfigThread
        BY <2>0, <4>4, ListenLoss, DequeueLoss, DropLoss, ReadLoss, FinishLoss DEF ConfigThread
      <4>5. CASE MainThread
        BY <2>0, <3>3, <4>5, InitializeLoss, RunLoss DEF MainThread
      <4> QED BY <2>2, <4>1, <4>2, <4>3, <4>4, <4>5 DEF Next
    <3> QED BY <3>1, <3>2, <3>3, <3>4
  <2> QED BY <2>1, <2>2
<1>3. ConfigInv /\ All => NoChangeLost
  <2> SUFFICES ASSUME ConfigInv, All, Listening, NEW k \in Object
               PROVE  \/ UpToDate(table[k], k)
                      \/ \E i \in DOMAIN notif : Mentions(notif[i], k)
                      \/ \E i \in DOMAIN queue : Mentions(queue[i].els, k)
                      \/ Mentions(ct.els, k) /\ ToBeRead(k)
                      \/ ct.pc \in {"readSites", "readApps", "finish"} /\ ~ToBeRead(k)
                           /\ UpToDate(ct.temp[k], k)
    BY DEF NoChangeLost
  <2>1. Ground
    BY DEF Ground
  <2>2. Tracked /\ cm.ProcessChanges /\ cm.ThreadProcessingDisabled = 0
    BY DEF Listening, Tracked, InSync
  <2>3. ~ct.rehook /\ ~MainToRead(k)
    <3>1. ~Starting
      BY <2>1, <2>2 DEF Ground, WasInv, Beginning
    <3> QED BY <2>1, <2>2, <3>1, GroundFacts
  <2>4. Safe(mb, notif, queue, Held(k), Base(k), NotYet(k), k) /\ ~NotYet(k)
    BY <2>2, <2>3 DEF LossInv, NotYet
  <2>5. \A e : Announces(mb, e, k) => Covers(e, k)
    BY DEF Announces, Renews, Kills, Covers
  <2>6. \A els : Said(mb, els, k) => Mentions(els, k)
    BY <2>5 DEF Said, Mentions
  <2>7. \A o : Fits(mb, o, k) => UpToDate(o, k)
    BY DEF Fits, There, Live, UpToDate
  <2>8. CASE Outstanding(mb, notif, queue, Held(k), k)
    <3>1. Said(mb, Held(k), k) => ToBeRead(k) /\ Mentions(ct.els, k)
      BY <2>6, NothingSaid DEF Held
    <3> QED BY <2>6, <2>8, <3>1 DEF Outstanding
  <2>9. CASE Fits(mb, Base(k), k)
    <3>1. UpToDate(Base(k), k)
      BY <2>7, <2>9
    <3>2. CASE Reading /\ ~ToBeRead(k) /\ Present(ct.temp[k])
      <4>1. ct.pc \in {"readSites", "readApps", "finish"}
        BY <3>2 DEF Reading, ToBeRead
      <4> QED BY <3>1, <3>2, <4>1 DEF Base
    <3>3. CASE ~(Reading /\ ~ToBeRead(k) /\ Present(ct.temp[k]))
      BY <2>3, <3>1, <3>3 DEF Base
    <3> QED BY <3>2, <3>3
  <2> QED BY <2>4, <2>8, <2>9 DEF Safe
<1> HIDE DEF All
<1> QED BY <1>1, <1>2, <1>3, ConfigAlways, PTL DEF Spec
=============================================================================
