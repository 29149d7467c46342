---------------------------- MODULE ConfigTables ----------------------------
(***************************************************************************)
(* The configuration data of the Web Administration Service: the metabase  *)
(* as administrators write it, the tables of data objects the config thread*)
(* keeps (DATA_OBJECT_TABLE and its three kinds: application pools, sites, *)
(* applications), how they are read, merged and validated, and what the    *)
(* main thread makes of a change (WAS_CHANGE_ITEM::ProcessChanges) in the  *)
(* tables of UL_AND_WORKER_MANAGER.                                        *)
(*                                                                         *)
(* The properties of an object are abstracted to one value: the settings of*)
(* a pool, the AppPoolId of a site or of an application; pools and sites   *)
(* also carry a command (AppPoolCommand, ServerCommand): a number that is   *)
(* different each time one is written, 0 when none was.                    *)
(***************************************************************************)
EXTENDS Naturals, Sequences, SequencesExt

CONSTANTS
  Pool, Site,      \* the keys below APPPOOLS and the site ids
  Url,             \* the URLs of applications within a site, "/" among them
  W3SVC,           \* the node above them all, which sites inherit from
  Setting,         \* the values of a pool's properties
  Absent,          \* there is no such object
  Empty,           \* an AppPoolId or a list of bindings that is empty
  Inherit          \* the site has no AppPoolId of its own

App == Site \X Url
Object == Pool \cup Site \cup App
Key == {W3SVC} \cup Object
Commanded == Pool \cup Site
RootOf(s) == <<s, "/">>
AppsOf(s) == {s} \X Url

ASSUME UrlAssumption == "/" \in Url
ASSUME KeysDistinct ==
  /\ Pool \cap Site = {} /\ Pool \cap App = {} /\ Site \cap App = {}
  /\ W3SVC \notin Object
ASSUME ValuesDistinct ==
  /\ {Absent, Empty, Inherit} \cap (Pool \cup Setting) = {}
  /\ Absent # Empty /\ Absent # Inherit /\ Empty # Inherit

-----------------------------------------------------------------------------
(***************************************************************************)
(* The metabase: an entry per key.  A site without an AppPoolId of its own *)
(* inherits the service's (METADATA_INHERIT); applications do not inherit. *)
(***************************************************************************)
Value == Setting \cup Pool \cup {Absent, Empty, Inherit}
Entry == [val : Value, cmd : Nat]
NoEntry == [val |-> Absent, cmd |-> 0]

Effective(mb, k) == IF mb[k].val = Inherit THEN mb[W3SVC].val ELSE mb[k].val

\* What the deletion of a key takes with it: a site its applications, the root
\* application every application below it.
Subtree(k) ==
  IF k \in Site THEN {k} \cup AppsOf(k)
  ELSE IF k \in App /\ k[2] = "/" THEN AppsOf(k[1]) ELSE {k}

-----------------------------------------------------------------------------
(***************************************************************************)
(* DATA_OBJECT: its flags, and what WAS is told about it.                  *)
(***************************************************************************)
DataObject ==
  [val : Value, cmd : Nat, InWas : BOOLEAN, DeleteWhenDone : BOOLEAN,
   SelfValid : BOOLEAN, CrossValid : BOOLEAN, changed : BOOLEAN,
   cmdChanged : BOOLEAN]

NewObject(v, n) ==
  [val |-> v, cmd |-> n, InWas |-> FALSE, DeleteWhenDone |-> FALSE,
   SelfValid |-> TRUE, CrossValid |-> TRUE, changed |-> TRUE,
   cmdChanged |-> FALSE]

NoObject == NewObject(Absent, 0)
Present(o) == o.val # Absent
EmptyTable == [k \in Object |-> NoObject]

QueryWillWasKnowAboutObject(o) ==
  Present(o) /\ o.CrossValid /\ o.SelfValid /\ ~o.DeleteWhenDone
QueryShouldWasInsert(o) == ~o.InWas /\ QueryWillWasKnowAboutObject(o)
QueryShouldWasUpdate(o) ==
  o.InWas /\ QueryWillWasKnowAboutObject(o) /\ (o.changed \/ o.cmdChanged)
QueryShouldWasDelete(o) == o.InWas /\ ~QueryWillWasKnowAboutObject(o)
QueryDoesWasCareAboutObject(o) ==
  QueryShouldWasInsert(o) \/ QueryShouldWasUpdate(o) \/ QueryShouldWasDelete(o)

-----------------------------------------------------------------------------
(***************************************************************************)
(* Reading.  A notification is a sequence of elements [key, type, cmd]: the*)
(* kinds of change made to a key, and whether the data written includes the*)
(* command.  The three kinds of table read it one after the other.         *)
(***************************************************************************)
ReadObject(mb, k) == NewObject(Effective(mb, k), mb[k].cmd)

\* ReadFromMetabase: every object of the kind that is not in the table yet.
ReadAll(mb, kind, temp) ==
  [k \in Object |-> IF k \in kind /\ ~Present(temp[k]) THEN ReadObject(mb, k)
                                                       ELSE temp[k]]

\* Mutant of ReadPoolOrSite: the last element about an object always wins.
ReadLastElement(mb, temp, e) ==
  LET deleted == "DELETE" \in e.type
      new == [(IF deleted THEN NewObject(Empty, 0) ELSE ReadObject(mb, e.key))
                EXCEPT !.DeleteWhenDone = deleted,
                       !.cmdChanged = "SET" \in e.type /\ e.cmd]
  IN IF Present(new) THEN [temp EXCEPT ![e.key] = new] ELSE temp
\* An element about a pool or a site.  A second element about the same object
\* replaces the first, unless that would forget that a command was written.
ReadPoolOrSite(mb, temp, e) ==
  LET k == e.key
      deleted == "DELETE" \in e.type
      new == [(IF deleted THEN NewObject(Empty, 0) ELSE ReadObject(mb, k))
                EXCEPT !.DeleteWhenDone = deleted,
                       !.cmdChanged = "SET" \in e.type /\ e.cmd]
      old == temp[k]
      keep == /\ ~deleted /\ ~new.cmdChanged
              /\ Present(old) /\ ~old.DeleteWhenDone /\ old.cmdChanged
  IN IF ~Present(new) \/ keep THEN temp ELSE [temp EXCEPT ![k] = new]

\* The applications an element deletes.  The URL "/" counts as no URL at all
\* once its slash is dropped, so that its loss of the AppPoolId property, too,
\* deletes all the applications of the site.
DeleteSubApplications(e) ==
  IF e.key \in Site THEN IF "DELETE" \in e.type THEN AppsOf(e.key) ELSE {}
  ELSE IF {"DELETE", "DELETE_DATA"} \cap e.type # {} THEN Subtree(e.key) ELSE {}

DeleteThisURLFromTable(master, temp, doomed) ==
  [k \in Object |->
     IF k \notin doomed THEN temp[k]
     ELSE LET o == IF Present(master[k]) THEN master[k] ELSE temp[k]
          IN IF Present(o) THEN [o EXCEPT !.DeleteWhenDone = TRUE] ELSE o]

ReadApplication(mb, master, temp, e) ==
  LET doomed == DeleteSubApplications(e)
      new == ReadObject(mb, e.key)
  IN IF e.key \in Site \/ doomed # {}
     THEN DeleteThisURLFromTable(master, temp, doomed)
     ELSE IF Present(new) THEN [temp EXCEPT ![e.key] = new] ELSE temp

\* The elements a table looks at, and whether it asks the metabase about them.
Concerns(e, kind) == e.key \in kind \/ (kind = App /\ e.key \in Site)
NeedsMetabase(els, kind) ==
  \E i \in DOMAIN els :
    \/ els[i].key = W3SVC
    \/ els[i].key \in kind /\ "DELETE" \notin els[i].type
                           /\ (kind = App => "DELETE_DATA" \notin els[i].type)

ReadElement(mb, master, kind, temp, e) ==
  IF ~Concerns(e, kind) THEN temp
  ELSE IF kind = App THEN ReadApplication(mb, master, temp, e)
                     ELSE ReadPoolOrSite(mb, temp, e)
ReadElements(mb, master, kind, temp, els) ==
  LET read[i \in 0..Len(els)] ==
        IF i = 0 THEN temp ELSE ReadElement(mb, master, kind, read[i - 1], els[i])
  IN read[Len(els)]
ReadFromMetabaseChangeNotification(mb, master, kind, temp, els) ==
  LET read == ReadElements(mb, master, kind, temp, els)
  IN IF \E i \in DOMAIN els : els[i].key = W3SVC THEN ReadAll(mb, kind, read)
                                                 ELSE read

\* Mutant of DeclareDeletions: no deletions are worked out.
DeclareNothing(master, temp) == temp
\* CalculcateDeletesFromTables: what the metabase has no more is deleted.
DeclareDeletions(master, temp) ==
  [k \in Object |-> IF Present(master[k]) /\ ~Present(temp[k])
                    THEN [master[k] EXCEPT !.DeleteWhenDone = TRUE]
                    ELSE temp[k]]

-----------------------------------------------------------------------------
(***************************************************************************)
(* Merging and validating.                                                 *)
(***************************************************************************)
\* An object WAS knows is compared with what was read, one that it does not
\* know counts as changed; the deletion of an unknown object is dropped.
MergeTable(table, temp) ==
  [k \in Object |->
     LET old == table[k]
         new == temp[k]
     IN IF ~Present(new) THEN old
        ELSE IF ~Present(old) THEN IF new.DeleteWhenDone THEN old ELSE new
        ELSE [new EXCEPT !.InWas = old.InWas,
                         !.changed = @ /\ ~(old.InWas /\ new.val = old.val)]]

PerformSelfValidation(table) ==
  [k \in Object |->
     IF QueryWillWasKnowAboutObject(table[k]) /\ table[k].val = Empty
     THEN [table[k] EXCEPT !.SelfValid = FALSE] ELSE table[k]]

Invalidate(table, invalid) ==
  [k \in Object |-> IF k \in invalid THEN [table[k] EXCEPT !.CrossValid = FALSE]
                                     ELSE table[k]]

\* An application needs its pool, a site a valid root application or, without
\* one, its own pool, and an application its site.
CrossValidateDataObjects(table) ==
  LET Known(t, kind) == {k \in kind : QueryWillWasKnowAboutObject(t[k])}
      t1 == Invalidate(table, {a \in Known(table, App) :
                                  table[a].val \notin Known(table, Pool)})
      RootIsGood(s) == t1[RootOf(s)].SelfValid /\ t1[RootOf(s)].CrossValid
      t2 == Invalidate(t1, {s \in Known(t1, Site) :
                               ~ IF Present(t1[RootOf(s)]) THEN RootIsGood(s)
                                 ELSE t1[s].val \in Known(t1, Pool)})
  IN Invalidate(t2, {a \in Known(t2, App) : a[1] \notin Known(t2, Site)})

\* The rows of a WAS_CHANGE_ITEM.
CopyInteresting(table) ==
  [k \in Object |-> IF QueryDoesWasCareAboutObject(table[k]) THEN table[k]
                                                             ELSE NoObject]

\* Mutant of ClearDeletedObjects: the verdicts of the validation are not reset.
ClearKeepsVerdicts(table) ==
  [k \in Object |->
     LET o == table[k]
         known == QueryWillWasKnowAboutObject(o)
     IN IF ~Present(o) \/ o.DeleteWhenDone THEN NoObject
        ELSE [o EXCEPT !.InWas = known, !.changed = ~known, !.cmdChanged = FALSE]]
\* Once the changes are on their way the table is made ready for the next ones.
ClearDeletedObjects(table) ==
  [k \in Object |->
     LET o == table[k]
         known == QueryWillWasKnowAboutObject(o)
     IN IF ~Present(o) \/ o.DeleteWhenDone THEN NoObject
        ELSE [o EXCEPT !.InWas = known, !.changed = ~known, !.cmdChanged = FALSE,
                       !.SelfValid = TRUE, !.CrossValid = TRUE]]

-----------------------------------------------------------------------------
(***************************************************************************)
(* What WAS knows: the tables of UL_AND_WORKER_MANAGER.  For a site the    *)
(* value is m_AppPoolIdForRootApp; an application that a site made up for  *)
(* itself has InMetabase = FALSE; cmd is the last command obeyed, or given *)
(* before the object was created.                                          *)
(***************************************************************************)
WasObject == [val : Value, InMetabase : BOOLEAN, cmd : Nat]
NotInWas == [val |-> Absent, InMetabase |-> FALSE, cmd |-> 0]
NothingInWas == [k \in Object |-> NotInWas]

\* SetConfiguration of a pool or a site: a new one takes everything.
SetConfiguration(o, old) ==
  [val |-> IF o.changed THEN o.val ELSE old.val, InMetabase |-> TRUE,
   cmd |-> IF o.cmdChanged \/ ~Present(old) THEN o.cmd ELSE old.cmd]

CreateApplication(w, a, v, inMetabase) ==
  IF Present(w[a[1]]) /\ v \in Pool /\ Present(w[v])
  THEN [val |-> v, InMetabase |-> inMetabase, cmd |-> 0] ELSE NotInWas

ModifyApplication(w, a, o, inMetabase) ==
  IF ~Present(w[a]) THEN CreateApplication(w, a, o.val, inMetabase)
  ELSE IF ~Present(w[o.val]) THEN w[a]
  ELSE [w[a] EXCEPT !.val = IF o.changed THEN o.val ELSE @,
                    !.InMetabase = inMetabase]

\* IsRootCreationInNotificationsForSite: a new site without a root application
\* in the change makes one up, in its own pool.
MakesUpRoot(c, a) ==
  a[2] = "/" /\ QueryShouldWasInsert(c[a[1]]) /\ ~Present(c[a])

CreatePoolsAndSites(c, w, kind) ==
  [k \in Object |-> IF k \in kind /\ QueryShouldWasInsert(c[k])
                    THEN SetConfiguration(c[k], w[k]) ELSE w[k]]
CreateApplications(c, w) ==
  [k \in Object |->
     IF k \notin App THEN w[k]
     ELSE IF QueryShouldWasInsert(c[k]) THEN ModifyApplication(w, k, c[k], TRUE)
     ELSE IF MakesUpRoot(c, k)
          THEN ModifyApplication(w, k, NewObject(c[k[1]].val, 0), FALSE)
     ELSE w[k]]

UpdatePools(c, w) ==
  [k \in Object |-> IF k \in Pool /\ QueryShouldWasUpdate(c[k])
                    THEN SetConfiguration(c[k], w[k]) ELSE w[k]]
\* A site that changes its pool takes a root application it made up with it.
UpdateSites(c, w) ==
  [k \in Object |->
     IF k \in Site /\ QueryShouldWasUpdate(c[k]) /\ Present(w[k])
     THEN SetConfiguration(c[k], w[k])
     ELSE IF /\ k \in App /\ k[2] = "/" /\ Present(w[k]) /\ ~w[k].InMetabase
             /\ QueryShouldWasUpdate(c[k[1]]) /\ c[k[1]].changed
          THEN ModifyApplication(w, k, NewObject(c[k[1]].val, 0), FALSE)
     ELSE w[k]]
UpdateApplications(c, w) ==
  [k \in Object |-> IF k \in App /\ QueryShouldWasUpdate(c[k])
                    THEN ModifyApplication(w, k, c[k], TRUE) ELSE w[k]]

\* Mutant of DeleteApplications: a root application that goes is not replaced.
DeleteApplicationsOnly(c, w) ==
  [k \in Object |-> IF k \in App /\ QueryShouldWasDelete(c[k]) /\ w[k].InMetabase
                    THEN NotInWas ELSE w[k]]
\* A root application that goes while its site stays is replaced by one the
\* site makes up (VIRTUAL_SITE::DissociateApplication).
DeleteApplications(c, w) ==
  [k \in Object |->
     IF k \in App /\ QueryShouldWasDelete(c[k]) /\ w[k].InMetabase
     THEN IF k[2] = "/" /\ ~QueryShouldWasDelete(c[k[1]])
          THEN CreateApplication(w, k, w[k[1]].val, FALSE) ELSE NotInWas
     ELSE w[k]]
\* The destructor of a site deletes the root application it made up.
DeleteSites(c, w) ==
  [k \in Object |-> IF \/ k \in Site /\ QueryShouldWasDelete(c[k])
                       \/ k \in App /\ k[2] = "/" /\ QueryShouldWasDelete(c[k[1]])
                    THEN NotInWas ELSE w[k]]
DeletePools(c, w) ==
  [k \in Object |-> IF k \in Pool /\ QueryShouldWasDelete(c[k]) THEN NotInWas
                                                                ELSE w[k]]

\* CreateWASObjects of the three tables, in their order.
CreateWASObjects(c, w) ==
  CreateApplications(c, CreatePoolsAndSites(c, CreatePoolsAndSites(c, w, Pool), Site))
UpdateWASObjects(c, w) == UpdateApplications(c, UpdateSites(c, UpdatePools(c, w)))
DeleteWASObjects(c, w) == DeletePools(c, DeleteSites(c, DeleteApplications(c, w)))

ProcessChanges(c, w) ==
  DeleteWASObjects(c, UpdateWASObjects(c, CreateWASObjects(c, w)))

-----------------------------------------------------------------------------
(***************************************************************************)
(* Reference: what WAS should know of a metabase, straight from it.        *)
(***************************************************************************)
Wanted(mb) ==
  LET There(k) == mb[k].val # Absent
      GoodPool(v) == v \in Pool /\ There(v)
      GoodSite(s) ==
        /\ There(s) /\ Effective(mb, s) # Empty
        /\ GoodPool(IF There(RootOf(s)) THEN mb[RootOf(s)].val ELSE Effective(mb, s))
      GoodApp(a) == There(a) /\ GoodPool(mb[a].val) /\ GoodSite(a[1])
  IN [k \in Object |->
        IF k \in App /\ GoodApp(k) THEN <<mb[k].val, TRUE>>
        ELSE IF k \in App /\ k[2] = "/" /\ GoodSite(k[1]) /\ ~There(k)
             THEN <<Effective(mb, k[1]), FALSE>>
        ELSE IF k \in Site /\ GoodSite(k) THEN <<Effective(mb, k), TRUE>>
        ELSE IF k \in Pool /\ There(k) THEN <<mb[k].val, TRUE>>
        ELSE <<Absent, FALSE>>]
Knows(w) == [k \in Object |-> <<w[k].val, w[k].InMetabase>>]
=============================================================================
