--------------------------- MODULE ConfigManager ---------------------------
(***************************************************************************)
(* CONFIG_MANAGER and CHANGE_PROCESSOR of the Web Administration Service:  *)
(* how a change an administrator makes to the metabase reaches the tables  *)
(* of the main thread, and how that survives a crash of inetinfo, the      *)
(* process that hosts the metabase.                                        *)
(*                                                                         *)
(* Four threads take part: a COM thread that delivers notifications, the   *)
(* config thread that works on its own queue, the main thread, and the     *)
(* monitor that watches inetinfo.  Reading the metabase takes a step for   *)
(* each kind of object, so that it may change in between.                  *)
(***************************************************************************)
EXTENDS ConfigTables

CONSTANTS
  InitialMetabase,   \* the metabase as it was last saved
  SiteValue, AppValue,  \* the AppPoolIds administrators write
  Writable,          \* the keys whose properties they write
  Deletable,         \* the objects they delete and add again
  DataDeletable,     \* the applications whose AppPoolId alone they delete
  MaxChanges,        \* bound: changes made to the metabase
  MaxElements,       \* bound: changes that share a notification
  MaxCrashes,        \* bound: crashes of inetinfo
  MayStop,           \* the service may be stopped
  MayFail            \* may sending changes on, and opening inetinfo, fail?

ASSUME BoundsAssumption ==
  /\ MaxChanges \in Nat /\ MaxElements \in Nat \ {0} /\ MaxCrashes \in Nat
  /\ MayStop \in BOOLEAN /\ MayFail \in BOOLEAN
ASSUME MetabaseAssumption ==
  /\ InitialMetabase \in [Key -> Entry]
  /\ Writable \subseteq Key /\ Deletable \subseteq Object /\ DataDeletable \subseteq App
\* The service has an AppPoolId, and only sites inherit it.
ASSUME ValuesAssumption ==
  /\ Absent \notin SiteValue \cup AppValue /\ Inherit \notin AppValue
  /\ InitialMetabase[W3SVC].val # Absent
  /\ \A k \in Pool \cup App : InitialMetabase[k].val # Inherit

VARIABLES
  mb,        \* the metabase
  changes,   \* the number of changes made to it
  inetinfo,  \* its process: whether it is up, and which one it is
  monitor,   \* the thread that watches it
  notif,     \* notifications it has not delivered yet
  cm,        \* the fields of CONFIG_MANAGER and CHANGE_PROCESSOR
  ct,        \* the config thread
  queue,     \* m_ConfigWorkQueue
  main,      \* where the main thread is
  mq,        \* the main work queue
  table,     \* m_AppPoolTable, m_SiteTable and m_AppTable
  was        \* what UL_AND_WORKER_MANAGER knows

vars == <<mb, changes, inetinfo, monitor, notif, cm, ct, queue, main, mq, table, was>>

Element == [key : Key, type : SUBSET {"SET", "ADD", "DELETE", "DELETE_DATA"},
            cmd : BOOLEAN]
Life == 0..(MaxCrashes + 1)

MBChange(els) == [op |-> "change", els |-> els]
Rehook == [op |-> "rehook", els |-> <<>>]
ExitThread == [op |-> "exit", els |-> <<>>]
ConfigChange(rows) == [op |-> "change", rows |-> rows]
Recover == [op |-> "recover", rows |-> EmptyTable]
StopItem == [op |-> "stop", rows |-> EmptyTable]

\* An IMSAdminBase pointer works as long as the process it came from lives.
Alive(abo) == inetinfo.up /\ abo = inetinfo.life

TypeOK ==
  /\ mb \in [Key -> Entry]
  /\ changes \in 0..MaxChanges
  /\ inetinfo \in [up : BOOLEAN, life : Life]
  /\ monitor \in [pc : {"watching", "deciding", "rehook", "failed", "stopped"},
                  watched : Life]
  /\ notif \in Seq(Seq(Element))
  /\ cm \in [ProcessChanges : BOOLEAN, ThreadProcessingDisabled : Nat,
             InCrashedState : Nat, ExitWorkLoop : BOOLEAN, BlockEvent : BOOLEAN,
             hrInit : BOOLEAN, abo : Life, hooked : Life, stopRequested : BOOLEAN,
             notSent : BOOLEAN]
  /\ ct \in [pc : {"listen", "blocked", "loop", "wait", "drop", "readPools",
                   "readSites", "readApps", "finish", "exited"},
             abo : Life, els : Seq(Element), rehook : BOOLEAN,
             temp : [Object -> DataObject]]
  /\ queue \in Seq([op : {"change", "rehook", "exit"}, els : Seq(Element)])
  /\ main \in [pc : {"wait", "readPools", "readSites", "readApps", "finish", "run",
                     "flagged", "stopping", "terminate", "join", "done"},
               abo : Life, next : {"stopping", "join"}]
  /\ mq \in Seq([op : {"change", "recover", "stop"}, rows : [Object -> DataObject]])
  /\ table \in [Object -> DataObject]
  /\ was \in [Object -> WasObject]

\* CONFIG_MANAGER::Initialize has started the monitor, created the change
\* processor and the ABO, and launched the config thread.
Init ==
  /\ mb = InitialMetabase /\ changes = 0
  /\ inetinfo = [up |-> TRUE, life |-> 1]
  /\ monitor = [pc |-> "watching", watched |-> 1]
  /\ notif = <<>> /\ queue = <<>> /\ mq = <<>>
  /\ cm = [ProcessChanges |-> FALSE, ThreadProcessingDisabled |-> 0,
           InCrashedState |-> 0, ExitWorkLoop |-> FALSE, BlockEvent |-> FALSE,
           hrInit |-> TRUE, abo |-> 1, hooked |-> 0, stopRequested |-> FALSE,
           notSent |-> FALSE]
  /\ ct = [pc |-> "listen", abo |-> 1, els |-> <<>>, rehook |-> FALSE,
           temp |-> EmptyTable]
  /\ main = [pc |-> "wait", abo |-> 1, next |-> "stopping"]
  /\ table = EmptyTable /\ was = NothingInWas

-----------------------------------------------------------------------------
(***************************************************************************)
(* inetinfo and the administrators.  Changes that are made quickly share a *)
(* notification.                                                           *)
(***************************************************************************)
Notify(e) ==
  notif' = IF cm.hooked # inetinfo.life THEN notif
           ELSE Append(notif, <<e>>)
NotifyTogether(e) ==
  /\ cm.hooked = inetinfo.life /\ notif # <<>> /\ Len(Last(notif)) < MaxElements
  /\ notif' = Front(notif) \o <<Append(Last(notif), e)>>

Change(new, k, type, cmd) ==
  LET e == [key |-> k, type |-> type, cmd |-> cmd]
  IN /\ inetinfo.up /\ changes < MaxChanges
     /\ changes' = changes + 1
     /\ mb' = new
     /\ Notify(e) \/ NotifyTogether(e)
     /\ UNCHANGED <<inetinfo, monitor, cm, ct, queue, main, mq, table, was>>

ValuesOf(k) == IF k \in Pool THEN Setting ELSE IF k \in App THEN AppValue
               ELSE IF k = W3SVC THEN SiteValue \ {Inherit} ELSE SiteValue

SetData(k, v) ==
  /\ k \in Writable /\ mb[k].val # Absent /\ v \in ValuesOf(k) \ {mb[k].val}
  /\ Change([mb EXCEPT ![k].val = v], k, {"SET"}, FALSE)
WriteCommand(k) ==
  /\ k \in Writable \cap Commanded /\ mb[k].val # Absent
  /\ Change([mb EXCEPT ![k].cmd = changes + 1], k, {"SET"}, TRUE)
AddObject(k, v) ==
  /\ k \in Deletable /\ mb[k].val = Absent /\ v \in ValuesOf(k)
  /\ k \in App => mb[k[1]].val # Absent
  /\ Change([mb EXCEPT ![k].val = v], k, {"ADD", "SET"}, FALSE)
DeleteObject(k) ==
  /\ k \in Deletable /\ mb[k].val # Absent
  /\ Change([j \in Key |-> IF j \in Subtree(k) THEN NoEntry ELSE mb[j]],
            k, {"DELETE"}, FALSE)
DeleteData(k) ==
  /\ k \in DataDeletable /\ mb[k].val # Absent
  /\ Change([mb EXCEPT ![k] = NoEntry], k, {"DELETE_DATA"}, FALSE)

\* The writes since the last save may be lost, and undelivered notifications are.
Crash ==
  /\ inetinfo.up /\ inetinfo.life <= MaxCrashes
  /\ inetinfo' = [inetinfo EXCEPT !.up = FALSE]
  /\ notif' = <<>>
  /\ mb' \in {mb, InitialMetabase}
  /\ UNCHANGED <<changes, monitor, cm, ct, queue, main, mq, table, was>>
Restart ==
  /\ ~inetinfo.up
  /\ inetinfo' = [up |-> TRUE, life |-> inetinfo.life + 1]
  /\ UNCHANGED <<mb, changes, monitor, notif, cm, ct, queue, main, mq, table, was>>

\* CHANGE_PROCESSOR::StartMBChangeItem, on a thread of COM.
StartMBChangeItem ==
  /\ notif # <<>> /\ main.pc # "done"
  /\ notif' = Tail(notif)
  /\ queue' = Append(queue, MBChange(Head(notif)))
  /\ UNCHANGED <<mb, changes, inetinfo, monitor, cm, ct, main, mq, table, was>>

-----------------------------------------------------------------------------
(***************************************************************************)
(* The monitor of inetinfo (MonitorProcess and NotifyOfInetinfoFailure).   *)
(***************************************************************************)
MonitorUnchanged == UNCHANGED <<mb, changes, inetinfo, notif, ct, queue, main, table, was>>

RecordInetinfoCrash ==
  /\ monitor.pc = "watching" /\ ~Alive(monitor.watched) /\ main.pc # "done"
  /\ monitor' = [monitor EXCEPT !.pc = "deciding"]
  /\ cm' = [cm EXCEPT !.InCrashedState = @ + 1, !.ThreadProcessingDisabled = @ + 1]
  /\ UNCHANGED mq /\ MonitorUnchanged

\* inetinfo was seen to run again in time.
MonitorActionRehook ==
  /\ monitor.pc = "deciding" /\ inetinfo.up
  /\ monitor' = [monitor EXCEPT !.pc = "rehook"]
  /\ UNCHANGED <<cm, mq>> /\ MonitorUnchanged

\* A request to stop is ignored while one is on its way.
RequestStopService ==
  /\ cm' = [cm EXCEPT !.stopRequested = TRUE]
  /\ mq' = IF cm.stopRequested THEN mq ELSE Append(mq, StopItem)
MonitorActionShutdown ==
  /\ MayStop /\ monitor.pc = "deciding" /\ main.pc # "done"
  /\ monitor' = [monitor EXCEPT !.pc = "stopped"]
  /\ RequestStopService /\ MonitorUnchanged

\* With a handle to the new process the recovery is queued, and it is watched;
\* without one the monitor gives up.
QueueRecoveryFromInetinfoCrash ==
  /\ monitor.pc = "rehook" /\ inetinfo.up /\ main.pc # "done"
  /\ monitor' = [pc |-> "watching", watched |-> inetinfo.life]
  /\ mq' = Append(mq, Recover)
  /\ UNCHANGED cm /\ MonitorUnchanged
RecordInetinfoMonitorStopped ==
  /\ monitor.pc = "rehook" /\ (~inetinfo.up \/ MayFail)
  /\ monitor' = [monitor EXCEPT !.pc = "failed"]
  /\ UNCHANGED <<cm, mq>> /\ MonitorUnchanged

-----------------------------------------------------------------------------
(***************************************************************************)
(* The config thread.                                                      *)
(***************************************************************************)
ConfigUnchanged == UNCHANGED <<mb, changes, inetinfo, monitor, notif, main, was>>

\* StartListeningForChangeNotifications, whose result the main thread waits for;
\* then the thread blocks until the main thread has initialized.
StartListening ==
  cm' = [cm EXCEPT !.hrInit = Alive(cm.abo),
                   !.hooked = IF Alive(cm.abo) THEN cm.abo ELSE @]
StartListeningForChangeNotifications ==
  /\ ct.pc = "listen"
  /\ StartListening
  /\ ct' = [ct EXCEPT !.pc = "blocked"]
  /\ UNCHANGED <<queue, mq, table>> /\ ConfigUnchanged
Unblock ==
  /\ ct.pc = "blocked" /\ cm.BlockEvent
  /\ ct' = [ct EXCEPT !.pc = "loop"]
  /\ UNCHANGED <<cm, queue, mq, table>> /\ ConfigUnchanged

\* RunNotificationWorkQueue: the flag is looked at between two items only.
CheckExitWorkLoop ==
  /\ ct.pc = "loop"
  /\ IF cm.ExitWorkLoop
     THEN /\ ct' = [ct EXCEPT !.pc = "exited"]
          /\ cm' = [cm EXCEPT !.hooked = IF cm.abo = @ THEN 0 ELSE @]
     ELSE ct' = [ct EXCEPT !.pc = "wait"] /\ UNCHANGED cm
  /\ UNCHANGED <<queue, mq, table>> /\ ConfigUnchanged

\* One item of the queue.
Dequeue(op) ==
  /\ ct.pc = "wait" /\ queue # <<>> /\ Head(queue).op = op
  /\ queue' = Tail(queue)
  /\ UNCHANGED <<mq, table>> /\ ConfigUnchanged
NothingToDo == [pc |-> "loop", abo |-> cm.abo, els |-> <<>>, rehook |-> FALSE,
                temp |-> EmptyTable]
Processing(els, rehook) ==
  [ct EXCEPT !.pc = IF rehook THEN "readPools" ELSE "drop", !.abo = cm.abo,
             !.els = els, !.rehook = rehook, !.temp = EmptyTable]

ProcessMetabaseChangeOnConfigThread ==
  /\ Dequeue("change")
  /\ ct' = IF ~cm.ProcessChanges \/ cm.ThreadProcessingDisabled # 0 THEN NothingToDo
           ELSE Processing(Head(queue).els, FALSE)
  /\ UNCHANGED cm
ProcessMetabaseCrashOnConfigThread ==
  /\ Dequeue("rehook")
  /\ StartListening
  /\ ct' = IF Alive(cm.abo) THEN Processing(<<>>, TRUE) ELSE NothingToDo
ExitChangeThreadItem ==
  /\ Dequeue("exit")
  /\ ct' = NothingToDo
  /\ UNCHANGED cm

\* Mutant of CanIgnoreWorkItem: the path is not compared.
CanIgnoreAnyPath(item, k) ==
  /\ item.op = "change" /\ Len(item.els) = 1
  /\ item.els[1].type = {"SET"} /\ ~item.els[1].cmd
\* A change of properties that is next in the queue says nothing new when the
\* item in hand is about the same object, which is read only now.
CanIgnoreWorkItem(item, k) ==
  /\ item.op = "change" /\ Len(item.els) = 1
  /\ item.els[1].type = {"SET"} /\ ~item.els[1].cmd
  /\ item.els[1].key = k
Droppable ==
  /\ Len(ct.els) = 1 /\ ct.els[1].type \in {{"SET"}, {"ADD"}, {"SET", "ADD"}}
  /\ queue # <<>> /\ CanIgnoreWorkItem(Head(queue), ct.els[1].key)
DropAllUninterestingMBChanges ==
  /\ ct.pc = "drop" /\ Droppable
  /\ queue' = Tail(queue)
  /\ UNCHANGED <<cm, ct, mq, table>> /\ ConfigUnchanged
CreateTempDataObjectTables ==
  /\ ct.pc = "drop" /\ ~Droppable
  /\ ct' = [ct EXCEPT !.pc = "readPools", !.abo = cm.abo]
  /\ UNCHANGED <<cm, queue, mq, table>> /\ ConfigUnchanged

\* CreateTempDataObjectTables or, after a crash, ReadDataFromMetabase: a kind of
\* object at a time.  The item is given up when the metabase does not answer.
ReadKind(pc, kind, next) ==
  LET answered == ~(ct.rehook \/ NeedsMetabase(ct.els, kind)) \/ Alive(ct.abo)
  IN /\ ct.pc = pc
     /\ ct' = IF ~answered THEN NothingToDo
              ELSE [ct EXCEPT !.pc = next,
                      !.temp = IF ct.rehook THEN ReadAll(mb, kind, @)
                               ELSE ReadFromMetabaseChangeNotification(
                                      mb, table, kind, @, ct.els)]
     /\ UNCHANGED <<cm, queue, mq, table>> /\ ConfigUnchanged
ReadPools == ReadKind("readPools", Pool, "readSites")
ReadSites == ReadKind("readSites", Site, "readApps")
ReadApps == ReadKind("readApps", App, "finish")

\* FinishChangeProcessingOnConfigThread: merged, validated and sent on.  After a
\* crash what was not read is deleted, and changes are processed again.
MergeAndSelfValidateTables ==
  PerformSelfValidation(MergeTable(table,
    IF ct.rehook THEN DeclareDeletions(table, ct.temp) ELSE ct.temp))
Merged == CrossValidateDataObjects(MergeAndSelfValidateTables)
\* Mutants of ProcessingAllowed: the counter is decremented after every change, or
\* never.
ProcessingAllowedAlways == [cm EXCEPT !.ThreadProcessingDisabled = @ - 1]
ProcessingStaysDisabled == cm
ProcessingAllowed ==
  IF ct.rehook THEN [cm EXCEPT !.ThreadProcessingDisabled = @ - 1] ELSE cm
FinishChangeProcessing ==
  /\ ct.pc = "finish"
  /\ mq' = Append(mq, ConfigChange(CopyInteresting(Merged)))
  /\ table' = ClearDeletedObjects(Merged)
  /\ cm' = ProcessingAllowed
  /\ ct' = NothingToDo
  /\ UNCHANGED queue /\ ConfigUnchanged
\* Mutant of SendMainThreadChangesFails: the tables are cleared whether or not the changes were sent.
ClearedThoughNotSent ==
  /\ MayFail /\ ct.pc = "finish"
  /\ table' = ClearDeletedObjects(Merged)
  /\ cm' = [cm EXCEPT !.notSent = TRUE]
  /\ ct' = NothingToDo
  /\ UNCHANGED <<queue, mq>> /\ ConfigUnchanged
\* SendMainThreadChanges fails, which is only logged: the tables are merged but
\* not made ready for the next change, nor is processing allowed again.
SendMainThreadChangesFails ==
  /\ MayFail /\ ct.pc = "finish"
  /\ table' = Merged
  /\ cm' = [cm EXCEPT !.notSent = TRUE]
  /\ ct' = NothingToDo
  /\ UNCHANGED <<queue, mq>> /\ ConfigUnchanged

-----------------------------------------------------------------------------
(***************************************************************************)
(* The main thread.                                                        *)
(***************************************************************************)
MainUnchanged == UNCHANGED <<mb, changes, inetinfo, monitor, notif, ct>>

\* LaunchChangeNotificationListener returns with the config thread's result; the
\* tables are read; an error ends Initialize, which lets the config thread run.
InitializeFails == [cm EXCEPT !.BlockEvent = TRUE]
LaunchChangeNotificationListener ==
  /\ main.pc = "wait" /\ ct.pc # "listen"
  /\ IF cm.hrInit
     THEN main' = [main EXCEPT !.pc = "readPools", !.abo = cm.abo] /\ UNCHANGED cm
     ELSE main' = [main EXCEPT !.pc = "terminate"] /\ cm' = InitializeFails
  /\ UNCHANGED <<queue, mq, table, was>> /\ MainUnchanged
ReadDataFromMetabase(pc, kind, next) ==
  /\ main.pc = pc
  /\ IF Alive(main.abo)
     THEN /\ main' = [main EXCEPT !.pc = next]
          /\ table' = PerformSelfValidation(ReadAll(mb, kind, table))
          /\ UNCHANGED cm
     ELSE /\ main' = [main EXCEPT !.pc = "terminate"]
          /\ cm' = InitializeFails
          /\ UNCHANGED table
  /\ UNCHANGED <<queue, mq, was>> /\ MainUnchanged
InitReadPools == ReadDataFromMetabase("readPools", Pool, "readSites")
InitReadSites == ReadDataFromMetabase("readSites", Site, "readApps")
InitReadApps == ReadDataFromMetabase("readApps", App, "finish")

InitializeFinishes ==
  LET valid == CrossValidateDataObjects(table)
  IN /\ main.pc = "finish"
     /\ main' = [main EXCEPT !.pc = "run"]
     /\ was' = CreateWASObjects(valid, was)
     /\ table' = ClearDeletedObjects(valid)
     /\ cm' = [cm EXCEPT !.ProcessChanges = TRUE, !.BlockEvent = TRUE]
     /\ UNCHANGED <<queue, mq>> /\ MainUnchanged

\* One item of the main work queue.
MainWorkItem(op) ==
  /\ main.pc \in {"run", "stopping"} /\ mq # <<>> /\ Head(mq).op = op
  /\ mq' = Tail(mq)
  /\ UNCHANGED table /\ MainUnchanged
ProcessConfigChange ==
  /\ MainWorkItem("change")
  /\ was' = IF cm.ProcessChanges THEN ProcessChanges(Head(mq).rows, was) ELSE was
  /\ UNCHANGED <<cm, queue, main>>

\* Mutant of RecoverFromInetinfoCrash: the config thread is not asked to hook up again.
RecoverWithoutRehook ==
  /\ MainWorkItem("recover")
  /\ IF main.pc = "stopping" \/ ~inetinfo.up THEN UNCHANGED cm
     ELSE cm' = [cm EXCEPT !.abo = inetinfo.life, !.InCrashedState = @ - 1,
                           !.hooked = IF @ = cm.abo THEN 0 ELSE @]
  /\ UNCHANGED <<queue, main, was>>
\* ReestablishAdminBaseObject and RehookChangeProcessing.  An ABO that cannot be
\* created is fatal to the service.
RecoverFromInetinfoCrash ==
  /\ MainWorkItem("recover")
  /\ IF main.pc = "stopping" THEN UNCHANGED <<cm, queue, main>>
     ELSE IF inetinfo.up
     THEN /\ cm' = [cm EXCEPT !.abo = inetinfo.life, !.InCrashedState = @ - 1,
                              !.hooked = IF @ = cm.abo THEN 0 ELSE @]
          /\ queue' = Append(queue, Rehook)
          /\ UNCHANGED main
     ELSE /\ main' = [main EXCEPT !.pc = "terminate"]
          /\ UNCHANGED <<cm, queue>>
  /\ UNCHANGED was

\* StopChangeProcessing, from StopServiceWorkItem or from Terminate: the config
\* thread is shut down once, by the flag and then by an item that makes the thread
\* look at it (RequestShutdown).
StopChangeProcessing(then) ==
  IF cm.ExitWorkLoop THEN main' = [main EXCEPT !.pc = then] /\ UNCHANGED cm
  ELSE /\ main' = [main EXCEPT !.pc = "flagged", !.next = then]
       /\ cm' = [cm EXCEPT !.ExitWorkLoop = TRUE]
\* Mutant of RequestShutdown: nothing makes the thread look at the flag.
RequestShutdownByFlagOnly ==
  /\ main.pc = "flagged"
  /\ main' = [main EXCEPT !.pc = main.next]
  /\ cm' = [cm EXCEPT !.ProcessChanges = FALSE]
  /\ UNCHANGED <<queue, mq, table, was>> /\ MainUnchanged
RequestShutdown ==
  /\ main.pc = "flagged"
  /\ main' = [main EXCEPT !.pc = main.next]
  /\ cm' = [cm EXCEPT !.ProcessChanges = FALSE]
  /\ queue' = Append(queue, ExitThread)
  /\ UNCHANGED <<mq, table, was>> /\ MainUnchanged

StopService ==
  /\ MayStop /\ main.pc = "run" /\ ~cm.stopRequested
  /\ RequestStopService
  /\ UNCHANGED <<queue, main, table, was>> /\ MainUnchanged
StopServiceWorkItem ==
  /\ MainWorkItem("stop")
  /\ StopChangeProcessing("stopping")
  /\ UNCHANGED <<queue, was>>
\* The worker processes are gone: UlAndWorkerManagerShutdownDone.
ShutdownDone ==
  /\ main.pc = "stopping"
  /\ main' = [main EXCEPT !.pc = "terminate"]
  /\ UNCHANGED <<cm, queue, mq, table, was>> /\ MainUnchanged

\* CONFIG_AND_CONTROL_MANAGER::Terminate waits for the config thread, and then
\* throws away what is left in its queue.
BeginTerminate ==
  /\ main.pc = "terminate"
  /\ StopChangeProcessing("join")
  /\ UNCHANGED <<queue, mq, table, was>> /\ MainUnchanged
Terminate ==
  /\ main.pc = "join" /\ ct.pc = "exited"
  /\ main' = [main EXCEPT !.pc = "done"]
  /\ queue' = <<>> /\ mq' = <<>>
  /\ UNCHANGED <<cm, table, was>> /\ MainUnchanged

-----------------------------------------------------------------------------
Administration ==
  \/ \E k \in Key, v \in Value : SetData(k, v)
  \/ \E k \in Key : WriteCommand(k)
  \/ \E k \in Object, v \in Value : AddObject(k, v)
  \/ \E k \in Object : DeleteObject(k)
  \/ \E k \in App : DeleteData(k)
MonitorThread ==
  \/ RecordInetinfoCrash \/ MonitorActionRehook \/ MonitorActionShutdown
  \/ QueueRecoveryFromInetinfoCrash \/ RecordInetinfoMonitorStopped
ConfigThread ==
  \/ StartListeningForChangeNotifications \/ Unblock \/ CheckExitWorkLoop
  \/ ProcessMetabaseChangeOnConfigThread \/ ProcessMetabaseCrashOnConfigThread
  \/ ExitChangeThreadItem
  \/ DropAllUninterestingMBChanges \/ CreateTempDataObjectTables
  \/ ReadPools \/ ReadSites \/ ReadApps
  \/ FinishChangeProcessing \/ SendMainThreadChangesFails
MainThread ==
  \/ LaunchChangeNotificationListener
  \/ InitReadPools \/ InitReadSites \/ InitReadApps \/ InitializeFinishes
  \/ ProcessConfigChange \/ RecoverFromInetinfoCrash
  \/ StopServiceWorkItem \/ RequestShutdown \/ ShutdownDone \/ BeginTerminate \/ Terminate

Next ==
  \/ Administration \/ Crash \/ Restart \/ StartMBChangeItem
  \/ MonitorThread \/ ConfigThread \/ MainThread \/ StopService

Spec == Init /\ [][Next]_vars

\* Threads are scheduled, notifications arrive, the SCM restarts inetinfo, and a
\* service that stops gets rid of its worker processes.
FairSpec ==
  /\ Spec
  /\ WF_vars(StartMBChangeItem) /\ WF_vars(MonitorThread) /\ WF_vars(ConfigThread)
  /\ WF_vars(MainThread) /\ WF_vars(Restart)

-----------------------------------------------------------------------------
(***************************************************************************)
(* Properties.                                                             *)
(***************************************************************************)
\* Nothing is under way: inetinfo is up and watched, every queue is empty.
Quiet ==
  /\ inetinfo.up /\ monitor = [pc |-> "watching", watched |-> inetinfo.life]
  /\ notif = <<>> /\ queue = <<>> /\ mq = <<>>
  /\ ct.pc = "wait" /\ main.pc = "run"

\* Once nothing is under way, WAS knows exactly what the metabase says: however
\* changes were batched, dropped, read late or overtaken by a crash of inetinfo
\* (ProcessMetabaseChangeOnConfigThread, ProcessMetabaseCrashOnConfigThread), unless
\* a change could not be sent, which is logged.
Converged == Quiet /\ ~cm.notSent => Knows(was) = Wanted(mb)

UpToDate(o, k) ==
  IF mb[k].val = Absent THEN ~Present(o) \/ o.DeleteWhenDone
  ELSE Present(o) /\ ~o.DeleteWhenDone /\ o.val = Effective(mb, k)
Covers(e, k) ==
  \/ e.key = k
  \/ "DELETE" \in e.type /\ k \in Subtree(e.key)
  \/ e.key = W3SVC /\ k \in Site
Mentions(els, k) == \E i \in DOMAIN els : Covers(els[i], k)
Listening ==
  /\ cm.ProcessChanges /\ cm.ThreadProcessingDisabled = 0
  /\ Alive(cm.abo) /\ cm.hooked = cm.abo
ToBeRead(k) ==
  \/ ct.pc \in {"drop", "readPools"}
  \/ ct.pc = "readSites" /\ k \notin Pool
  \/ ct.pc = "readApps" /\ k \in App

\* While WAS listens, whatever its tables do not know yet is announced by a
\* notification that is still to be delivered, queued or in hand, and what is in
\* hand has read it, or will: no notification is dropped or answered from old data
\* (DropAllUninterestingMBChanges, CanIgnoreWorkItem, CreateTempDataObjectTables).
NoChangeLost ==
  Listening => \A k \in Object :
    \/ UpToDate(table[k], k)
    \/ \E i \in DOMAIN notif : Mentions(notif[i], k)
    \/ \E i \in DOMAIN queue : Mentions(queue[i].els, k)
    \/ Mentions(ct.els, k) /\ ToBeRead(k)
    \/ ct.pc \in {"readSites", "readApps", "finish"} /\ ~ToBeRead(k)
         /\ UpToDate(ct.temp[k], k)

\* The config thread's idea of what WAS knows, m_InWas, is right once WAS has
\* worked off the changes on their way to it: an object is never created twice,
\* nor updated or deleted when it is not there.
Told(w, items) ==
  LET told[i \in 0..Len(items)] ==
        IF i = 0 THEN w
        ELSE IF items[i].op = "change" THEN ProcessChanges(items[i].rows, told[i - 1])
        ELSE told[i - 1]
  IN told[Len(items)]
ToldWas == Told(was, mq)
InWasExact ==
  cm.ProcessChanges =>
    LET told == ToldWas
    IN \A k \in Object : table[k].InWas <=> told[k].InMetabase

\* At every step every application WAS knows has its site and its pool, and every
\* site its root application (VIRTUAL_SITE::m_pRootApplication).
WasConsistent ==
  /\ \A a \in App : Present(was[a]) => Present(was[a[1]]) /\ Present(was[was[a].val])
  /\ main.pc # "wait" =>
       \A s \in Site : Present(was[s]) => Present(was[RootOf(s)])

\* Without a crash the last command given to a pool or a site WAS knows is obeyed
\* (AppPoolCommand and ServerCommand), whatever else was written around it.
CommandsObeyed ==
  Quiet /\ inetinfo.life = 1 =>
    \A k \in Commanded : Present(was[k]) => mb[k].cmd \in {0, was[k].cmd}

\* When the recovery from a crash is over, changes are processed again, and the
\* metabase is not thought to be in its crashed state.
RecoveryCompletes ==
  Quiet /\ ~cm.notSent => cm.ThreadProcessingDisabled = 0 /\ cm.InCrashedState = 0

\* A service that is asked to stop does: the main thread never waits for a config
\* thread that waits for something else (RequestShutdown, Terminate).
StopCompletes == cm.stopRequested ~> main.pc = "done"

\* Administrators who stop making changes see them take effect, unless the service
\* has stopped, the monitor of inetinfo has failed or a change could not be sent.
ChangesTakeEffect ==
  []<>(\/ Knows(was) = Wanted(mb)
       \/ main.pc = "done" \/ monitor.pc = "failed" \/ cm.notSent)
=============================================================================
