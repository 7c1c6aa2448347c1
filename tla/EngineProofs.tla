---------------------------- MODULE EngineProofs ----------------------------
(***************************************************************************)
(* The handlers keep the tables well-typed, whatever the request bodies;   *)
(* type correctness of Engine, and the agreement of e.workers with the     *)
(* goroutines, for any number of monitors, channels and goroutines.        *)
(***************************************************************************)
EXTENDS Engine, TLAPS

-----------------------------------------------------------------------------
(* The tables *)

LEMMA BumpType == ASSUME NEW n \in 0 .. MaxFails PROVE Bump(n) \in 0 .. MaxFails
  BY StoreAssumption DEF Bump

LEMMA NewMonitorType == ASSUME NEW body \in MonitorBodies PROVE NewMonitor(body) \in MonitorRows
  BY StoreAssumption
     DEF NewMonitor, MonitorRows, NonZero, Lives, Statuses, Verdicts

LEMMA NewChannelType == ASSUME NEW body \in ChannelBodies PROVE NewChannel(body) \in ChannelRows
  BY StoreAssumption DEF NewChannel, ChannelRows, NonZero, Lives

(* A row of the monitors table is replaced by another row. *)
LEMMA MonitorRowType ==
  ASSUME StoreTypeOK, NEW m \in Monitors, NEW row \in MonitorRows
  PROVE  [monitor EXCEPT ![m] = row] \in [Monitors -> MonitorRows]
  BY DEF StoreTypeOK

LEMMA StoreInitType == StoreInit => StoreTypeOK
  BY StoreAssumption
     DEF StoreInit, StoreTypeOK, MonitorRows, ChannelRows, Lives, Statuses, Verdicts

(* No handler step, nor the failure of one, leaves the tables' types        *)
(* (handlers.go:36-223).                                                    *)
LEMMA HandlersType == StoreTypeOK /\ Handlers => StoreTypeOK'
<1> SUFFICES ASSUME StoreTypeOK, Handlers PROVE StoreTypeOK'
  OBVIOUS
<1> USE DEF StoreTypeOK
<1>1. ASSUME NEW m \in Monitors, NEW body \in MonitorBodies, CreateMonitor(m, body)
      PROVE  StoreTypeOK'
  <2>1. monitor' \in [Monitors -> MonitorRows]
    BY <1>1, NewMonitorType DEF CreateMonitor
  <2>2. requests' \subseteq RequestSet
    BY <1>1 DEF CreateMonitor, RequestSet
  <2>3. QED
    BY <1>1, <2>1, <2>2 DEF CreateMonitor
<1>2. ASSUME NEW m \in Monitors, NEW body \in MonitorBodies, UpdateMonitor(m, body)
      PROVE  StoreTypeOK'
  <2> DEFINE row == [monitor[m] EXCEPT !.interval = NonZero(body.interval, @),
                                       !.active = @ \/ body.active]
  <2>1. body.interval \in Nat /\ body.active \in BOOLEAN
    BY StoreAssumption
  <2>2. row \in MonitorRows
    BY <2>1 DEF MonitorRows, NonZero
  <2>3. monitor' = [monitor EXCEPT ![m] = row]
    BY <1>2 DEF UpdateMonitor, MonitorRows
  <2>4. QED
    BY <1>2, <2>2, <2>3, MonitorRowType DEF UpdateMonitor
<1>3. ASSUME NEW m \in Monitors, NEW ids \in SUBSET Channels, SetMonitorNotifications(m, ids)
      PROVE  StoreTypeOK'
  BY <1>3 DEF SetMonitorNotifications, RequestSet, LiveChannels
<1>4. ASSUME NEW m \in Monitors, DeleteMonitor(m)
      PROVE  StoreTypeOK'
  <2>1. [monitor[m] EXCEPT !.life = "deleted"] \in MonitorRows
    BY DEF MonitorRows, Lives
  <2>2. monitor' = [monitor EXCEPT ![m] = [monitor[m] EXCEPT !.life = "deleted"]]
    BY <1>4 DEF DeleteMonitor
  <2>3. QED
    BY <1>4, <2>1, <2>2, MonitorRowType DEF DeleteMonitor
<1>5. ASSUME NEW m \in Monitors, PauseMonitor(m)
      PROVE  StoreTypeOK'
  <2> DEFINE row == [monitor[m] EXCEPT !.active = FALSE, !.status = "MAINTENANCE"]
  <2>1. row \in MonitorRows
    BY DEF MonitorRows, Statuses
  <2>2. monitor' = [monitor EXCEPT ![m] = row]
    BY <1>5 DEF PauseMonitor, MonitorRows
  <2>3. QED
    BY <1>5, <2>1, <2>2, MonitorRowType DEF PauseMonitor
<1>6. ASSUME NEW m \in Monitors, ResumeMonitor(m)
      PROVE  StoreTypeOK'
  <2> DEFINE row == [monitor[m] EXCEPT !.active = TRUE, !.status = "PENDING"]
  <2>1. row \in MonitorRows
    BY DEF MonitorRows, Statuses
  <2>2. monitor' = [monitor EXCEPT ![m] = row]
    BY <1>6 DEF ResumeMonitor, MonitorRows
  <2>3. QED
    BY <1>6, <2>1, <2>2, MonitorRowType DEF ResumeMonitor
<1>7. ASSUME NEW c \in Channels, NEW body \in ChannelBodies, CreateNotification(c, body)
      PROVE  StoreTypeOK'
  BY <1>7, NewChannelType DEF CreateNotification
<1>8. ASSUME NEW c \in Channels, NEW body \in ChannelBodies, UpdateNotification(c, body)
      PROVE  StoreTypeOK'
  <2> DEFINE row == [channel[c] EXCEPT !.active = @ \/ body.active,
                                       !.onDown = @ \/ body.onDown,
                                       !.onUp   = @ \/ body.onUp,
                                       !.after  = NonZero(body.after, @)]
  <2>1. /\ body.active \in BOOLEAN /\ body.onDown \in BOOLEAN /\ body.onUp \in BOOLEAN
        /\ body.after \in Nat
    BY StoreAssumption
  <2>2. row \in ChannelRows
    BY <2>1 DEF ChannelRows, NonZero
  <2>3. channel' = [channel EXCEPT ![c] = row]
    BY <1>8 DEF UpdateNotification
  <2>4. QED
    BY <1>8, <2>2, <2>3 DEF UpdateNotification
<1>9. ASSUME NEW c \in Channels, DeleteNotification(c)
      PROVE  StoreTypeOK'
  <2>1. [channel[c] EXCEPT !.life = "deleted"] \in ChannelRows
    BY DEF ChannelRows, Lives
  <2>2. channel' = [channel EXCEPT ![c] = [channel[c] EXCEPT !.life = "deleted"]]
    BY <1>9 DEF DeleteNotification
  <2>3. QED
    BY <1>9, <2>1, <2>2 DEF DeleteNotification
<1>10. ASSUME NEW r \in requests, AttachAll(r)
       PROVE  StoreTypeOK'
  BY <1>10 DEF AttachAll, RequestSet, LiveChannels
<1>11. ASSUME NEW r \in requests, Prune(r)
       PROVE  StoreTypeOK'
  BY <1>11 DEF Prune, RequestSet
<1>12. ASSUME NEW r \in requests, RequestFails(r)
       PROVE  StoreTypeOK'
  BY <1>12 DEF RequestFails
<1>13. QED
  BY <1>1, <1>2, <1>3, <1>4, <1>5, <1>6, <1>7, <1>8, <1>9, <1>10, <1>11, <1>12 DEF Handlers
-----------------------------------------------------------------------------
(* The goroutine records that the steps build. *)

LEMMA DeadType == Dead \in Goroutine
  BY StoreAssumption DEF Dead, Goroutine, PCs, Statuses, Verdicts

LEMMA StartedType == ASSUME NEW snap \in Snapshots PROVE Started(snap) \in Goroutine
  BY DEF Started, Snapshots, Goroutine, PCs, Verdicts

LEMMA CancelledType ==
  ASSUME NEW g \in Goroutine
  PROVE  /\ Cancelled(g) \in Goroutine
         /\ Cancelled(g).pc = "dead" \/ Cancelled(g).cancelled
  BY DEF Cancelled, Goroutine

LEMMA WaitingType ==
  ASSUME NEW g \in Goroutine
  PROVE  /\ Waiting(g) \in Goroutine
         /\ Waiting(g).pc = "idle"
         /\ Waiting(g).cancelled = g.cancelled
<1>1. g.cancelled \in BOOLEAN /\ g.period \in Nat
  BY DEF Goroutine
<1>2. QED
  BY <1>1, StoreAssumption DEF Waiting, Goroutine, PCs, Statuses, Verdicts

LEMMA AfterAlertsType ==
  ASSUME NEW m \in Monitors, NEW g \in Goroutine
  PROVE  /\ AfterAlerts(m, g) \in Goroutine
         /\ AfterAlerts(m, g).pc # "dead"
         /\ AfterAlerts(m, g).cancelled = g.cancelled
  BY WaitingType DEF AfterAlerts, Goroutine, PCs

LEMMA SnapshotType == ASSUME NEW row \in MonitorRows PROVE Snapshot(row) \in Snapshots
  BY DEF Snapshot, Snapshots, MonitorRows

LEMMA ConsecutiveFailuresType ==
  ASSUME NEW g \in Goroutine PROVE ConsecutiveFailures(g) \in 0 .. MaxFails
  BY BumpType, StoreAssumption DEF ConsecutiveFailures, Goroutine

LEMMA StoredType == ASSUME NEW ok \in Stored PROVE ok \in BOOLEAN
  BY DEF Stored

-----------------------------------------------------------------------------
(* What a step of m's goroutine s does to the goroutines. *)

USE DEF At

LEMMA BecomesType ==
  ASSUME TypeOK, NEW m \in Monitors, NEW s \in Slots, NEW g \in Goroutine, Becomes(m, s, g)
  PROVE  /\ go' \in [Monitors -> [Slots -> Goroutine]]
         /\ go'[m][s] = g
         /\ \A x \in Monitors, y \in Slots : <<x, y>> # <<m, s>> => go'[x][y] = go[x][y]
  BY DEF TypeOK, Becomes

LEMMA WriteType ==
  ASSUME TypeOK, NEW m \in Monitors, NEW row \in MonitorRows, Write(m, row)
  PROVE  monitor' \in [Monitors -> MonitorRows]
  BY DEF TypeOK, StoreTypeOK, Write

(* Every step of a worker is of this kind: nothing of the supervisor moves, *)
(* the goroutine becomes a well-formed one, alive unless it returns, and it *)
(* is not the one that changes whether it is cancelled.                     *)
WorkerStep(m, s) ==
  /\ TypeOK'
  /\ UNCHANGED <<engine, stopping, loaded, workers>>
  /\ ~At(m, s, "dead")
  /\ \A x \in Monitors, y \in Slots : <<x, y>> # <<m, s>> => go'[x][y] = go[x][y]
  /\ \/ go'[m][s].pc # "dead" /\ go'[m][s].cancelled = go[m][s].cancelled
     \/ go'[m][s] = Dead /\ (TickFails(m, s) \/ Exit(m, s))

LEMMA WorkerSteps ==
  ASSUME TypeOK, NEW m \in Monitors, NEW s \in Slots, Worker(m, s)
  PROVE  WorkerStep(m, s)
<1> DEFINE g == go[m][s]
<1>0. /\ g \in Goroutine
      /\ monitor[m] \in MonitorRows
      /\ StoreTypeOK
  BY DEF TypeOK, StoreTypeOK
(* A step that leaves the tables of types alone but for what is listed. *)
<1>a. ASSUME NEW h \in Goroutine, Becomes(m, s, h), WorkerFrame, ~At(m, s, "dead"),
             monitor' \in [Monitors -> MonitorRows],
             certNotifiedOn' \in [Monitors -> Nat], reminders' \in [Monitors -> Nat],
             said' \in [Monitors -> [Channels -> Verdicts \cup {"new"}]],
             \/ h.pc # "dead" /\ h.cancelled = g.cancelled
             \/ h = Dead /\ (TickFails(m, s) \/ Exit(m, s))
      PROVE  WorkerStep(m, s)
  <2>1. /\ go' \in [Monitors -> [Slots -> Goroutine]]
        /\ go'[m][s] = h
        /\ \A x \in Monitors, y \in Slots : <<x, y>> # <<m, s>> => go'[x][y] = go[x][y]
    BY <1>a, BecomesType
  <2>2. TypeOK'
    BY <1>a, <2>1 DEF TypeOK, StoreTypeOK, WorkerFrame
  <2>3. QED
    BY <1>a, <2>1, <2>2 DEF WorkerStep, WorkerFrame
<1>1. CASE RunCheck(m, s)
  <2>1. PICK v \in Verdicts :
          /\ Becomes(m, s, [g EXCEPT !.pc = "message", !.verdict = v])
          /\ gauge' = [gauge EXCEPT ![m] = v]
          /\ \E ok \in Stored :
               history' = IF ok
                 THEN [history EXCEPT ![m] =
                         [last |-> v, downs |-> IF v = "DOWN" THEN Bump(@.downs) ELSE 0]]
                 ELSE history
    BY <1>1 DEF RunCheck
  <2> DEFINE h == [g EXCEPT !.pc = "message", !.verdict = v]
  <2>2. h \in Goroutine /\ h.pc # "dead" /\ h.cancelled = g.cancelled
    BY <1>0 DEF Goroutine, PCs
  <2>3. /\ go' \in [Monitors -> [Slots -> Goroutine]]
        /\ go'[m][s] = h
        /\ \A x \in Monitors, y \in Slots : <<x, y>> # <<m, s>> => go'[x][y] = go[x][y]
    BY <2>1, <2>2, BecomesType
  <2>4. history' \in [Monitors -> [last : Verdicts \cup {"none"}, downs : 0 .. MaxFails]]
    <3>1. (IF v = "DOWN" THEN Bump(history[m].downs) ELSE 0) \in 0 .. MaxFails
      BY BumpType, StoreAssumption DEF TypeOK
    <3>2. QED
      BY <2>1, <3>1 DEF TypeOK
  <2>5. gauge' \in [Monitors -> Verdicts \cup {"none"}]
    BY <2>1 DEF TypeOK
  <2>6. TypeOK'
    BY <1>1, <2>3, <2>4, <2>5 DEF RunCheck, TypeOK, StoreTypeOK, storeVars
  <2>7. QED
    BY <1>1, <2>2, <2>3, <2>6 DEF RunCheck, WorkerStep, At
<1>2. CASE SaveMessage(m, s)
  <2> DEFINE h == [g EXCEPT !.pc = "status"]
  <2>1. h \in Goroutine /\ h.pc # "dead" /\ h.cancelled = g.cancelled
    BY <1>0, <1>2 DEF Goroutine, PCs, SaveMessage, At
  <2>2. [monitor[m] EXCEPT !.message = g.verdict] \in MonitorRows
    BY <1>0 DEF MonitorRows, Goroutine
  <2>3. monitor' \in [Monitors -> MonitorRows]
    BY <1>2, <2>2, WriteType DEF SaveMessage
  <2>4. QED
    BY <1>2, <1>a, <2>1, <2>3 DEF SaveMessage, At, TypeOK
<1>3. CASE StatusChanged(m, s)
  <2> DEFINE h == [g EXCEPT !.pc = "load"]
  <2>1. h \in Goroutine /\ h.pc # "dead" /\ h.cancelled = g.cancelled
    BY <1>0, <1>3 DEF Goroutine, PCs, StatusChanged, At
  <2> DEFINE row == [monitor[m] EXCEPT !.status = g.verdict, !.fails = ConsecutiveFailures(g)]
  <2>2. g.verdict \in Verdicts
    BY <1>0, <1>3 DEF StatusChanged, At, Goroutine
  <2>3. row \in MonitorRows
    BY <1>0, <2>2, ConsecutiveFailuresType DEF MonitorRows, Statuses
  <2>4. monitor' \in [Monitors -> MonitorRows]
    BY <1>3, <2>3, WriteType DEF StatusChanged
  <2>5. QED
    BY <1>3, <1>a, <2>1, <2>4 DEF StatusChanged, At, TypeOK
<1>4. CASE StatusKept(m, s)
  <2> DEFINE h == AfterAlerts(m, g)
  <2>1. h \in Goroutine /\ h.pc # "dead" /\ h.cancelled = g.cancelled
    BY <1>0, AfterAlertsType
  <2>2. [monitor[m] EXCEPT !.fails = Bump(@)] \in MonitorRows
    BY <1>0, BumpType DEF MonitorRows
  <2>3. monitor' \in [Monitors -> MonitorRows]
    BY <1>0, <1>4, <2>2, WriteType DEF StatusKept, StoreTypeOK
  <2>4. QED
    BY <1>4, <1>a, <2>1, <2>3 DEF StatusKept, At, TypeOK
<1>5. CASE LoadChannels(m, s)
  <2>1. PICK ok \in Stored :
          LET todo == {c \in Linked(m) : ok /\ Alerts(channel[c], g)} IN
            Becomes(m, s, IF todo = {} THEN AfterAlerts(m, g)
                          ELSE [g EXCEPT !.pc = "send", !.todo = todo])
    BY <1>5 DEF LoadChannels
  <2> DEFINE todo == {c \in Linked(m) : ok /\ Alerts(channel[c], g)}
             h == IF todo = {} THEN AfterAlerts(m, g) ELSE [g EXCEPT !.pc = "send", !.todo = todo]
  <2>2. todo \subseteq Channels
    BY DEF Linked, LiveChannels
  <2> HIDE DEF todo
  <2>3. h \in Goroutine /\ h.pc # "dead" /\ h.cancelled = g.cancelled
    BY <1>0, <1>5, <2>2, AfterAlertsType DEF Goroutine, PCs, LoadChannels
  <2>4. Becomes(m, s, h)
    BY <2>1 DEF todo
  <2>5. QED
    BY <1>0, <1>5, <1>a, <2>3, <2>4 DEF LoadChannels, TypeOK, StoreTypeOK
<1>6. ASSUME NEW c \in Channels, SendAlert(m, s, c)
      PROVE  WorkerStep(m, s)
  <2> DEFINE h == IF g.todo = {c} THEN AfterAlerts(m, g) ELSE [g EXCEPT !.todo = @ \ {c}]
  <2>1. h \in Goroutine /\ h.pc # "dead" /\ h.cancelled = g.cancelled
    BY <1>0, <1>6, AfterAlertsType DEF Goroutine, PCs, SendAlert
  <2>2. g.verdict \in Verdicts
    BY <1>0, <1>6 DEF SendAlert, Goroutine
  <2>3. said' \in [Monitors -> [Channels -> Verdicts \cup {"new"}]]
    BY <1>6, <2>2 DEF SendAlert, TypeOK
  <2>4. QED
    BY <1>0, <1>6, <1>a, <2>1, <2>3 DEF SendAlert, TypeOK, StoreTypeOK
<1>7. CASE CertQuiet(m, s)
  BY <1>0, <1>7, <1>a, WaitingType DEF CertQuiet, TypeOK, StoreTypeOK
<1>8. CASE CertDue(m, s)
  <2> DEFINE h == [g EXCEPT !.pc = "certload"]
  <2>1. h \in Goroutine /\ h.pc # "dead" /\ h.cancelled = g.cancelled
    BY <1>0 DEF Goroutine, PCs
  <2>2. /\ certNotifiedOn' \in [Monitors -> Nat]
        /\ reminders' \in [Monitors -> Nat]
    BY <1>8 DEF CertDue, TypeOK
  <2>3. QED
    BY <1>0, <1>8, <1>a, <2>1, <2>2 DEF CertDue, TypeOK, StoreTypeOK
<1>9. CASE CertLoad(m, s)
  <2>1. PICK ok \in Stored :
          LET todo == {c \in Linked(m) : ok /\ channel[c].active} IN
            Becomes(m, s, IF todo = {} THEN Waiting(g)
                          ELSE [g EXCEPT !.pc = "certsend", !.todo = todo])
    BY <1>9 DEF CertLoad
  <2> DEFINE todo == {c \in Linked(m) : ok /\ channel[c].active}
             h == IF todo = {} THEN Waiting(g) ELSE [g EXCEPT !.pc = "certsend", !.todo = todo]
  <2>2. todo \subseteq Channels
    BY DEF Linked, LiveChannels
  <2> HIDE DEF todo
  <2>3. h \in Goroutine /\ h.pc # "dead" /\ h.cancelled = g.cancelled
    BY <1>0, <1>9, <2>2, WaitingType DEF Goroutine, PCs, CertLoad
  <2>4. Becomes(m, s, h)
    BY <2>1 DEF todo
  <2>5. QED
    BY <1>0, <1>9, <1>a, <2>3, <2>4 DEF CertLoad, TypeOK, StoreTypeOK
<1>10. ASSUME NEW c \in Channels, CertSend(m, s, c)
       PROVE  WorkerStep(m, s)
  <2> DEFINE h == IF g.todo = {c} THEN Waiting(g) ELSE [g EXCEPT !.todo = @ \ {c}]
  <2>1. h \in Goroutine /\ h.pc # "dead" /\ h.cancelled = g.cancelled
    BY <1>0, <1>10, WaitingType DEF Goroutine, PCs, CertSend
  <2>2. QED
    BY <1>0, <1>10, <1>a, <2>1 DEF CertSend, TypeOK, StoreTypeOK
<1>11. CASE Tick(m, s)
  <2> DEFINE h == [g EXCEPT !.pc = "check", !.status = monitor[m].status,
                            !.fails = monitor[m].fails]
  <2>1. h \in Goroutine /\ h.pc # "dead" /\ h.cancelled = g.cancelled
    BY <1>0 DEF Goroutine, PCs, MonitorRows
  <2>2. QED
    BY <1>0, <1>11, <1>a, <2>1 DEF Tick, TypeOK, StoreTypeOK
<1>12. CASE TickFails(m, s)
  BY <1>0, <1>12, <1>a, DeadType DEF TickFails, TypeOK, StoreTypeOK
<1>13. CASE Exit(m, s)
  BY <1>0, <1>13, <1>a, DeadType DEF Exit, TypeOK, StoreTypeOK
<1>14. QED
  BY <1>1, <1>2, <1>3, <1>4, <1>5, <1>6, <1>7, <1>8, <1>9, <1>10, <1>11, <1>12, <1>13
     DEF Worker, Check
-----------------------------------------------------------------------------
(* A state of the supervisor: the registry against the goroutines. *)

RegistryOK ==
  /\ NoStrayWorker
  /\ NoCancelledEntry
  /\ engine = "stopped" => \A m \in Monitors : workers[m] = NoSlot

IInv == TypeOK /\ RegistryOK

LEMMA InitIInv == Init => IInv
<1> SUFFICES ASSUME Init PROVE IInv
  OBVIOUS
<1>1. StoreTypeOK
  BY StoreInitType DEF Init
<1>2. DOMAIN loaded = {}
  BY DEF Init, ProcInit, NothingLoaded
<1>3. go \in [Monitors -> [Slots -> Goroutine]]
  BY DeadType DEF Init, ProcInit
<1>4. history \in [Monitors -> [last : Verdicts \cup {"none"}, downs : 0 .. MaxFails]]
  BY StoreAssumption DEF Init
<1>5. TypeOK
  BY <1>1, <1>2, <1>3, <1>4, StoreAssumption, EngineAssumption DEF Init, ProcInit, TypeOK
<1>6. RegistryOK
  BY DEF Init, ProcInit, RegistryOK, NoStrayWorker, NoCancelledEntry, Running, Dead
<1>7. QED
  BY <1>5, <1>6 DEF IInv

(* A worker's step is invisible to the registry, but for the return of a    *)
(* goroutine, whose entry, if it has one, then names a dead one.            *)
LEMMA WorkerKeepsRegistry ==
  ASSUME IInv, NEW m \in Monitors, NEW s \in Slots, WorkerStep(m, s)
  PROVE  IInv'
<1>1. NoStrayWorker'
  <2> SUFFICES ASSUME NEW x \in Monitors, NEW y \in Slots,
                      go'[x][y].pc # "dead", ~go'[x][y].cancelled
               PROVE  workers'[x] = y
    BY DEF NoStrayWorker, Running
  <2>1. CASE <<x, y>> = <<m, s>>
    <3>1. go[m][s].pc # "dead" /\ ~go[m][s].cancelled
      BY <2>1 DEF WorkerStep, Dead
    <3>2. QED
      BY <2>1, <3>1 DEF IInv, RegistryOK, NoStrayWorker, Running, WorkerStep
  <2>2. CASE <<x, y>> # <<m, s>>
    BY <2>2 DEF IInv, RegistryOK, NoStrayWorker, Running, WorkerStep
  <2>3. QED
    BY <2>1, <2>2
<1>2. NoCancelledEntry'
  <2> SUFFICES ASSUME NEW x \in Monitors, workers'[x] # NoSlot
               PROVE  ~go'[x][workers'[x]].cancelled
    BY DEF NoCancelledEntry
  <2>1. workers'[x] = workers[x] /\ workers[x] \in Slots
    BY DEF IInv, TypeOK, WorkerStep
  <2>2. ~go[x][workers[x]].cancelled
    BY <2>1 DEF IInv, RegistryOK, NoCancelledEntry
  <2>3. CASE <<x, workers[x]>> = <<m, s>>
    BY <2>1, <2>2, <2>3 DEF WorkerStep, Dead
  <2>4. CASE <<x, workers[x]>> # <<m, s>>
    BY <2>1, <2>2, <2>4 DEF WorkerStep
  <2>5. QED
    BY <2>3, <2>4
<1>3. QED
  BY <1>1, <1>2 DEF IInv, RegistryOK, WorkerStep

(* The two halves of reload. *)
LEMMA ReloadKeepsIInv == ASSUME IInv, Reload PROVE IInv'
<1>1. CASE ReloadLoad
  <2>1. \A m \in DOMAIN loaded' : m \in Monitors /\ loaded'[m] \in Snapshots
    BY <1>1, SnapshotType DEF ReloadLoad, IInv, TypeOK, StoreTypeOK
  <2>2. TypeOK'
    BY <1>1, <2>1 DEF ReloadLoad, IInv, TypeOK, StoreTypeOK, storeVars, ghostVars
  <2>3. RegistryOK'
    BY <1>1 DEF ReloadLoad, IInv, RegistryOK, NoStrayWorker, NoCancelledEntry, Running
  <2>4. QED
    BY <2>2, <2>3 DEF IInv
<1>2. CASE ReloadFails
  BY <1>2 DEF ReloadFails, IInv, TypeOK, StoreTypeOK, storeVars, ghostVars, RegistryOK,
              NoStrayWorker, NoCancelledEntry, Running
<1>3. CASE ReloadSync
  <2>1. PICK place \in [Missing -> Slots] :
          /\ \A m \in Missing : go[m][place[m]].pc = "dead"
          /\ workers' = [m \in Monitors |->
               IF m \in Missing THEN place[m]
               ELSE IF m \in Obsolete THEN NoSlot ELSE workers[m]]
          /\ go' = [m \in Monitors |-> [s \in Slots |->
               IF m \in Missing /\ s = place[m] THEN Started(loaded[m])
               ELSE IF m \in Obsolete /\ s = workers[m] THEN Cancelled(go[m][s])
               ELSE go[m][s]]]
    BY <1>3 DEF ReloadSync, Entry
  <2>2. /\ Missing \subseteq Monitors
        /\ \A m \in Missing : loaded[m] \in Snapshots /\ workers[m] = NoSlot
        /\ \A m \in Monitors, s \in Slots : go[m][s] \in Goroutine
    BY DEF Missing, IInv, TypeOK
  <2>3. go' \in [Monitors -> [Slots -> Goroutine]]
    BY <2>1, <2>2, StartedType, CancelledType
  <2>4. workers' \in [Monitors -> Slots \cup {NoSlot}]
    BY <2>1, <2>2 DEF IInv, TypeOK
  <2>5. TypeOK'
    BY <1>3, <2>3, <2>4
       DEF ReloadSync, IInv, TypeOK, StoreTypeOK, storeVars, ghostVars, NothingLoaded
  <2>6. NoStrayWorker'
    <3> SUFFICES ASSUME NEW m \in Monitors, NEW s \in Slots,
                        go'[m][s].pc # "dead", ~go'[m][s].cancelled
                 PROVE  workers'[m] = s
      BY DEF NoStrayWorker, Running
    <3>1. CASE m \in Missing
      <4>1. CASE s = place[m]
        BY <2>1, <3>1, <4>1
      <4>2. CASE s # place[m]
        <5>1. go'[m][s] = go[m][s]
          BY <2>1, <2>2, <3>1, <4>2 DEF Obsolete
        <5>2. workers[m] = s
          BY <5>1 DEF IInv, RegistryOK, NoStrayWorker, Running
        <5>3. QED
          BY <2>2, <3>1, <5>2, EngineAssumption
      <4>3. QED
        BY <4>1, <4>2
    <3>2. CASE m \notin Missing /\ m \in Obsolete
      <4>1. s # workers[m]
        BY <2>1, <2>2, <3>2 DEF Cancelled, Goroutine
      <4>2. go'[m][s] = go[m][s]
        BY <2>1, <3>2, <4>1
      <4>3. QED
        BY <4>1, <4>2 DEF IInv, RegistryOK, NoStrayWorker, Running
    <3>3. CASE m \notin Missing /\ m \notin Obsolete
      BY <2>1, <3>3 DEF IInv, RegistryOK, NoStrayWorker, Running
    <3>4. QED
      BY <3>1, <3>2, <3>3
  <2>7. NoCancelledEntry'
    <3> SUFFICES ASSUME NEW m \in Monitors, workers'[m] # NoSlot
                 PROVE  ~go'[m][workers'[m]].cancelled
      BY DEF NoCancelledEntry
    <3>1. CASE m \in Missing
      <4>1. workers'[m] = place[m] /\ place[m] \in Slots
        BY <2>1, <3>1
      <4>2. go'[m][place[m]] = Started(loaded[m])
        BY <2>1, <3>1, <4>1
      <4>3. QED
        BY <4>1, <4>2 DEF Started
    <3>2. CASE m \notin Missing
      <4>1. m \notin Obsolete /\ workers'[m] = workers[m] /\ workers[m] \in Slots
        BY <2>1, <3>2 DEF IInv, TypeOK
      <4>2. go'[m][workers[m]] = go[m][workers[m]]
        BY <2>1, <3>2, <4>1
      <4>3. QED
        BY <4>1, <4>2 DEF IInv, RegistryOK, NoCancelledEntry
    <3>3. QED
      BY <3>1, <3>2
  <2>8. QED
    BY <1>3, <2>5, <2>6, <2>7 DEF IInv, RegistryOK, ReloadSync
<1>4. QED
  BY <1>1, <1>2, <1>3 DEF Reload

LEMMA StopAllKeepsIInv == ASSUME IInv, StopAll PROVE IInv'
<1>1. \A m \in Monitors, s \in Slots :
        go'[m][s] = IF s = workers[m] THEN Cancelled(go[m][s]) ELSE go[m][s]
  BY DEF StopAll
<1>2. TypeOK'
  <2>1. go' \in [Monitors -> [Slots -> Goroutine]]
    BY CancelledType DEF StopAll, IInv, TypeOK
  <2>2. QED
    BY <2>1 DEF StopAll, IInv, TypeOK, StoreTypeOK, storeVars, ghostVars
<1>3. NoStrayWorker'
  <2> SUFFICES ASSUME NEW m \in Monitors, NEW s \in Slots,
                      go'[m][s].pc # "dead", ~go'[m][s].cancelled
               PROVE  FALSE
    BY DEF NoStrayWorker, Running
  <2>1. go[m][s] \in Goroutine
    BY DEF IInv, TypeOK
  <2>2. s # workers[m]
    BY <1>1, <2>1, CancelledType
  <2>3. QED
    BY <1>1, <2>2 DEF IInv, RegistryOK, NoStrayWorker, Running
<1>4. QED
  BY <1>2, <1>3 DEF StopAll, IInv, RegistryOK, NoCancelledEntry

LEMMA RestartKeepsIInv == ASSUME IInv, Restart PROVE IInv'
<1>1. TypeOK'
  BY DeadType, EngineAssumption
     DEF Restart, IInv, TypeOK, StoreTypeOK, NothingLoaded, ghostVars
<1>2. RegistryOK'
  BY DEF Restart, RegistryOK, NoStrayWorker, NoCancelledEntry, Running, Dead
<1>3. QED
  BY <1>1, <1>2 DEF IInv

LEMMA RequestKeepsIInv == ASSUME IInv, Request PROVE IInv'
<1>1. StoreTypeOK'
  BY HandlersType DEF Request, IInv, TypeOK
<1>2. said' \in [Monitors -> [Channels -> Verdicts \cup {"new"}]]
  BY DEF Request, IInv, TypeOK
<1>3. QED
  BY <1>1, <1>2 DEF Request, procVars, IInv, TypeOK, RegistryOK, NoStrayWorker,
                    NoCancelledEntry, Running

LEMMA NextKeepsIInv == IInv /\ [Next]_vars => IInv'
<1> SUFFICES ASSUME IInv, [Next]_vars PROVE IInv'
  OBVIOUS
<1>1. CASE Stop
  BY <1>1 DEF Stop, IInv, TypeOK, StoreTypeOK, storeVars, ghostVars, RegistryOK,
              NoStrayWorker, NoCancelledEntry, Running
<1>2. CASE NextDay
  BY <1>2 DEF NextDay, IInv, TypeOK, StoreTypeOK, storeVars, procVars, RegistryOK,
              NoStrayWorker, NoCancelledEntry, Running
<1>3. ASSUME NEW m \in Monitors, NEW s \in Slots, Worker(m, s)
      PROVE  IInv'
  BY <1>3, WorkerSteps, WorkerKeepsRegistry DEF IInv
<1>4. CASE UNCHANGED vars
  BY <1>4 DEF vars, storeVars, procVars, ghostVars, IInv, TypeOK, StoreTypeOK, RegistryOK,
              NoStrayWorker, NoCancelledEntry, Running
<1>5. QED
  BY <1>1, <1>2, <1>3, <1>4, RequestKeepsIInv, ReloadKeepsIInv, StopAllKeepsIInv,
     RestartKeepsIInv DEF Next

-----------------------------------------------------------------------------
(* The tables, the registry and the goroutines keep their types, and a      *)
(* worker that writes or alerts does so with a verdict, for any number of   *)
(* monitors, channels and goroutines (engine.go, handlers.go).              *)
THEOREM TypeCorrect == Spec => []TypeOK
<1>1. IInv => TypeOK
  BY DEF IInv
<1>2. QED
  BY InitIInv, NextKeepsIInv, <1>1, PTL DEF Spec

(* At any time, a goroutine that nobody has told to stop is the one that    *)
(* e.workers knows, so a monitor never has two of them (engine.go:91-157).  *)
THEOREM OneLiveWorker == Spec => []NoStrayWorker
<1>1. IInv => NoStrayWorker
  BY DEF IInv, RegistryOK
<1>2. QED
  BY InitIInv, NextKeepsIInv, <1>1, PTL DEF Spec

(* The registry never holds a worker that was told to stop: cancel and      *)
(* delete always go together (engine.go:109-114).                           *)
THEOREM EntriesAreCurrent == Spec => []NoCancelledEntry
<1>1. IInv => NoCancelledEntry
  BY DEF IInv, RegistryOK
<1>2. QED
  BY InitIInv, NextKeepsIInv, <1>1, PTL DEF Spec

(* Once Engine.Start has taken stopCh and until the process is restarted,   *)
(* whatever still runs has been cancelled (engine.go:62-64, 318-325).       *)
THEOREM StopReachesAll == Spec => []StoppedMeansCancelled
<1>1. IInv => StoppedMeansCancelled
  <2> SUFFICES ASSUME IInv, engine = "stopped", NEW m \in Monitors, NEW s \in Slots,
                      Running(m, s), ~go[m][s].cancelled
               PROVE  FALSE
    BY DEF StoppedMeansCancelled
  <2>1. workers[m] = s /\ workers[m] = NoSlot
    BY DEF IInv, RegistryOK, NoStrayWorker
  <2>2. QED
    BY <2>1, EngineAssumption
<1>2. QED
  BY InitIInv, NextKeepsIInv, <1>1, PTL DEF Spec

-----------------------------------------------------------------------------
(* What makes a reminder the first of its day: once one was decided, the    *)
(* map holds today.                                                         *)
ReminderInv ==
  \A m \in Monitors :
    /\ reminders[m] \in {0, 1}
    /\ reminders[m] = 1 => certNotifiedOn[m] = day

LEMMA CertDueKeepsReminders ==
  ASSUME IInv, ReminderInv, NEW m \in Monitors, NEW s \in Slots, CertDue(m, s)
  PROVE  ReminderInv'
<1>1. reminders[m] = 0
  BY DEF CertDue, ReminderInv, IInv, TypeOK
<1>2. reminders'[m] = 1 /\ certNotifiedOn'[m] = day /\ day' = day
  BY <1>1 DEF CertDue, WorkerFrame, IInv, TypeOK
<1>3. ASSUME NEW x \in Monitors, x # m
      PROVE  reminders'[x] = reminders[x] /\ certNotifiedOn'[x] = certNotifiedOn[x]
  BY <1>3 DEF CertDue, IInv, TypeOK
<1>4. QED
  BY <1>2, <1>3 DEF ReminderInv

LEMMA NextKeepsReminders == IInv /\ ReminderInv /\ [Next]_vars => ReminderInv'
<1> SUFFICES ASSUME IInv, ReminderInv, [Next]_vars PROVE ReminderInv'
  OBVIOUS
<1>1. CASE NextDay
  BY <1>1 DEF NextDay, procVars, ReminderInv
<1>2. CASE Restart
  BY <1>2 DEF Restart, ReminderInv
<1>3. ASSUME NEW m \in Monitors, NEW s \in Slots, CertDue(m, s)
      PROVE  ReminderInv'
  BY <1>3, CertDueKeepsReminders
<1>4. CASE UNCHANGED <<certNotifiedOn, day, reminders>>
  BY <1>4 DEF ReminderInv
<1>5. ASSUME NEW m \in Monitors, NEW s \in Slots, Worker(m, s), ~CertDue(m, s)
      PROVE  UNCHANGED <<certNotifiedOn, day, reminders>>
  BY <1>5 DEF Worker, Check, RunCheck, SaveMessage, StatusChanged, StatusKept, LoadChannels,
              SendAlert, CertSend, CertQuiet, CertLoad, Tick, TickFails, Exit, WorkerFrame
<1>6. ASSUME Request \/ Reload \/ Stop \/ StopAll \/ UNCHANGED vars
      PROVE  UNCHANGED <<certNotifiedOn, day, reminders>>
  BY <1>6 DEF Request, Reload, ReloadLoad, ReloadFails, ReloadSync, Stop, StopAll, vars,
              procVars, ghostVars
<1>7. QED
  BY <1>1, <1>2, <1>3, <1>4, <1>5, <1>6 DEF Next

(* In one life of the process a monitor's certificate reminder is decided   *)
(* at most once per UTC day, however many of its goroutines overlap         *)
(* (engine.go:236, 261-270).                                                *)
THEOREM RemindedOnceADay == Spec => []OneReminderPerDay
<1>1. Init => ReminderInv
  BY DEF Init, ReminderInv
<1>2. ReminderInv => OneReminderPerDay
  BY DEF ReminderInv, OneReminderPerDay
<1>3. QED
  BY InitIInv, NextKeepsIInv, NextKeepsReminders, <1>1, <1>2, PTL DEF Spec
=============================================================================
