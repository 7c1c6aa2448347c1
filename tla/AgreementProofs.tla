--------------------------- MODULE AgreementProofs ---------------------------
(***************************************************************************)
(* What a monitor's row, its history, its gauge and its alerts say of one  *)
(* another, and what a reload achieves, for any number of monitors,        *)
(* channels and goroutines.                                                *)
(*                                                                         *)
(* Two conditions on the environment appear as hypotheses, each where the  *)
(* statement is false without it: no statement of the engine fails         *)
(* ("db" \notin Faults), and no cancelled check outlasts the 30 s to the   *)
(* next reload (SlowChecks = FALSE).  NoRestart is the third.              *)
(***************************************************************************)
EXTENDS EngineProofs

(* The process lives on: it does not crash and is not told to stop. *)
NoRestart == "crash" \notin Faults /\ "stop" \notin Operations

(* Every channel asks to hear of the first failure. *)
AtOnce == \A body \in ChannelBodies : body.after <= 1
-----------------------------------------------------------------------------
(* The registry *)

(* What has no row yet has no worker. *)
KnownMonitors ==
  \A m \in Monitors :
    monitor[m].life = "absent" =>
      /\ workers[m] = NoSlot
      /\ m \notin DOMAIN loaded
      /\ \A s \in Slots : ~Running(m, s)

(* A monitor has one goroutine at most, its entry's if it has an entry; the *)
(* rows that reload has read are used while no cancelled worker is left.    *)
OneGoroutine ==
  /\ \A m \in Monitors, s, t \in Slots : Running(m, s) /\ Running(m, t) => s = t
  /\ \A m \in Monitors, s \in Slots : Running(m, s) /\ workers[m] # NoSlot => workers[m] = s
  /\ engine = "sync" => ~Lingering
  /\ engine # "sync" => DOMAIN loaded = {}
-----------------------------------------------------------------------------
(* The status *)

Deciding == {"check", "message", "status"}

AfterCheck == {"load", "send", "cert", "certload", "certsend", "idle"}

(* message, gauge and status show the newest result. *)
Agrees(m) ==
  /\ monitor[m].message = history[m].last
  /\ gauge[m] = history[m].last
  /\ monitor[m].status \in Verdicts => monitor[m].status = history[m].last

(* How far m's goroutine g has got with telling. *)
Shown(m, g) ==
  /\ g.pc \in Deciding /\ monitor[m].status \in Verdicts => monitor[m].status = g.status
  /\ g.pc \in {"message", "status"} => history[m].last = g.verdict /\ gauge[m] = g.verdict
  /\ g.pc = "status" => monitor[m].message = g.verdict
  /\ g.pc \in {"load", "send"} => history[m].last = g.verdict
  /\ g.pc \in AfterCheck => Agrees(m)

(* A row that reload has read and is about to give a worker. *)
Awaited(m) == m \in DOMAIN loaded /\ workers[m] = NoSlot

StatusInv ==
  \A m \in Monitors : LiveMonitor(m) =>
    /\ \A s \in Slots : Shown(m, go[m][s])
    /\ Awaited(m) /\ monitor[m].status \in Verdicts => monitor[m].status = loaded[m].status
-----------------------------------------------------------------------------
(* The counter *)

Undecided == {"message", "status"}

Counted(m, g) ==
  /\ g.pc \in Deciding =>
       g.fails = monitor[m].fails /\ (g.status = "UP" => g.fails = 0)
  /\ g.pc \in Undecided =>
       history[m].downs = IF g.verdict = "DOWN" THEN Bump(monitor[m].fails) ELSE 0

CountInv ==
  \A m \in Monitors :
    /\ monitor[m].life = "absent" => history[m].downs = 0
    /\ LiveMonitor(m) =>
         /\ monitor[m].status = "UP" => monitor[m].fails = 0
         /\ \A s \in Slots : Counted(m, go[m][s])
         /\ (\A s \in Slots : go[m][s].pc \notin Undecided) => monitor[m].fails = history[m].downs
         /\ Awaited(m) => /\ loaded[m].fails = monitor[m].fails
                          /\ loaded[m].status = "UP" => loaded[m].fails = 0
-----------------------------------------------------------------------------
(* The alerts *)

(* The statuses that every channel has asked to hear of. *)
Due(status) == status = "UP" \/ (status = "DOWN" /\ AtOnce)

ChannelsWilling ==
  /\ \A c \in LiveChannels :
       /\ channel[c].active /\ channel[c].onDown /\ channel[c].onUp
       /\ AtOnce => channel[c].after <= 1
  /\ \A m \in Monitors : \A c \in attached[m] : channel[c].life # "absent"

Telling == {"load", "send"}

ToldInv ==
  /\ ChannelsWilling
  /\ \A m \in Monitors : \A c \in Linked(m) :
       LiveMonitor(m) /\ said[m][c] # "new" =>
         /\ (\A s \in Slots : go[m][s].pc \notin Telling) /\ Due(monitor[m].status) =>
              said[m][c] = monitor[m].status
         /\ \A s \in Slots :
              go[m][s].pc = "send" /\ c \notin go[m][s].todo /\ Due(go[m][s].verdict) =>
                said[m][c] = go[m][s].verdict
-----------------------------------------------------------------------------
(* Steps *)

USE DEF At

(* A handler's statement and m's row: untouched, inserted, or changed but   *)
(* for the counter and the message, and never to a verdict.                 *)
RowStep(m) ==
  \/ monitor'[m] = monitor[m]
  \/ /\ monitor[m].life = "absent"
     /\ monitor'[m].life = "live"
     /\ monitor'[m].status = "PENDING"
     /\ monitor'[m].fails = 0
  \/ /\ monitor[m].life = "live"
     /\ monitor'[m].life # "absent"
     /\ monitor'[m].fails = monitor[m].fails
     /\ monitor'[m].message = monitor[m].message
     /\ monitor'[m].status = monitor[m].status \/ monitor'[m].status \notin Verdicts

LEMMA HandlerRows ==
  ASSUME StoreTypeOK, Handlers, NEW m \in Monitors
  PROVE  RowStep(m)
<1>0. /\ monitor \in [Monitors -> MonitorRows]
      /\ monitor[m] \in MonitorRows
  BY DEF StoreTypeOK
<1>1. ASSUME NEW x \in Monitors, NEW body \in MonitorBodies, CreateMonitor(x, body)
      PROVE  RowStep(m)
  BY <1>0, <1>1 DEF CreateMonitor, NewMonitor, RowStep
<1>2. ASSUME NEW x \in Monitors, NEW body \in MonitorBodies, UpdateMonitor(x, body)
      PROVE  RowStep(m)
  BY <1>0, <1>2 DEF UpdateMonitor, LiveMonitor, MonitorRows, RowStep
<1>3. ASSUME NEW x \in Monitors, DeleteMonitor(x)
      PROVE  RowStep(m)
  BY <1>0, <1>3 DEF DeleteMonitor, LiveMonitor, MonitorRows, RowStep
<1>4. ASSUME NEW x \in Monitors, PauseMonitor(x) \/ ResumeMonitor(x)
      PROVE  RowStep(m)
  BY <1>0, <1>4 DEF PauseMonitor, ResumeMonitor, LiveMonitor, MonitorRows, Verdicts, RowStep
<1>5. CASE monitor' = monitor
  BY <1>5 DEF RowStep
<1>6. QED
  BY <1>1, <1>2, <1>3, <1>4, <1>5
     DEF Handlers, SetMonitorNotifications, CreateNotification, UpdateNotification,
         DeleteNotification, AttachAll, Prune, RequestFails

(* A statement that the worker's writes consist of. *)
LEMMA WriteFacts ==
  ASSUME TypeOK, NEW m \in Monitors, NEW row, row.life = monitor[m].life, Write(m, row)
  PROVE  /\ \A x \in Monitors : x # m => monitor'[x] = monitor[x]
         /\ monitor'[m].life = monitor[m].life
         /\ "db" \notin Faults /\ LiveMonitor(m) => monitor'[m] = row
  BY DEF TypeOK, StoreTypeOK, Write, Stored

(* A worker neither inserts nor deletes a row, and writes to its own only.  *)
LEMMA WorkerRows ==
  ASSUME TypeOK, NEW m \in Monitors, NEW s \in Slots, Worker(m, s)
  PROVE  /\ \A x \in Monitors : x # m => monitor'[x] = monitor[x]
         /\ monitor'[m].life = monitor[m].life
<1>0. monitor[m] \in MonitorRows
  BY DEF TypeOK, StoreTypeOK
<1>1. CASE SaveMessage(m, s)
  BY <1>0, <1>1, WriteFacts DEF SaveMessage, MonitorRows
<1>2. CASE StatusChanged(m, s)
  BY <1>0, <1>2, WriteFacts DEF StatusChanged, MonitorRows
<1>3. CASE StatusKept(m, s)
  BY <1>0, <1>3, WriteFacts DEF StatusKept, MonitorRows
<1>4. CASE UNCHANGED monitor
  BY <1>4
<1>5. QED
  BY <1>1, <1>2, <1>3, <1>4
     DEF Worker, Check, RunCheck, LoadChannels, SendAlert, CertSend, CertQuiet, CertDue,
         CertLoad, Tick, TickFails, Exit, storeVars

-----------------------------------------------------------------------------
(* The registry, whatever fails and however long checks take *)

LEMMA NextKeepsKnown == IInv /\ KnownMonitors /\ [Next]_vars => KnownMonitors'
<1> SUFFICES ASSUME IInv, KnownMonitors, [Next]_vars, NEW m \in Monitors,
                    monitor'[m].life = "absent"
             PROVE  /\ workers'[m] = NoSlot
                    /\ m \notin DOMAIN loaded'
                    /\ \A s \in Slots : go'[m][s].pc = "dead"
  BY DEF KnownMonitors, Running
<1>0. TypeOK /\ StoreTypeOK
  BY DEF IInv, TypeOK
<1>1. monitor[m].life = "absent"
  <2>1. CASE Request
    BY <1>0, <2>1, HandlerRows DEF Request, RowStep
  <2>2. ASSUME NEW x \in Monitors, NEW s \in Slots, Worker(x, s) PROVE monitor[m].life = "absent"
    BY <1>0, <2>2, WorkerRows
  <2>3. CASE UNCHANGED monitor
    BY <2>3
  <2> QED
    BY <2>1, <2>2, <2>3
       DEF Next, Reload, ReloadLoad, ReloadFails, ReloadSync, Stop, StopAll, Restart, NextDay,
           vars, storeVars
<1>2. /\ workers[m] = NoSlot
      /\ m \notin DOMAIN loaded
      /\ \A s \in Slots : go[m][s].pc = "dead"
  BY <1>1 DEF KnownMonitors, Running
<1>3. CASE Request \/ ReloadFails \/ Stop \/ NextDay \/ UNCHANGED vars
  BY <1>2, <1>3 DEF Request, ReloadFails, Stop, NextDay, procVars, vars
<1>4. CASE ReloadLoad
  BY <1>1, <1>2, <1>4 DEF ReloadLoad, LiveMonitor
<1>5. CASE ReloadSync
  <2>1. m \notin Missing /\ m \notin Obsolete
    BY <1>2 DEF Missing, Obsolete
  <2> QED
    BY <1>2, <1>5, <2>1 DEF ReloadSync, Entry, NothingLoaded
<1>6. CASE StopAll
  BY <1>2, <1>6 DEF StopAll, Cancelled
<1>7. CASE Restart
  BY <1>7 DEF Restart, NothingLoaded, Dead
<1>8. ASSUME NEW x \in Monitors, NEW s \in Slots, Worker(x, s)
      PROVE  /\ workers'[m] = NoSlot
             /\ m \notin DOMAIN loaded'
             /\ \A t \in Slots : go'[m][t].pc = "dead"
  <2>1. WorkerStep(x, s)
    BY <1>0, <1>8, WorkerSteps
  <2>2. x # m
    BY <1>2, <2>1 DEF WorkerStep
  <2> QED
    BY <1>2, <2>1, <2>2 DEF WorkerStep
<1>9. QED
  BY <1>3, <1>4, <1>5, <1>6, <1>7, <1>8 DEF Next, Reload

(* Without failing statements a goroutine returns only when it was told to  *)
(* or its row is deleted.                                                   *)
LEMMA NextKeepsEntries ==
  ASSUME "db" \notin Faults
  PROVE  IInv /\ KnownMonitors /\ NoZombie /\ [Next]_vars => NoZombie'
<1> SUFFICES ASSUME IInv, KnownMonitors, NoZombie, [Next]_vars, NEW m \in Monitors,
                    monitor'[m].life = "live", workers'[m] # NoSlot
             PROVE  go'[m][workers'[m]].pc # "dead"
  BY DEF NoZombie, Running, LiveMonitor
<1>0. TypeOK /\ StoreTypeOK /\ workers[m] \in Slots \cup {NoSlot}
  BY DEF IInv, TypeOK
<1>1. monitor[m].life = "live" \/ (monitor[m].life = "absent" /\ Request)
  <2>1. CASE Request
    BY <1>0, <2>1, HandlerRows DEF Request, RowStep
  <2>2. ASSUME NEW x \in Monitors, NEW s \in Slots, Worker(x, s) PROVE monitor[m].life = "live"
    BY <1>0, <2>2, WorkerRows
  <2>3. CASE UNCHANGED monitor
    BY <2>3
  <2> QED
    BY <2>1, <2>2, <2>3
       DEF Next, Reload, ReloadLoad, ReloadFails, ReloadSync, Stop, StopAll, Restart, NextDay,
           vars, storeVars
<1>2. CASE Request \/ ReloadLoad \/ ReloadFails \/ Stop \/ NextDay \/ UNCHANGED vars
  <2>1. UNCHANGED <<workers, go>>
    BY <1>2 DEF Request, ReloadLoad, ReloadFails, Stop, NextDay, procVars, vars
  <2>2. monitor[m].life = "live"
    BY <1>1, <2>1 DEF KnownMonitors
  <2> QED
    BY <2>1, <2>2 DEF NoZombie, Running, LiveMonitor
<1>3. CASE ReloadSync
  <2>1. PICK place \in [Missing -> Slots] :
          /\ workers' = [x \in Monitors |-> Entry(x, place)]
          /\ go' = [x \in Monitors |-> [s \in Slots |->
               IF x \in Missing /\ s = place[x] THEN Started(loaded[x])
               ELSE IF x \in Obsolete /\ s = workers[x] THEN Cancelled(go[x][s])
               ELSE go[x][s]]]
    BY <1>3 DEF ReloadSync
  <2>2. CASE m \in Missing
    <3>1. workers'[m] = place[m] /\ place[m] \in Slots
      BY <2>1, <2>2 DEF Entry
    <3> QED
      BY <2>1, <2>2, <3>1 DEF Started
  <2>3. CASE m \notin Missing
    <3>1. m \notin Obsolete /\ workers'[m] = workers[m] /\ workers[m] \in Slots
      BY <1>0, <2>1, <2>3 DEF Entry
    <3>2. go'[m][workers[m]] = go[m][workers[m]]
      BY <2>1, <2>3, <3>1
    <3>3. monitor[m].life = "live"
      BY <1>1, <1>3 DEF ReloadSync, storeVars
    <3> QED
      BY <3>1, <3>2, <3>3 DEF NoZombie, Running, LiveMonitor
  <2> QED
    BY <2>2, <2>3
<1>4. CASE StopAll \/ Restart
  BY <1>4 DEF StopAll, Restart
<1>5. ASSUME NEW x \in Monitors, NEW s \in Slots, Worker(x, s)
      PROVE  go'[m][workers'[m]].pc # "dead"
  <2>1. WorkerStep(x, s)
    BY <1>0, <1>5, WorkerSteps
  <2>2. workers'[m] = workers[m] /\ workers[m] \in Slots /\ monitor[m].life = "live"
    BY <1>0, <1>5, <2>1, WorkerRows DEF WorkerStep
  <2>3. go[m][workers[m]].pc # "dead" /\ ~go[m][workers[m]].cancelled
    BY <2>2 DEF NoZombie, Running, LiveMonitor, IInv, RegistryOK, NoCancelledEntry
  <2>4. CASE <<x, s>> # <<m, workers[m]>>
    BY <2>1, <2>2, <2>3, <2>4 DEF WorkerStep
  <2>5. CASE x = m /\ s = workers[m]
    <3>1. ~Exit(x, s) /\ ~TickFails(x, s)
      BY <2>2, <2>3, <2>5 DEF Exit, TickFails, LiveMonitor
    <3> QED
      BY <2>1, <2>2, <2>5, <3>1 DEF WorkerStep
  <2> QED
    BY <2>4, <2>5
<1>6. QED
  BY <1>2, <1>3, <1>4, <1>5 DEF Next, Reload

LEMMA InitRegistry == Init => KnownMonitors /\ NoZombie /\ OneGoroutine
  BY DEF Init, StoreInit, ProcInit, NothingLoaded, Dead, KnownMonitors, NoZombie, OneGoroutine,
         Running, Lingering

LEMMA ReloadSyncDone ==
  ASSUME IInv, NoZombie, ReloadSync, NEW m \in Monitors, LiveMonitor(m)
  PROVE  m \in DOMAIN loaded <=>
           \E s \in Slots : go'[m][s].pc # "dead" /\ ~go'[m][s].cancelled
<1>1. IInv'
  BY ReloadKeepsIInv DEF Reload
<1>2. PICK place \in [Missing -> Slots] :
        /\ workers' = [x \in Monitors |-> Entry(x, place)]
        /\ go' = [x \in Monitors |-> [s \in Slots |->
             IF x \in Missing /\ s = place[x] THEN Started(loaded[x])
             ELSE IF x \in Obsolete /\ s = workers[x] THEN Cancelled(go[x][s])
             ELSE go[x][s]]]
  BY DEF ReloadSync
<1>3. CASE m \in Missing
  <2>1. place[m] \in Slots /\ go'[m][place[m]] = Started(loaded[m])
    BY <1>2, <1>3
  <2>2. m \in DOMAIN loaded
    BY <1>3 DEF Missing
  <2> QED
    BY <2>1, <2>2 DEF Started
<1>4. CASE m \in DOMAIN loaded /\ m \notin Missing
  <2>1. m \notin Obsolete /\ workers[m] # NoSlot
    BY <1>4 DEF Missing, Obsolete
  <2>2. workers[m] \in Slots /\ go[m][workers[m]].pc # "dead" /\ ~go[m][workers[m]].cancelled
    BY <2>1 DEF IInv, TypeOK, NoZombie, Running, RegistryOK, NoCancelledEntry
  <2>3. go'[m][workers[m]] = go[m][workers[m]]
    BY <1>2, <1>4, <2>1, <2>2
  <2> QED
    BY <1>4, <2>2, <2>3
<1>5. CASE m \notin DOMAIN loaded
  <2>1. workers'[m] = NoSlot
    BY <1>2, <1>5 DEF Entry, Missing, Obsolete
  <2>2. ASSUME NEW s \in Slots, go'[m][s].pc # "dead", ~go'[m][s].cancelled PROVE FALSE
    <3>1. workers'[m] = s
      BY <1>1, <2>2 DEF IInv, RegistryOK, NoStrayWorker, Running
    <3> QED
      BY <2>1, <3>1, EngineAssumption
  <2> QED
    BY <1>5, <2>2
<1> QED
  BY <1>3, <1>4, <1>5 DEF Missing

(* engine.go:91: "reload syncs running workers with the DB state".  As long *)
(* as no statement fails, the monitors that have a worker at work after a   *)
(* reload are the ones its query found active, whatever handlers, slow      *)
(* checks, crashes and shutdowns interleave with its two halves             *)
(* (engine.go:91-157).                                                      *)
THEOREM ReloadAchieves == ASSUME "db" \notin Faults PROVE Spec => ReloadSyncs
<1>1. IInv /\ KnownMonitors /\ NoZombie /\ [Next]_vars =>
        [ReloadSync =>
           \A m \in Monitors : LiveMonitor(m) =>
             (m \in DOMAIN loaded <=>
                \E s \in Slots : go'[m][s].pc # "dead" /\ ~go'[m][s].cancelled)]_vars
  BY ReloadSyncDone
<1>2. IInv /\ KnownMonitors /\ NoZombie /\ [Next]_vars => NoZombie'
  BY NextKeepsEntries
<1> QED
  BY InitIInv, InitRegistry, NextKeepsIInv, NextKeepsKnown, <1>1, <1>2, PTL DEF Spec, ReloadSyncs

(* The premise of the liveness properties: as long as no statement fails,   *)
(* the entry of an existing row never outlives its goroutine, which would   *)
(* keep every later reload from starting another (engine.go:107-123,        *)
(* 145-156).                                                                *)
THEOREM WorkersSurvive == ASSUME "db" \notin Faults PROVE Spec => []NoZombie
<1>1. IInv /\ KnownMonitors /\ NoZombie /\ [Next]_vars => NoZombie'
  BY NextKeepsEntries
<1> QED
  BY InitIInv, InitRegistry, NextKeepsIInv, NextKeepsKnown, <1>1, PTL DEF Spec

(* m is paused, no goroutine of it is left, and no reload under way has     *)
(* read it as active.                                                       *)
AtRest(m) ==
  /\ LiveMonitor(m)
  /\ ~monitor[m].active
  /\ m \notin DOMAIN loaded
  /\ \A s \in Slots : ~Running(m, s)

(* What is true of PausedShowsMaintenance: the status of a monitor at rest  *)
(* is nobody's but the handlers', and MAINTENANCE stays until one of them   *)
(* activates or deletes the monitor.                                        *)
RestIsKept ==
  [][\A m \in Monitors :
       AtRest(m) /\ monitor[m].status = "MAINTENANCE" =>
         \/ monitor'[m].active
         \/ monitor'[m].life # "live"
         \/ AtRest(m)' /\ monitor'[m].status = "MAINTENANCE"]_vars

LEMMA HandlersKeepRest ==
  ASSUME StoreTypeOK, Handlers, NEW m \in Monitors, monitor[m].life = "live", ~monitor[m].active,
         monitor[m].status = "MAINTENANCE"
  PROVE  \/ monitor'[m].active
         \/ monitor'[m].life # "live"
         \/ ~monitor'[m].active /\ monitor'[m].status = "MAINTENANCE"
<1>0. monitor \in [Monitors -> MonitorRows] /\ monitor[m] \in MonitorRows
  BY DEF StoreTypeOK
<1>1. ASSUME NEW x \in Monitors, NEW body \in MonitorBodies, CreateMonitor(x, body)
      PROVE  monitor'[m] = monitor[m]
  BY <1>0, <1>1 DEF CreateMonitor
<1>2. ASSUME NEW x \in Monitors, NEW body \in MonitorBodies, UpdateMonitor(x, body)
      PROVE  monitor'[m].active \/ (~monitor'[m].active /\ monitor'[m].status = "MAINTENANCE")
  <2>1. body.active \in BOOLEAN
    BY StoreAssumption
  <2> QED
    BY <1>0, <1>2, <2>1 DEF UpdateMonitor, MonitorRows
<1>3. ASSUME NEW x \in Monitors, DeleteMonitor(x)
      PROVE  monitor'[m].life # "live" \/ monitor'[m] = monitor[m]
  BY <1>0, <1>3 DEF DeleteMonitor, MonitorRows
<1>4. ASSUME NEW x \in Monitors, PauseMonitor(x)
      PROVE  ~monitor'[m].active /\ monitor'[m].status = "MAINTENANCE"
  BY <1>0, <1>4 DEF PauseMonitor, MonitorRows
<1>5. ASSUME NEW x \in Monitors, ResumeMonitor(x)
      PROVE  monitor'[m].active \/ monitor'[m] = monitor[m]
  BY <1>0, <1>5 DEF ResumeMonitor, MonitorRows
<1>6. /\ \A x \in Monitors, ids \in SUBSET Channels :
           SetMonitorNotifications(x, ids) => monitor' = monitor
      /\ \A c \in Channels :
           /\ \A body \in ChannelBodies :
                CreateNotification(c, body) \/ UpdateNotification(c, body) => monitor' = monitor
           /\ DeleteNotification(c) => monitor' = monitor
      /\ \A r \in requests : AttachAll(r) \/ Prune(r) \/ RequestFails(r) => monitor' = monitor
  BY Zenon DEF SetMonitorNotifications, CreateNotification, UpdateNotification,
               DeleteNotification, AttachAll, Prune, RequestFails
<1> QED
  BY <1>1, <1>2, <1>3, <1>4, <1>5, <1>6, Zenon DEF Handlers

(* A pause that finds no goroutine at work, or survives the last one, is    *)
(* final, whatever fails, however slow checks are and however often the     *)
(* process restarts (engine.go:91-157, handlers.go:96-115).                 *)
THEOREM PauseHolds == Spec => RestIsKept
<1>1. ASSUME TypeOK, Next, NEW m \in Monitors, AtRest(m), monitor[m].status = "MAINTENANCE"
      PROVE  \/ monitor'[m].active
             \/ monitor'[m].life # "live"
             \/ AtRest(m)' /\ monitor'[m].status = "MAINTENANCE"
  <2>0. /\ monitor[m].life = "live" /\ ~monitor[m].active /\ m \notin DOMAIN loaded
        /\ \A s \in Slots : go[m][s].pc = "dead"
    BY <1>1 DEF AtRest, LiveMonitor, Running
  <2> SUFFICES \/ monitor'[m].active
               \/ monitor'[m].life # "live"
               \/ /\ ~monitor'[m].active /\ monitor'[m].status = "MAINTENANCE"
                  /\ m \notin DOMAIN loaded'
                  /\ \A s \in Slots : go'[m][s].pc = "dead"
    BY DEF AtRest, LiveMonitor, Running
  <2>1. CASE Request
    <3>1. UNCHANGED <<go, loaded>>
      BY <2>1 DEF Request, procVars
    <3> QED
      BY <1>1, <2>0, <2>1, <3>1, HandlersKeepRest DEF Request, TypeOK
  <2>2. CASE ReloadLoad
    BY <1>1, <2>0, <2>2 DEF ReloadLoad, storeVars
  <2>3. CASE ReloadFails \/ Stop \/ NextDay
    BY <1>1, <2>0, <2>3 DEF ReloadFails, Stop, NextDay, storeVars, procVars
  <2>4. CASE ReloadSync
    <3>1. PICK place \in [Missing -> Slots] :
            go' = [x \in Monitors |-> [s \in Slots |->
              IF x \in Missing /\ s = place[x] THEN Started(loaded[x])
              ELSE IF x \in Obsolete /\ s = workers[x] THEN Cancelled(go[x][s])
              ELSE go[x][s]]]
      BY <2>4 DEF ReloadSync
    <3>2. m \notin Missing
      BY <2>0 DEF Missing
    <3>3. \A s \in Slots : go'[m][s].pc = "dead"
      BY <2>0, <3>1, <3>2 DEF Cancelled
    <3> QED
      BY <1>1, <2>0, <2>4, <3>3 DEF ReloadSync, storeVars, NothingLoaded
  <2>5. CASE StopAll
    BY <1>1, <2>0, <2>5 DEF StopAll, Cancelled, storeVars
  <2>6. CASE Restart
    BY <1>1, <2>0, <2>6 DEF Restart, Dead, NothingLoaded
  <2>7. ASSUME NEW x \in Monitors, NEW s \in Slots, Worker(x, s)
        PROVE  /\ monitor'[m] = monitor[m] /\ m \notin DOMAIN loaded'
               /\ \A t \in Slots : go'[m][t].pc = "dead"
    <3>1. WorkerStep(x, s)
      BY <1>1, <2>7, WorkerSteps
    <3>2. x # m
      BY <2>0, <3>1 DEF WorkerStep
    <3>3. monitor'[m] = monitor[m]
      BY <1>1, <2>7, <3>2, WorkerRows
    <3> QED
      BY <2>0, <3>1, <3>2, <3>3 DEF WorkerStep
  <2> QED
    BY <1>1, <2>0, <2>1, <2>2, <2>3, <2>4, <2>5, <2>6, <2>7 DEF Next, Reload
<1>2. TypeOK /\ [Next]_vars =>
        [\A m \in Monitors :
           AtRest(m) /\ monitor[m].status = "MAINTENANCE" =>
             \/ monitor'[m].active
             \/ monitor'[m].life # "live"
             \/ AtRest(m)' /\ monitor'[m].status = "MAINTENANCE"]_vars
  BY <1>1
<1> QED
  BY TypeCorrect, <1>2, PTL DEF Spec, RestIsKept
-----------------------------------------------------------------------------
(* One goroutine at a time, when cancelled checks end before the next reload *)

(* In the second half of a reload nothing runs for a monitor without entry. *)
LEMMA NothingRuns ==
  ASSUME IInv, OneGoroutine, engine = "sync", NEW m \in Monitors, workers[m] = NoSlot,
         NEW s \in Slots
  PROVE  go[m][s].pc = "dead"
  BY EngineAssumption DEF OneGoroutine, Lingering, IInv, RegistryOK, NoStrayWorker, Running

LEMMA NextKeepsOne ==
  ASSUME SlowChecks = FALSE
  PROVE  IInv /\ OneGoroutine /\ [Next]_vars => OneGoroutine'
<1> SUFFICES ASSUME IInv, OneGoroutine, [Next]_vars PROVE OneGoroutine'
  OBVIOUS
<1>0. TypeOK
  BY DEF IInv
<1> DEFINE Cases ==
      /\ \A m \in Monitors, s, t \in Slots :
           go'[m][s].pc # "dead" /\ go'[m][t].pc # "dead" => s = t
      /\ \A m \in Monitors, s \in Slots :
           go'[m][s].pc # "dead" /\ workers'[m] # NoSlot => workers'[m] = s
      /\ engine' = "sync" =>
           \A m \in Monitors, s \in Slots : go'[m][s].pc # "dead" => ~go'[m][s].cancelled
      /\ engine' # "sync" => DOMAIN loaded' = {}
<1>1. Cases => OneGoroutine'
  BY DEF OneGoroutine, Lingering, Running
<1>2. CASE Request \/ ReloadFails \/ Stop \/ NextDay \/ UNCHANGED vars
  <2>1. /\ UNCHANGED <<workers, go, loaded>>
        /\ engine' # engine => engine' = "select" /\ engine # "sync"
    BY <1>2 DEF Request, ReloadFails, Stop, NextDay, procVars, vars
  <2> QED
    BY <1>1, <2>1 DEF OneGoroutine, Lingering, Running
<1>3. CASE ReloadLoad
  BY <1>1, <1>3 DEF ReloadLoad, OneGoroutine, Lingering, Running
<1>4. CASE ReloadSync
  <2>1. PICK place \in [Missing -> Slots] :
          /\ workers' = [x \in Monitors |-> Entry(x, place)]
          /\ go' = [x \in Monitors |-> [s \in Slots |->
               IF x \in Missing /\ s = place[x] THEN Started(loaded[x])
               ELSE IF x \in Obsolete /\ s = workers[x] THEN Cancelled(go[x][s])
               ELSE go[x][s]]]
    BY <1>4 DEF ReloadSync
  <2>2. engine = "sync" /\ engine' = "select" /\ DOMAIN loaded' = {}
    BY <1>4 DEF ReloadSync, NothingLoaded
  <2>3. ASSUME NEW m \in Missing, NEW s \in Slots, go'[m][s].pc # "dead"
        PROVE  s = place[m] /\ workers'[m] = place[m] /\ m \in Monitors
    <3>1. m \in Monitors /\ workers[m] = NoSlot
      BY <1>0 DEF Missing, TypeOK
    <3>2. go[m][s].pc = "dead"
      BY <2>2, <3>1, NothingRuns
    <3> QED
      BY <2>1, <2>3, <3>1, <3>2 DEF Obsolete, Entry
  <2>4. ASSUME NEW m \in Monitors, m \notin Missing, NEW s \in Slots, go'[m][s].pc # "dead"
        PROVE  /\ go[m][s].pc # "dead"
               /\ workers'[m] # NoSlot => workers'[m] = workers[m]
    BY <2>1, <2>4 DEF Entry, Cancelled
  <2> QED
    BY <1>1, <2>2, <2>3, <2>4 DEF OneGoroutine, Running
<1>5. CASE StopAll
  <2>1. ASSUME NEW m \in Monitors, NEW s \in Slots, go'[m][s].pc # "dead"
        PROVE  go[m][s].pc # "dead" /\ workers'[m] = NoSlot
    BY <1>5, <2>1 DEF StopAll, Cancelled
  <2>2. engine' = "stopped" /\ DOMAIN loaded' = {}
    BY <1>5 DEF StopAll, OneGoroutine
  <2> QED
    BY <1>1, <2>1, <2>2 DEF OneGoroutine, Running
<1>6. CASE Restart
  BY <1>1, <1>6 DEF Restart, Dead, NothingLoaded
<1>7. ASSUME NEW x \in Monitors, NEW y \in Slots, Worker(x, y) PROVE OneGoroutine'
  <2>1. WorkerStep(x, y)
    BY <1>0, <1>7, WorkerSteps
  <2>2. ASSUME NEW m \in Monitors, NEW s \in Slots, go'[m][s].pc # "dead"
        PROVE  go[m][s].pc # "dead" /\ go'[m][s].cancelled = go[m][s].cancelled
    BY <2>1, <2>2 DEF WorkerStep, Dead
  <2> QED
    BY <1>1, <2>1, <2>2 DEF WorkerStep, OneGoroutine, Lingering, Running
<1>8. QED
  BY <1>2, <1>3, <1>4, <1>5, <1>6, <1>7 DEF Next, Reload

-----------------------------------------------------------------------------
(* What the steps of a worker write, when no statement fails *)

(* The fields of the goroutine that a step to another place keeps. *)
Moved(g, h, pc) ==
  h.pc = pc /\ h.status = g.status /\ h.fails = g.fails /\ h.verdict = g.verdict

(* The verdict v of a check is in the history and in the gauge. *)
Checked(m, s, v) ==
  /\ go[m][s].pc = "check"
  /\ go'[m][s].pc = "message" /\ go'[m][s].verdict = v
  /\ go'[m][s].status = go[m][s].status /\ go'[m][s].fails = go[m][s].fails
  /\ gauge'[m] = v
  /\ history'[m] = [last |-> v, downs |-> IF v = "DOWN" THEN Bump(history[m].downs) ELSE 0]
  /\ \A x \in Monitors : x # m => gauge'[x] = gauge[x] /\ history'[x] = history[x]
  /\ UNCHANGED <<monitor, channel, attached, said>>

LEMMA RunCheckFacts ==
  ASSUME TypeOK, "db" \notin Faults, NEW m \in Monitors, NEW s \in Slots, RunCheck(m, s)
  PROVE  \E v \in Verdicts : Checked(m, s, v)
<1> DEFINE g == go[m][s]
<1>0. g \in Goroutine
  BY DEF TypeOK
<1>1. PICK v \in Verdicts :
        /\ Becomes(m, s, [g EXCEPT !.pc = "message", !.verdict = v])
        /\ gauge' = [gauge EXCEPT ![m] = v]
        /\ \E ok \in Stored :
             history' = IF ok
               THEN [history EXCEPT ![m] =
                       [last |-> v, downs |-> IF v = "DOWN" THEN Bump(@.downs) ELSE 0]]
               ELSE history
  BY DEF RunCheck
<1> DEFINE h == [g EXCEPT !.pc = "message", !.verdict = v]
<1>2. h \in Goroutine
  BY <1>0 DEF Goroutine, PCs
<1>3. go'[m][s] = h
  BY <1>1, <1>2, BecomesType
<1>4. history' = [history EXCEPT ![m] =
                    [last |-> v, downs |-> IF v = "DOWN" THEN Bump(history[m].downs) ELSE 0]]
  BY <1>1 DEF Stored
<1>5. /\ h.pc = "message" /\ h.verdict = v /\ h.status = g.status /\ h.fails = g.fails
  BY <1>0 DEF Goroutine
<1>6. g.pc = "check" /\ UNCHANGED <<monitor, channel, attached, said>>
  BY DEF RunCheck, storeVars
<1> QED
  BY <1>1, <1>3, <1>4, <1>5, <1>6 DEF TypeOK, Checked

(* A step that leaves everything of the story but the row, the goroutine    *)
(* and what was said.                                                       *)
StoryFrame == UNCHANGED <<channel, attached, workers, loaded, gauge, history>>

LEMMA SaveMessageFacts ==
  ASSUME TypeOK, "db" \notin Faults, NEW m \in Monitors, NEW s \in Slots, SaveMessage(m, s)
  PROVE  /\ go[m][s].pc = "message"
         /\ Moved(go[m][s], go'[m][s], "status")
         /\ LiveMonitor(m) => monitor'[m] = [monitor[m] EXCEPT !.message = go[m][s].verdict]
         /\ StoryFrame /\ UNCHANGED said
<1>1. go[m][s] \in Goroutine /\ monitor[m] \in MonitorRows
  BY DEF TypeOK, StoreTypeOK
<1>2. go[m][s].pc = "message" /\ StoryFrame /\ UNCHANGED said
  BY DEF SaveMessage, WorkerFrame, StoryFrame
<1> DEFINE h == [go[m][s] EXCEPT !.pc = "status"]
<1>3. h \in Goroutine
  BY <1>1, <1>2 DEF Goroutine, PCs
<1>4. go'[m][s] = h
  BY <1>3, BecomesType DEF SaveMessage
<1>5. Moved(go[m][s], h, "status")
  BY <1>1 DEF Moved, Goroutine
<1> DEFINE row == [monitor[m] EXCEPT !.message = go[m][s].verdict]
<1>6. row.life = monitor[m].life
  BY <1>1 DEF MonitorRows
<1>7. LiveMonitor(m) => monitor'[m] = row
  BY <1>6, WriteFacts DEF SaveMessage
<1> QED
  BY <1>2, <1>4, <1>5, <1>7

LEMMA StatusChangedFacts ==
  ASSUME TypeOK, "db" \notin Faults, NEW m \in Monitors, NEW s \in Slots, StatusChanged(m, s)
  PROVE  /\ go[m][s].pc = "status" /\ go[m][s].verdict # go[m][s].status
         /\ Moved(go[m][s], go'[m][s], "load")
         /\ LiveMonitor(m) =>
              monitor'[m] = [monitor[m] EXCEPT !.status = go[m][s].verdict,
                                               !.fails = ConsecutiveFailures(go[m][s])]
         /\ StoryFrame /\ UNCHANGED said
<1>1. go[m][s] \in Goroutine /\ monitor[m] \in MonitorRows
  BY DEF TypeOK, StoreTypeOK
<1>2. /\ go[m][s].pc = "status" /\ go[m][s].verdict # go[m][s].status
      /\ StoryFrame /\ UNCHANGED said
  BY DEF StatusChanged, WorkerFrame, StoryFrame
<1> DEFINE h == [go[m][s] EXCEPT !.pc = "load"]
<1>3. h \in Goroutine
  BY <1>1, <1>2 DEF Goroutine, PCs
<1>4. go'[m][s] = h
  BY <1>3, BecomesType DEF StatusChanged
<1>5. Moved(go[m][s], h, "load")
  BY <1>1 DEF Moved, Goroutine
<1> DEFINE row == [monitor[m] EXCEPT !.status = go[m][s].verdict,
                                     !.fails = ConsecutiveFailures(go[m][s])]
<1>6. row.life = monitor[m].life
  BY <1>1 DEF MonitorRows
<1>7. LiveMonitor(m) => monitor'[m] = row
  BY <1>6, WriteFacts DEF StatusChanged
<1> QED
  BY <1>2, <1>4, <1>5, <1>7

(* What follows the alerts is nothing that decides or tells. *)
Resting == {"cert", "idle"}

LEMMA AfterAlertsRests ==
  ASSUME NEW m \in Monitors, NEW g \in Goroutine
  PROVE  AfterAlerts(m, g).pc \in Resting
  BY DEF AfterAlerts, Waiting, Goroutine, Resting

LEMMA StatusKeptFacts ==
  ASSUME TypeOK, "db" \notin Faults, NEW m \in Monitors, NEW s \in Slots, StatusKept(m, s)
  PROVE  /\ go[m][s].pc = "status" /\ go[m][s].verdict = go[m][s].status
         /\ go'[m][s].pc \in Resting
         /\ LiveMonitor(m) =>
              monitor'[m] = IF go[m][s].verdict = "DOWN"
                              THEN [monitor[m] EXCEPT !.fails = Bump(monitor[m].fails)]
                              ELSE monitor[m]
         /\ StoryFrame /\ UNCHANGED said
<1>1. go[m][s] \in Goroutine /\ monitor[m] \in MonitorRows
  BY DEF TypeOK, StoreTypeOK
<1>2. /\ go[m][s].pc = "status" /\ go[m][s].verdict = go[m][s].status
      /\ StoryFrame /\ UNCHANGED said
  BY DEF StatusKept, WorkerFrame, StoryFrame
<1>3. go'[m][s] = AfterAlerts(m, go[m][s])
  BY <1>1, AfterAlertsType, BecomesType DEF StatusKept
<1>4. CASE go[m][s].verdict = "DOWN"
  <2> DEFINE row == [monitor[m] EXCEPT !.fails = Bump(monitor[m].fails)]
  <2>1. row.life = monitor[m].life
    BY <1>1 DEF MonitorRows
  <2>2. Write(m, row)
    BY <1>4 DEF StatusKept
  <2>3. LiveMonitor(m) => monitor'[m] = row
    BY <2>1, <2>2, WriteFacts
  <2> QED
    BY <1>1, <1>2, <1>3, <1>4, <2>3, AfterAlertsRests
<1>5. CASE go[m][s].verdict # "DOWN"
  <2>1. monitor' = monitor
    BY <1>5 DEF StatusKept
  <2> QED
    BY <1>1, <1>2, <1>3, <1>5, <2>1, AfterAlertsRests
<1> QED
  BY <1>4, <1>5

LEMMA LoadChannelsFacts ==
  ASSUME TypeOK, "db" \notin Faults, NEW m \in Monitors, NEW s \in Slots, LoadChannels(m, s)
  PROVE  /\ go[m][s].pc = "load"
         /\ go'[m][s].pc \in Resting \/ Moved(go[m][s], go'[m][s], "send")
         /\ \A c \in Linked(m) :
              Alerts(channel[c], go[m][s]) => go'[m][s].pc = "send" /\ c \in go'[m][s].todo
         /\ StoryFrame /\ UNCHANGED <<monitor, said>>
<1> DEFINE g == go[m][s]
           todo == {c \in Linked(m) : Alerts(channel[c], g)}
           h == IF todo = {} THEN AfterAlerts(m, g) ELSE [g EXCEPT !.pc = "send", !.todo = todo]
<1>1. g \in Goroutine
  BY DEF TypeOK
<1>2. g.pc = "load" /\ StoryFrame /\ UNCHANGED <<monitor, said>>
  BY DEF LoadChannels, WorkerFrame, StoryFrame
<1>3. Becomes(m, s, h)
  BY DEF LoadChannels, Stored
<1>4. \A c \in Linked(m) : Alerts(channel[c], g) => c \in todo
  OBVIOUS
<1>5. todo \subseteq Channels
  BY DEF Linked, LiveChannels
<1> HIDE DEF todo
<1>6. h \in Goroutine
  BY <1>1, <1>2, <1>5, AfterAlertsType DEF Goroutine, PCs
<1>7. go'[m][s] = h
  BY <1>3, <1>6, BecomesType
<1>8. CASE todo = {}
  BY <1>1, <1>2, <1>4, <1>7, <1>8, AfterAlertsRests
<1>9. CASE todo # {}
  <2>1. h.pc = "send" /\ h.todo = todo /\ Moved(g, h, "send")
    BY <1>1, <1>9 DEF Goroutine, Moved
  <2> QED
    BY <1>2, <1>4, <1>7, <2>1
<1> QED
  BY <1>8, <1>9

LEMMA SendAlertFacts ==
  ASSUME TypeOK, NEW m \in Monitors, NEW s \in Slots, NEW c \in Channels, SendAlert(m, s, c)
  PROVE  /\ go[m][s].pc = "send" /\ c \in go[m][s].todo
         /\ \/ go[m][s].todo = {c} /\ go'[m][s].pc \in Resting
            \/ Moved(go[m][s], go'[m][s], "send") /\ go'[m][s].todo = go[m][s].todo \ {c}
         /\ said'[m][c] = go[m][s].verdict
         /\ \A x \in Monitors, d \in Channels : <<x, d>> # <<m, c>> => said'[x][d] = said[x][d]
         /\ StoryFrame /\ UNCHANGED monitor
<1> DEFINE g == go[m][s]
<1>1. g \in Goroutine
  BY DEF TypeOK
<1>2. g.pc = "send" /\ c \in g.todo /\ StoryFrame /\ UNCHANGED monitor
  BY DEF SendAlert, WorkerFrame, StoryFrame
<1>3. /\ said'[m][c] = g.verdict
      /\ \A x \in Monitors, d \in Channels : <<x, d>> # <<m, c>> => said'[x][d] = said[x][d]
  BY DEF SendAlert, TypeOK
<1>4. CASE g.todo = {c}
  <2>1. go'[m][s] = AfterAlerts(m, g)
    BY <1>1, <1>4, AfterAlertsType, BecomesType DEF SendAlert
  <2> QED
    BY <1>1, <1>2, <1>3, <1>4, <2>1, AfterAlertsRests
<1>5. CASE g.todo # {c}
  <2> DEFINE h == [g EXCEPT !.todo = g.todo \ {c}]
  <2>1. h \in Goroutine /\ Moved(g, h, "send") /\ h.todo = g.todo \ {c}
    BY <1>1, <1>2 DEF Goroutine, Moved
  <2>2. go'[m][s] = h
    BY <1>5, <2>1, BecomesType DEF SendAlert
  <2> QED
    BY <1>2, <1>3, <2>1, <2>2
<1> QED
  BY <1>4, <1>5

(* The reminder's steps and the return of a goroutine: nothing of the story *)
(* moves but the goroutine, which has told all it had to.                   *)
Quiet(m, s) ==
  \/ CertQuiet(m, s) \/ CertDue(m, s) \/ CertLoad(m, s)
  \/ \E c \in Channels : CertSend(m, s, c)
  \/ TickFails(m, s) \/ Exit(m, s)

LEMMA QuietFacts ==
  ASSUME TypeOK, NEW m \in Monitors, NEW s \in Slots, Quiet(m, s)
  PROVE  /\ go[m][s].pc \in {"cert", "certload", "certsend", "idle"}
         /\ go'[m][s].pc \in {"certload", "certsend", "idle", "dead"}
         /\ StoryFrame /\ UNCHANGED <<monitor, said>>
<1> DEFINE g == go[m][s]
<1>0. g \in Goroutine
  BY DEF TypeOK
<1>1. /\ g.pc \in {"cert", "certload", "certsend", "idle"}
      /\ StoryFrame /\ UNCHANGED <<monitor, said>>
  BY DEF Quiet, CertQuiet, CertDue, CertLoad, CertSend, TickFails, Exit, WorkerFrame, StoryFrame
<1>2. ASSUME NEW h, h \in Goroutine, Becomes(m, s, h),
             h.pc \in {"certload", "certsend", "idle", "dead"}
      PROVE  go'[m][s].pc \in {"certload", "certsend", "idle", "dead"}
  BY <1>2, BecomesType
<1>3. CASE CertQuiet(m, s)
  BY <1>0, <1>1, <1>2, <1>3, WaitingType DEF CertQuiet
<1>4. CASE CertDue(m, s)
  <2>1. [g EXCEPT !.pc = "certload"] \in Goroutine
    BY <1>0 DEF Goroutine, PCs
  <2>2. [g EXCEPT !.pc = "certload"].pc = "certload"
    BY <1>0 DEF Goroutine
  <2> QED
    BY <1>1, <1>2, <1>4, <2>1, <2>2 DEF CertDue
<1>5. CASE CertLoad(m, s)
  <2>1. PICK ok \in Stored :
          LET todo == {c \in Linked(m) : ok /\ channel[c].active} IN
            Becomes(m, s, IF todo = {} THEN Waiting(g)
                          ELSE [g EXCEPT !.pc = "certsend", !.todo = todo])
    BY <1>5 DEF CertLoad
  <2> DEFINE todo == {c \in Linked(m) : ok /\ channel[c].active}
             h == IF todo = {} THEN Waiting(g) ELSE [g EXCEPT !.pc = "certsend", !.todo = todo]
  <2>2. todo \subseteq Channels
    BY DEF Linked, LiveChannels
  <2>3. Becomes(m, s, h)
    BY <2>1
  <2> HIDE DEF todo
  <2>4. h \in Goroutine /\ h.pc \in {"certsend", "idle"}
    BY <1>0, <2>2, WaitingType DEF Goroutine, PCs
  <2> QED
    BY <1>1, <1>2, <2>3, <2>4
<1>6. ASSUME NEW c \in Channels, CertSend(m, s, c)
      PROVE  go'[m][s].pc \in {"certload", "certsend", "idle", "dead"}
  <2> DEFINE h == IF g.todo = {c} THEN Waiting(g) ELSE [g EXCEPT !.todo = @ \ {c}]
  <2>1. h \in Goroutine /\ h.pc \in {"certsend", "idle"}
    BY <1>0, <1>6, WaitingType DEF Goroutine, CertSend
  <2> QED
    BY <1>2, <1>6, <2>1 DEF CertSend
<1>7. CASE TickFails(m, s) \/ Exit(m, s)
  <2>1. Dead.pc = "dead"
    BY DEF Dead
  <2> QED
    BY <1>1, <1>2, <1>7, <2>1, DeadType DEF TickFails, Exit
<1> QED
  BY <1>1, <1>3, <1>4, <1>5, <1>6, <1>7 DEF Quiet

LEMMA TickFacts ==
  ASSUME TypeOK, NEW m \in Monitors, NEW s \in Slots, Tick(m, s)
  PROVE  /\ go[m][s].pc = "idle"
         /\ go'[m][s].pc = "check"
         /\ go'[m][s].status = monitor[m].status /\ go'[m][s].fails = monitor[m].fails
         /\ StoryFrame /\ UNCHANGED <<monitor, said>>
<1>1. go[m][s] \in Goroutine /\ monitor[m] \in MonitorRows
  BY DEF TypeOK, StoreTypeOK
<1> DEFINE h == [go[m][s] EXCEPT !.pc = "check", !.status = monitor[m].status,
                                 !.fails = monitor[m].fails]
<1>2. /\ h \in Goroutine /\ h.pc = "check"
      /\ h.status = monitor[m].status /\ h.fails = monitor[m].fails
  BY <1>1 DEF Goroutine, PCs, MonitorRows
<1>3. go'[m][s] = h
  BY <1>2, BecomesType DEF Tick
<1> QED
  BY <1>2, <1>3 DEF Tick, WorkerFrame, StoryFrame
-----------------------------------------------------------------------------
(* The status *)

Base == IInv /\ KnownMonitors /\ OneGoroutine

(* A worker's step leaves the other monitors alone, and no other goroutine  *)
(* of its own is there; reload is not about to start one beside it.         *)
LEMMA WorkerScope ==
  ASSUME Base, NEW m \in Monitors, NEW s \in Slots, Worker(m, s)
  PROVE  /\ \A x \in Monitors : x # m =>
              /\ monitor'[x] = monitor[x]
              /\ \A t \in Slots : go'[x][t] = go[x][t]
         /\ monitor'[m].life = monitor[m].life
         /\ go[m][s].pc # "dead"
         /\ \A t \in Slots : t # s => go[m][t].pc = "dead" /\ go'[m][t].pc = "dead"
         /\ m \in DOMAIN loaded => workers[m] # NoSlot
         /\ UNCHANGED <<workers, loaded>>
<1>0. TypeOK
  BY DEF Base, IInv
<1>1. WorkerStep(m, s)
  BY <1>0, WorkerSteps
<1>2. go[m][s].pc # "dead"
  BY <1>1 DEF WorkerStep
<1>3. ASSUME NEW t \in Slots, t # s PROVE go[m][t].pc = "dead" /\ go'[m][t].pc = "dead"
  <2>1. go[m][t].pc = "dead"
    BY <1>2, <1>3 DEF Base, OneGoroutine, Running
  <2> QED
    BY <1>1, <1>3, <2>1 DEF WorkerStep
<1>4. m \in DOMAIN loaded => workers[m] # NoSlot
  <2>1. m \in DOMAIN loaded => engine = "sync"
    BY DEF Base, OneGoroutine
  <2> QED
    BY <1>2, <2>1, NothingRuns DEF Base
<1> QED
  BY <1>0, <1>1, <1>2, <1>3, <1>4, WorkerRows DEF WorkerStep

(* Being told to stop changes nothing else about a goroutine. *)
SameButCancelled(g, h) ==
  /\ h.pc = g.pc /\ h.status = g.status /\ h.fails = g.fails
  /\ h.verdict = g.verdict /\ h.todo = g.todo

LEMMA CancelledSame ==
  ASSUME NEW g \in Goroutine PROVE SameButCancelled(g, g) /\ SameButCancelled(g, Cancelled(g))
  BY DEF SameButCancelled, Cancelled, Goroutine

(* After a reload a goroutine is where it was, or it is the first one of a  *)
(* row that was read and starts from that row.                              *)
LEMMA SyncGoroutines ==
  ASSUME Base, ReloadSync, NEW m \in Monitors, NEW s \in Slots
  PROVE  \/ /\ Awaited(m)
            /\ go'[m][s].pc = "check"
            /\ go'[m][s].status = loaded[m].status /\ go'[m][s].fails = loaded[m].fails
            /\ \A t \in Slots : go[m][t].pc = "dead"
         \/ SameButCancelled(go[m][s], go'[m][s])
<1>0. go[m][s] \in Goroutine
  BY DEF Base, IInv, TypeOK
<1>1. PICK place \in [Missing -> Slots] :
        go' = [x \in Monitors |-> [t \in Slots |->
          IF x \in Missing /\ t = place[x] THEN Started(loaded[x])
          ELSE IF x \in Obsolete /\ t = workers[x] THEN Cancelled(go[x][t])
          ELSE go[x][t]]]
  BY DEF ReloadSync
<1>2. CASE m \in Missing /\ s = place[m]
  <2>1. Awaited(m) /\ workers[m] = NoSlot
    BY <1>2 DEF Missing, Awaited
  <2>2. \A t \in Slots : go[m][t].pc = "dead"
    BY <2>1, NothingRuns DEF Base, ReloadSync
  <2> QED
    BY <1>1, <1>2, <2>1, <2>2 DEF Started
<1>3. CASE ~(m \in Missing /\ s = place[m])
  <2>1. go'[m][s] = go[m][s] \/ go'[m][s] = Cancelled(go[m][s])
    BY <1>1, <1>3
  <2> QED
    BY <1>0, <2>1, CancelledSame
<1> QED
  BY <1>2, <1>3

LEMMA StopAllGoroutines ==
  ASSUME Base, StopAll, NEW m \in Monitors, NEW s \in Slots
  PROVE  SameButCancelled(go[m][s], go'[m][s])
<1>1. go'[m][s] = go[m][s] \/ go'[m][s] = Cancelled(go[m][s])
  BY DEF StopAll
<1> QED
  BY <1>1, CancelledSame DEF Base, IInv, TypeOK

(* So only what the goroutine has told itself is to be shown. *)
LEMMA StatusOfWorker ==
  ASSUME Base, StatusInv, NEW m \in Monitors, NEW s \in Slots, Worker(m, s),
         \A x \in Monitors : x # m => history'[x] = history[x] /\ gauge'[x] = gauge[x],
         LiveMonitor(m) /\ Shown(m, go[m][s]) => Shown(m, go[m][s])'
  PROVE  StatusInv'
<1> SUFFICES ASSUME NEW x \in Monitors, monitor'[x].life = "live"
             PROVE  /\ \A t \in Slots : Shown(x, go[x][t])'
                    /\ Awaited(x)' /\ monitor'[x].status \in Verdicts =>
                         monitor'[x].status = loaded'[x].status
  BY DEF StatusInv, LiveMonitor
<1>0. monitor[x].life = "live"
  BY WorkerScope
<1>1. CASE x = m
  <2>1. ASSUME NEW t \in Slots PROVE Shown(m, go[m][t])'
    <3>1. CASE t = s
      BY <1>0, <1>1, <3>1 DEF StatusInv, LiveMonitor
    <3>2. CASE t # s
      <4>1. go'[m][t].pc = "dead"
        BY <3>2, WorkerScope
      <4> QED
        BY <4>1 DEF Shown, Deciding, AfterCheck
    <3> QED
      BY <3>1, <3>2
  <2> QED
    BY <1>1, <2>1, WorkerScope DEF Awaited
<1>2. CASE x # m
  <2>1. /\ monitor'[x] = monitor[x] /\ history'[x] = history[x] /\ gauge'[x] = gauge[x]
        /\ \A t \in Slots : go'[x][t] = go[x][t]
        /\ UNCHANGED <<workers, loaded>>
    BY <1>2, WorkerScope
  <2>2. /\ \A t \in Slots : Shown(x, go[x][t])
        /\ Awaited(x) /\ monitor[x].status \in Verdicts => monitor[x].status = loaded[x].status
    BY <1>0 DEF StatusInv, LiveMonitor
  <2>3. ASSUME NEW t \in Slots PROVE Shown(x, go[x][t])'
    <3>1. Shown(x, go[x][t]) /\ go'[x][t] = go[x][t]
      BY <2>1, <2>2
    <3> QED
      BY <2>1, <3>1 DEF Shown, Agrees
  <2> QED
    BY <2>1, <2>2, <2>3 DEF Awaited
<1> QED
  BY <1>1, <1>2

LEMMA WorkerKeepsStatus ==
  ASSUME "db" \notin Faults, Base, StatusInv, NEW m \in Monitors, NEW s \in Slots, Worker(m, s)
  PROVE  StatusInv'
<1> DEFINE g == go[m][s]
<1>0. TypeOK /\ g \in Goroutine /\ monitor[m] \in MonitorRows
  BY DEF Base, IInv, TypeOK, StoreTypeOK
<1> SUFFICES /\ \A x \in Monitors : x # m => history'[x] = history[x] /\ gauge'[x] = gauge[x]
             /\ LiveMonitor(m) /\ Shown(m, g) => Shown(m, go[m][s])'
  BY StatusOfWorker
<1> USE DEF Shown, Deciding, AfterCheck, Agrees
<1>1. CASE RunCheck(m, s)
  <2>1. PICK v \in Verdicts : Checked(m, s, v)
    BY <1>0, <1>1, RunCheckFacts
  <2>2. history'[m].last = v
    BY <2>1 DEF Checked
  <2> QED
    BY <2>1, <2>2 DEF Checked
<1>2. CASE SaveMessage(m, s)
  <2>1. /\ g.pc = "message" /\ Moved(g, go'[m][s], "status") /\ StoryFrame
        /\ LiveMonitor(m) => monitor'[m] = [monitor[m] EXCEPT !.message = g.verdict]
    BY <1>0, <1>2, SaveMessageFacts
  <2>2. LiveMonitor(m) => monitor'[m].message = g.verdict /\ monitor'[m].status = monitor[m].status
    BY <1>0, <2>1 DEF MonitorRows
  <2> QED
    BY <2>1, <2>2 DEF Moved, StoryFrame
<1>3. CASE StatusChanged(m, s)
  <2>1. /\ g.pc = "status" /\ Moved(g, go'[m][s], "load") /\ StoryFrame
        /\ LiveMonitor(m) =>
             monitor'[m] = [monitor[m] EXCEPT !.status = g.verdict,
                                              !.fails = ConsecutiveFailures(g)]
    BY <1>0, <1>3, StatusChangedFacts
  <2>2. LiveMonitor(m) => monitor'[m].message = monitor[m].message /\ monitor'[m].status = g.verdict
    BY <1>0, <2>1 DEF MonitorRows
  <2> QED
    BY <2>1, <2>2 DEF Moved, StoryFrame
<1>4. CASE StatusKept(m, s)
  <2>1. /\ g.pc = "status" /\ go'[m][s].pc \in Resting /\ StoryFrame /\ g.verdict = g.status
        /\ LiveMonitor(m) =>
             monitor'[m] = IF g.verdict = "DOWN"
                             THEN [monitor[m] EXCEPT !.fails = Bump(monitor[m].fails)]
                             ELSE monitor[m]
    BY <1>0, <1>4, StatusKeptFacts
  <2>2. LiveMonitor(m) => /\ monitor'[m].message = monitor[m].message
                          /\ monitor'[m].status = monitor[m].status
    BY <1>0, <2>1 DEF MonitorRows
  <2> QED
    BY <2>1, <2>2 DEF Resting, StoryFrame
<1>5. CASE LoadChannels(m, s)
  <2>1. g.pc = "load" /\ StoryFrame /\ UNCHANGED monitor
    BY <1>0, <1>5, LoadChannelsFacts
  <2>2. go'[m][s].pc \in Resting \/ Moved(g, go'[m][s], "send")
    BY <1>0, <1>5, LoadChannelsFacts
  <2> QED
    BY <2>1, <2>2 DEF Resting, Moved, StoryFrame
<1>6. ASSUME NEW c \in Channels, SendAlert(m, s, c)
      PROVE  /\ \A x \in Monitors : x # m => history'[x] = history[x] /\ gauge'[x] = gauge[x]
             /\ LiveMonitor(m) /\ Shown(m, g) => Shown(m, go[m][s])'
  <2>1. g.pc = "send" /\ StoryFrame /\ UNCHANGED monitor
    BY <1>0, <1>6, SendAlertFacts
  <2>2. go'[m][s].pc \in Resting \/ Moved(g, go'[m][s], "send")
    BY <1>0, <1>6, SendAlertFacts
  <2> QED
    BY <2>1, <2>2 DEF Resting, Moved, StoryFrame
<1>7. CASE Quiet(m, s)
  <2>1. /\ g.pc \in {"cert", "certload", "certsend", "idle"}
        /\ go'[m][s].pc \in {"certload", "certsend", "idle", "dead"}
        /\ StoryFrame /\ UNCHANGED monitor
    BY <1>0, <1>7, QuietFacts
  <2> QED
    BY <2>1 DEF StoryFrame
<1>8. CASE Tick(m, s)
  BY <1>0, <1>8, TickFacts DEF StoryFrame
<1> QED
  BY <1>1, <1>2, <1>3, <1>4, <1>5, <1>6, <1>7, <1>8 DEF Worker, Check, Quiet

LEMMA RequestKeepsStatus == ASSUME Base, StatusInv, Request PROVE StatusInv'
<1> SUFFICES ASSUME NEW m \in Monitors, monitor'[m].life = "live"
             PROVE  /\ \A s \in Slots : Shown(m, go[m][s])'
                    /\ Awaited(m)' /\ monitor'[m].status \in Verdicts =>
                         monitor'[m].status = loaded'[m].status
  BY DEF StatusInv, LiveMonitor
<1>1. UNCHANGED <<go, gauge, history, workers, loaded>>
  BY DEF Request, procVars
<1>2. RowStep(m)
  BY HandlerRows DEF Request, Base, IInv, TypeOK
<1>3. CASE monitor[m].life = "absent"
  <2>1. m \notin DOMAIN loaded' /\ \A s \in Slots : go'[m][s].pc = "dead"
    BY <1>1, <1>3 DEF Base, KnownMonitors, Running
  <2> QED
    BY <2>1 DEF Shown, Deciding, AfterCheck, Awaited
<1>4. CASE monitor[m].life # "absent"
  <2>1. /\ monitor[m].life = "live"
        /\ monitor'[m].message = monitor[m].message
        /\ monitor'[m].status = monitor[m].status \/ monitor'[m].status \notin Verdicts
    BY <1>2, <1>4 DEF RowStep
  <2>2. /\ \A s \in Slots : Shown(m, go[m][s])
        /\ Awaited(m) /\ monitor[m].status \in Verdicts => monitor[m].status = loaded[m].status
    BY <2>1 DEF StatusInv, LiveMonitor
  <2>3. ASSUME NEW s \in Slots PROVE Shown(m, go[m][s])'
    <3>1. Shown(m, go[m][s]) /\ go'[m][s] = go[m][s]
      BY <1>1, <2>2
    <3> QED
      BY <1>1, <2>1, <3>1 DEF Shown, Agrees
  <2> QED
    BY <1>1, <2>1, <2>2, <2>3 DEF Awaited
<1> QED
  BY <1>3, <1>4

(* A new worker starts from the row that is still there; one that is told   *)
(* to stop goes on where it is.                                             *)
LEMMA ReloadSyncKeepsStatus == ASSUME Base, StatusInv, ReloadSync PROVE StatusInv'
<1> SUFFICES ASSUME NEW m \in Monitors, monitor'[m].life = "live"
             PROVE  /\ \A s \in Slots : Shown(m, go[m][s])'
                    /\ ~Awaited(m)'
  BY DEF StatusInv, LiveMonitor
<1>1. ~Awaited(m)'
  BY DEF ReloadSync, NothingLoaded, Awaited
<1>2. UNCHANGED <<monitor, gauge, history>> /\ monitor[m].life = "live"
  BY DEF ReloadSync, storeVars, ghostVars
<1>3. ASSUME NEW s \in Slots PROVE Shown(m, go[m][s])'
  <2>1. /\ Shown(m, go[m][s])
        /\ Awaited(m) /\ monitor[m].status \in Verdicts => monitor[m].status = loaded[m].status
    BY <1>2 DEF StatusInv, LiveMonitor
  <2>2. CASE Awaited(m) /\ go'[m][s].pc = "check" /\ go'[m][s].status = loaded[m].status
    BY <1>2, <2>1, <2>2 DEF Shown, AfterCheck
  <2>3. CASE SameButCancelled(go[m][s], go'[m][s])
    BY <1>2, <2>1, <2>3 DEF Shown, Agrees, SameButCancelled
  <2> QED
    BY <2>2, <2>3, SyncGoroutines
<1> QED
  BY <1>1, <1>3

LEMMA StopAllKeepsStatus == ASSUME Base, StatusInv, StopAll PROVE StatusInv'
<1> SUFFICES ASSUME NEW m \in Monitors, monitor'[m].life = "live"
             PROVE  /\ \A s \in Slots : Shown(m, go[m][s])'
                    /\ ~Awaited(m)'
  BY DEF StatusInv, LiveMonitor
<1>1. UNCHANGED <<monitor, gauge, history, loaded>> /\ engine = "select"
  BY DEF StopAll, storeVars, ghostVars
<1>2. ~Awaited(m)'
  BY <1>1 DEF Awaited, Base, OneGoroutine
<1>3. ASSUME NEW s \in Slots PROVE Shown(m, go[m][s])'
  <2>1. Shown(m, go[m][s]) /\ SameButCancelled(go[m][s], go'[m][s])
    BY <1>1, StopAllGoroutines DEF StatusInv, LiveMonitor
  <2> QED
    BY <1>1, <2>1 DEF Shown, Agrees, SameButCancelled
<1> QED
  BY <1>2, <1>3

LEMMA NextKeepsStatus ==
  ASSUME "db" \notin Faults
  PROVE  Base /\ StatusInv /\ [Next]_vars => StatusInv'
<1> SUFFICES ASSUME Base, StatusInv, [Next]_vars PROVE StatusInv'
  OBVIOUS
<1>1. CASE ReloadLoad
  <2>1. /\ UNCHANGED <<monitor, go, gauge, history, workers>>
        /\ \A m \in Monitors : m \in DOMAIN loaded' => loaded'[m].status = monitor[m].status
    BY <1>1 DEF ReloadLoad, storeVars, ghostVars, Snapshot
  <2> QED
    BY <2>1 DEF StatusInv, LiveMonitor, Shown, Agrees, Awaited
<1>2. CASE Restart
  <2>1. loaded' = NothingLoaded /\ \A m \in Monitors, s \in Slots : go'[m][s].pc = "dead"
    BY <1>2 DEF Restart, Dead
  <2> QED
    BY <2>1 DEF StatusInv, Shown, Deciding, AfterCheck, Awaited, NothingLoaded
<1>3. CASE ReloadFails \/ Stop \/ NextDay \/ UNCHANGED vars
  <2>1. UNCHANGED <<monitor, go, gauge, history, workers, loaded>>
    BY <1>3 DEF ReloadFails, Stop, NextDay, storeVars, procVars, ghostVars, vars
  <2> QED
    BY <2>1 DEF StatusInv, LiveMonitor, Shown, Agrees, Awaited
<1> QED
  BY <1>1, <1>2, <1>3, RequestKeepsStatus, ReloadSyncKeepsStatus, StopAllKeepsStatus,
     WorkerKeepsStatus DEF Next, Reload

LEMMA InitStatus == Init => StatusInv
  BY DEF Init, StoreInit, StatusInv, LiveMonitor

LEMMA BaseHolds == ASSUME SlowChecks = FALSE PROVE Spec => []Base
<1>1. IInv /\ OneGoroutine /\ [Next]_vars => OneGoroutine'
  BY NextKeepsOne
<1>2. IInv /\ KnownMonitors /\ OneGoroutine => Base
  BY DEF Base
<1> QED
  BY InitIInv, InitRegistry, NextKeepsIInv, NextKeepsKnown, <1>1, <1>2, PTL DEF Spec

LEMMA StatusHolds == ASSUME SlowChecks = FALSE, "db" \notin Faults PROVE Spec => []StatusInv
<1>1. Base /\ StatusInv /\ [Next]_vars => StatusInv'
  BY NextKeepsStatus
<1> QED
  BY BaseHolds, InitStatus, <1>1, PTL DEF Spec

(* Between two checks the row's message and status, the newest history row  *)
(* and the gauge tell the same story, through crashes and shutdowns and     *)
(* whatever handlers write meanwhile (engine.go:168-192).                   *)
THEOREM DashboardIsConsistent ==
  ASSUME SlowChecks = FALSE, "db" \notin Faults PROVE Spec => []DashboardAgrees
<1>1. Base /\ StatusInv => DashboardAgrees
  <2> SUFFICES ASSUME Base, StatusInv, NEW m \in Monitors, Settled(m), LiveMonitor(m)
               PROVE  Agrees(m)
    BY DEF DashboardAgrees, Agrees
  <2>1. workers[m] \in Slots /\ go[m][workers[m]].pc = "idle"
    BY DEF Settled, Base, IInv, TypeOK
  <2> QED
    BY <2>1 DEF StatusInv, Shown, AfterCheck
<1> QED
  BY BaseHolds, StatusHolds, <1>1, PTL
-----------------------------------------------------------------------------
(* The counter *)

(* CountInv of a monitor with the goroutine g and no other. *)
CountedRow(m, g) ==
  /\ monitor[m].status = "UP" => monitor[m].fails = 0
  /\ Counted(m, g)
  /\ g.pc \notin Undecided => monitor[m].fails = history[m].downs

LEMMA CountOfWorker ==
  ASSUME Base, CountInv, NEW m \in Monitors, NEW s \in Slots, Worker(m, s),
         \A x \in Monitors : x # m => history'[x] = history[x],
         LiveMonitor(m) /\ CountedRow(m, go[m][s]) => CountedRow(m, go[m][s])'
  PROVE  CountInv'
<1> SUFFICES ASSUME NEW x \in Monitors
             PROVE  /\ monitor'[x].life = "absent" => history'[x].downs = 0
                    /\ monitor'[x].life = "live" =>
                         /\ monitor'[x].status = "UP" => monitor'[x].fails = 0
                         /\ \A t \in Slots : Counted(x, go[x][t])'
                         /\ (\A t \in Slots : go'[x][t].pc \notin Undecided) =>
                              monitor'[x].fails = history'[x].downs
                         /\ Awaited(x)' => /\ loaded'[x].fails = monitor'[x].fails
                                           /\ loaded'[x].status = "UP" => loaded'[x].fails = 0
  BY DEF CountInv, LiveMonitor
<1>1. CASE x = m
  <2>1. monitor[m].life # "absent" /\ monitor'[m].life = monitor[m].life
    BY WorkerScope DEF Base, KnownMonitors, Running
  <2>2. ~Awaited(m)'
    BY WorkerScope DEF Awaited
  <2>3. ASSUME monitor[m].life = "live" PROVE CountedRow(m, go[m][s])'
    <3>1. \A t \in Slots : t # s => go[m][t].pc \notin Undecided
      BY WorkerScope DEF Undecided
    <3>2. CountedRow(m, go[m][s])
      BY <2>3, <3>1 DEF CountInv, LiveMonitor, CountedRow
    <3> QED
      BY <2>3, <3>2 DEF LiveMonitor
  <2>4. ASSUME NEW t \in Slots, t # s PROVE Counted(m, go[m][t])'
    <3>1. go'[m][t].pc = "dead"
      BY <2>4, WorkerScope
    <3> QED
      BY <3>1 DEF Counted, Deciding, Undecided
  <2> QED
    BY <1>1, <2>1, <2>2, <2>3, <2>4 DEF CountedRow
<1>2. CASE x # m
  <2>1. /\ monitor'[x] = monitor[x] /\ history'[x] = history[x]
        /\ \A t \in Slots : go'[x][t] = go[x][t]
        /\ UNCHANGED <<workers, loaded>>
    BY <1>2, WorkerScope
  <2>2. ASSUME NEW t \in Slots, Counted(x, go[x][t]) PROVE Counted(x, go[x][t])'
    <3>1. go'[x][t] = go[x][t]
      BY <2>1
    <3> QED
      BY <2>1, <2>2, <3>1 DEF Counted
  <2> QED
    BY <2>1, <2>2 DEF CountInv, LiveMonitor, Awaited
<1> QED
  BY <1>1, <1>2

LEMMA WorkerKeepsCount ==
  ASSUME "db" \notin Faults, Base, StatusInv, CountInv,
         NEW m \in Monitors, NEW s \in Slots, Worker(m, s)
  PROVE  CountInv'
<1> DEFINE g == go[m][s]
<1>0. TypeOK /\ g \in Goroutine /\ monitor[m] \in MonitorRows
  BY DEF Base, IInv, TypeOK, StoreTypeOK
<1> SUFFICES /\ \A x \in Monitors : x # m => history'[x] = history[x]
             /\ LiveMonitor(m) /\ CountedRow(m, g) => CountedRow(m, go[m][s])'
  BY CountOfWorker
<1> USE DEF CountedRow, Counted, Deciding, Undecided
<1>1. CASE RunCheck(m, s)
  <2>1. PICK v \in Verdicts : Checked(m, s, v)
    BY <1>0, <1>1, RunCheckFacts
  <2>2. history'[m].downs = IF v = "DOWN" THEN Bump(history[m].downs) ELSE 0
    BY <2>1 DEF Checked
  <2> QED
    BY <2>1, <2>2 DEF Checked
<1>2. CASE SaveMessage(m, s)
  <2>1. /\ g.pc = "message" /\ Moved(g, go'[m][s], "status") /\ StoryFrame
        /\ LiveMonitor(m) => monitor'[m] = [monitor[m] EXCEPT !.message = g.verdict]
    BY <1>0, <1>2, SaveMessageFacts
  <2>2. LiveMonitor(m) => monitor'[m].fails = monitor[m].fails /\ monitor'[m].status = monitor[m].status
    BY <1>0, <2>1 DEF MonitorRows
  <2> QED
    BY <2>1, <2>2 DEF Moved, StoryFrame
<1>3. CASE StatusChanged(m, s)
  <2>1. /\ g.pc = "status" /\ Moved(g, go'[m][s], "load") /\ StoryFrame
        /\ LiveMonitor(m) =>
             monitor'[m] = [monitor[m] EXCEPT !.status = g.verdict,
                                              !.fails = ConsecutiveFailures(g)]
    BY <1>0, <1>3, StatusChangedFacts
  <2>2. LiveMonitor(m) => monitor'[m].fails = ConsecutiveFailures(g) /\ monitor'[m].status = g.verdict
    BY <1>0, <2>1 DEF MonitorRows
  <2> QED
    BY <2>1, <2>2 DEF Moved, StoryFrame, ConsecutiveFailures
<1>4. CASE StatusKept(m, s)
  <2>1. /\ g.pc = "status" /\ go'[m][s].pc \in Resting /\ StoryFrame /\ g.verdict = g.status
        /\ LiveMonitor(m) =>
             monitor'[m] = IF g.verdict = "DOWN"
                             THEN [monitor[m] EXCEPT !.fails = Bump(monitor[m].fails)]
                             ELSE monitor[m]
    BY <1>0, <1>4, StatusKeptFacts
  <2>2. g.verdict \in Verdicts
    BY <1>0, <2>1 DEF Goroutine
  <2>3. LiveMonitor(m) => /\ monitor'[m].fails = IF g.verdict = "DOWN" THEN Bump(monitor[m].fails)
                                                                      ELSE monitor[m].fails
                          /\ monitor'[m].status = monitor[m].status
    BY <1>0, <2>1 DEF MonitorRows
  <2>4. LiveMonitor(m) /\ monitor[m].status = "UP" => g.status = "UP"
    BY <2>1 DEF StatusInv, Shown, Verdicts
  <2> QED
    BY <2>1, <2>2, <2>3, <2>4 DEF Resting, StoryFrame, Verdicts
<1>5. CASE LoadChannels(m, s)
  <2>1. g.pc = "load" /\ StoryFrame /\ UNCHANGED monitor
    BY <1>0, <1>5, LoadChannelsFacts
  <2>2. go'[m][s].pc \in Resting \/ Moved(g, go'[m][s], "send")
    BY <1>0, <1>5, LoadChannelsFacts
  <2> QED
    BY <2>1, <2>2 DEF Resting, Moved, StoryFrame
<1>6. ASSUME NEW c \in Channels, SendAlert(m, s, c)
      PROVE  /\ \A x \in Monitors : x # m => history'[x] = history[x]
             /\ LiveMonitor(m) /\ CountedRow(m, g) => CountedRow(m, go[m][s])'
  <2>1. g.pc = "send" /\ StoryFrame /\ UNCHANGED monitor
    BY <1>0, <1>6, SendAlertFacts
  <2>2. go'[m][s].pc \in Resting \/ Moved(g, go'[m][s], "send")
    BY <1>0, <1>6, SendAlertFacts
  <2> QED
    BY <2>1, <2>2 DEF Resting, Moved, StoryFrame
<1>7. CASE Quiet(m, s)
  <2>1. /\ g.pc \in {"cert", "certload", "certsend", "idle"}
        /\ go'[m][s].pc \in {"certload", "certsend", "idle", "dead"}
        /\ StoryFrame /\ UNCHANGED monitor
    BY <1>0, <1>7, QuietFacts
  <2> QED
    BY <2>1 DEF StoryFrame
<1>8. CASE Tick(m, s)
  BY <1>0, <1>8, TickFacts DEF StoryFrame
<1> QED
  BY <1>1, <1>2, <1>3, <1>4, <1>5, <1>6, <1>7, <1>8 DEF Worker, Check, Quiet

LEMMA RequestKeepsCount == ASSUME Base, CountInv, Request PROVE CountInv'
<1>1. UNCHANGED <<go, history, workers, loaded>>
  BY DEF Request, procVars
<1>2. ASSUME NEW m \in Monitors PROVE RowStep(m)
  BY HandlerRows DEF Request, Base, IInv, TypeOK
<1>3. ASSUME NEW m \in Monitors, monitor'[m].life = "absent" PROVE history'[m].downs = 0
  BY <1>1, <1>2, <1>3 DEF RowStep, CountInv
<1>4. ASSUME NEW m \in Monitors, monitor[m].life = "absent", monitor'[m].life = "live"
      PROVE  /\ monitor'[m].status # "UP"
             /\ \A s \in Slots : go'[m][s].pc = "dead"
             /\ monitor'[m].fails = history'[m].downs
             /\ ~Awaited(m)'
  <2>1. monitor'[m].status = "PENDING" /\ monitor'[m].fails = 0
    BY <1>2, <1>4 DEF RowStep
  <2>2. history[m].downs = 0
    BY <1>4 DEF CountInv
  <2>3. m \notin DOMAIN loaded /\ \A s \in Slots : go[m][s].pc = "dead"
    BY <1>4 DEF Base, KnownMonitors, Running
  <2> QED
    BY <1>1, <2>1, <2>2, <2>3 DEF Awaited
<1>5. ASSUME NEW m \in Monitors, monitor[m].life # "absent", monitor'[m].life = "live"
      PROVE  /\ monitor[m].life = "live"
             /\ monitor'[m].fails = monitor[m].fails
             /\ monitor'[m].status = "UP" => monitor[m].status = "UP"
  BY <1>2, <1>5 DEF RowStep, Verdicts
<1> QED
  BY <1>1, <1>3, <1>4, <1>5 DEF CountInv, LiveMonitor, Counted, Deciding, Undecided, Awaited

LEMMA ReloadSyncKeepsCount == ASSUME Base, CountInv, ReloadSync PROVE CountInv'
<1>1. UNCHANGED <<monitor, history>> /\ \A m \in Monitors : ~Awaited(m)'
  BY DEF ReloadSync, storeVars, ghostVars, NothingLoaded, Awaited
<1>2. ASSUME NEW m \in Monitors, monitor[m].life = "live", NEW s \in Slots
      PROVE  Counted(m, go[m][s])'
  <2>1. /\ Counted(m, go[m][s])
        /\ Awaited(m) => /\ loaded[m].fails = monitor[m].fails
                         /\ loaded[m].status = "UP" => loaded[m].fails = 0
    BY <1>2 DEF CountInv, LiveMonitor
  <2> QED
    BY <1>1, <2>1, SyncGoroutines DEF Counted, Deciding, Undecided, SameButCancelled
<1>3. ASSUME NEW m \in Monitors, NEW s \in Slots, go[m][s].pc \in Undecided
      PROVE  go'[m][s].pc \in Undecided
  BY <1>3, SyncGoroutines DEF Undecided, SameButCancelled
<1> QED
  BY <1>1, <1>2, <1>3 DEF CountInv, LiveMonitor

LEMMA StopAllKeepsCount == ASSUME Base, CountInv, StopAll PROVE CountInv'
<1>1. UNCHANGED <<monitor, history, loaded>> /\ engine = "select"
  BY DEF StopAll, storeVars, ghostVars
<1>2. \A m \in Monitors : ~Awaited(m)'
  BY <1>1 DEF Awaited, Base, OneGoroutine
<1>3. ASSUME NEW m \in Monitors, NEW s \in Slots
      PROVE  /\ go'[m][s].pc = go[m][s].pc
             /\ Counted(m, go[m][s]) => Counted(m, go[m][s])'
  BY <1>1, StopAllGoroutines DEF Counted, SameButCancelled
<1> QED
  BY <1>1, <1>2, <1>3 DEF CountInv, LiveMonitor

LEMMA NextKeepsCount ==
  ASSUME "db" \notin Faults, NoRestart
  PROVE  Base /\ StatusInv /\ CountInv /\ [Next]_vars => CountInv'
<1> SUFFICES ASSUME Base, StatusInv, CountInv, [Next]_vars PROVE CountInv'
  OBVIOUS
<1>1. CASE ReloadLoad
  <2>1. /\ UNCHANGED <<monitor, go, history, workers>>
        /\ \A m \in Monitors : m \in DOMAIN loaded' =>
             loaded'[m].status = monitor[m].status /\ loaded'[m].fails = monitor[m].fails
    BY <1>1 DEF ReloadLoad, storeVars, ghostVars, Snapshot
  <2> QED
    BY <2>1 DEF CountInv, LiveMonitor, Counted, Awaited
<1>2. CASE Restart
  BY <1>2 DEF Restart, NoRestart
<1>3. CASE ReloadFails \/ Stop \/ NextDay \/ UNCHANGED vars
  <2>1. UNCHANGED <<monitor, go, history, workers, loaded>>
    BY <1>3 DEF ReloadFails, Stop, NextDay, storeVars, procVars, ghostVars, vars
  <2> QED
    BY <2>1 DEF CountInv, LiveMonitor, Counted, Awaited
<1> QED
  BY <1>1, <1>2, <1>3, RequestKeepsCount, ReloadSyncKeepsCount, StopAllKeepsCount,
     WorkerKeepsCount DEF Next, Reload

LEMMA InitCount == Init => CountInv
  BY DEF Init, StoreInit, CountInv, LiveMonitor

(* Between two checks consecutive_failures is the length of the run of DOWN *)
(* results at the end of the history, although two statements write it and  *)
(* one of them counts from a row read before the check (engine.go:184-225). *)
THEOREM FailuresAreCounted ==
  ASSUME SlowChecks = FALSE, "db" \notin Faults, NoRestart
  PROVE  Spec => []FailuresCounted
<1>1. Base /\ StatusInv /\ CountInv /\ [Next]_vars => CountInv'
  BY NextKeepsCount
<1>2. Base /\ CountInv => FailuresCounted
  <2> SUFFICES ASSUME Base, CountInv, NEW m \in Monitors, Settled(m), LiveMonitor(m)
               PROVE  monitor[m].fails = history[m].downs
    BY DEF FailuresCounted
  <2>1. /\ workers[m] \in Slots /\ go[m][workers[m]].pc = "idle"
    BY DEF Settled, Base, IInv, TypeOK
  <2>2. \A s \in Slots : s # workers[m] => go[m][s].pc = "dead"
    BY <2>1 DEF Base, OneGoroutine, Running
  <2> QED
    BY <2>1, <2>2 DEF CountInv, Undecided
<1> QED
  BY BaseHolds, StatusHolds, InitCount, <1>1, <1>2, PTL DEF Spec
-----------------------------------------------------------------------------
(* The alerts *)

(* A handler never makes a channel unwilling, nor links one that is gone.   *)
LEMMA HandlerLinks ==
  ASSUME StoreTypeOK, ChannelsWilling, Handlers
  PROVE  /\ ChannelsWilling'
         /\ \A m \in Monitors : \A c \in Linked(m)' : c \in attached[m] => c \in Linked(m)
<1> DEFINE Willing(c) == /\ channel[c].active /\ channel[c].onDown /\ channel[c].onUp
                         /\ AtOnce => channel[c].after <= 1
<1>0. /\ channel \in [Channels -> ChannelRows]
      /\ attached \in [Monitors -> SUBSET Channels]
      /\ \A c \in Channels : channel[c].life = "live" => Willing(c)
      /\ \A m \in Monitors : \A c \in attached[m] : c \in Channels /\ channel[c].life # "absent"
  BY DEF StoreTypeOK, ChannelsWilling, LiveChannels
<1>1. SUFFICES
        /\ \A c \in Channels : channel'[c].life = "live" => Willing(c)'
        /\ \A c \in Channels : channel[c].life # "absent" =>
             channel'[c].life # "absent" /\ (channel'[c].life = "live" => channel[c].life = "live")
        /\ \A m \in Monitors : \A c \in attached'[m] :
             c \in attached[m] \/ (c \in Channels /\ channel[c].life = "live")
  BY <1>0, <1>1 DEF ChannelsWilling, LiveChannels, Linked
<1>2. ASSUME NEW d \in Channels, NEW body \in ChannelBodies, CreateNotification(d, body)
      PROVE  /\ \A c \in Channels : channel'[c].life = "live" => Willing(c)'
             /\ \A c \in Channels : channel[c].life # "absent" => channel'[c] = channel[c]
  <2>1. body.after \in Nat /\ (AtOnce => body.after <= 1)
    BY StoreAssumption DEF AtOnce
  <2> QED
    BY <1>0, <1>2, <2>1 DEF CreateNotification, NewChannel, NonZero
<1>3. ASSUME NEW d \in Channels, NEW body \in ChannelBodies, UpdateNotification(d, body)
      PROVE  /\ \A c \in Channels : channel'[c].life = "live" => Willing(c)'
             /\ \A c \in Channels : channel'[c].life = channel[c].life
  <2>1. body.after \in Nat /\ (AtOnce => body.after <= 1)
    BY StoreAssumption DEF AtOnce
  <2> DEFINE row == [channel[d] EXCEPT !.active = @ \/ body.active,
                                       !.onDown = @ \/ body.onDown,
                                       !.onUp   = @ \/ body.onUp,
                                       !.after  = NonZero(body.after, @)]
  <2>2. channel' = [channel EXCEPT ![d] = row] /\ channel[d].life = "live" /\ Willing(d)
    BY <1>0, <1>3 DEF UpdateNotification
  <2>3. /\ row.life = channel[d].life /\ row.active /\ row.onDown /\ row.onUp
        /\ AtOnce => row.after <= 1
    BY <1>0, <2>1, <2>2 DEF ChannelRows, NonZero
  <2> QED
    BY <1>0, <2>2, <2>3
<1>4. ASSUME NEW d \in Channels, DeleteNotification(d)
      PROVE  /\ \A c \in Channels : channel'[c].life = "live" => Willing(c)'
             /\ \A c \in Channels : channel[c].life # "absent" =>
                  channel'[c].life # "absent" /\ (channel'[c].life = "live" => channel[c].life = "live")
  BY <1>0, <1>4 DEF DeleteNotification, ChannelRows
<1>5. CASE channel' = channel /\ attached' = attached
  BY <1>0, <1>5
<1>6. ASSUME NEW m \in Monitors, NEW ids \in SUBSET Channels, SetMonitorNotifications(m, ids)
      PROVE  /\ channel' = channel
             /\ \A x \in Monitors : \A c \in attached'[x] :
                  c \in attached[x] \/ (c \in Channels /\ channel[c].life = "live")
  BY <1>0, <1>6 DEF SetMonitorNotifications, LiveChannels
<1>7. ASSUME NEW r \in requests, AttachAll(r) \/ Prune(r) \/ RequestFails(r)
      PROVE  /\ channel' = channel
             /\ \A x \in Monitors : \A c \in attached'[x] :
                  c \in attached[x] \/ (c \in Channels /\ channel[c].life = "live")
  <2>1. r.mon \in Monitors
    BY DEF StoreTypeOK, RequestSet
  <2> QED
    BY <1>0, <1>7, <2>1 DEF AttachAll, Prune, RequestFails, LiveChannels
<1> QED
  BY <1>0, <1>2, <1>3, <1>4, <1>5, <1>6, <1>7
     DEF Handlers, CreateMonitor, UpdateMonitor, DeleteMonitor, PauseMonitor, ResumeMonitor,
         CreateNotification, UpdateNotification, DeleteNotification

(* A channel hears of every status that is due. *)
LEMMA AlertsWhenDue ==
  ASSUME ChannelsWilling, NEW m \in Monitors, NEW c \in Linked(m), NEW g \in Goroutine,
         Due(g.verdict), StoreTypeOK
  PROVE  Alerts(channel[c], g)
<1>1. /\ channel[c].active /\ channel[c].onDown /\ channel[c].onUp
      /\ AtOnce => channel[c].after <= 1
      /\ channel[c].after \in Nat
  BY DEF ChannelsWilling, Linked, LiveChannels, StoreTypeOK, ChannelRows
<1>2. g.verdict = "DOWN" => ConsecutiveFailures(g) \in Nat /\ ConsecutiveFailures(g) >= 1
  BY StoreAssumption DEF ConsecutiveFailures, Bump, Goroutine
<1> QED
  BY <1>1, <1>2 DEF Alerts, Due

(* ToldInv of a channel and a monitor with the goroutine g and no other. *)
ToldOne(m, g, c) ==
  /\ g.pc \notin Telling /\ Due(monitor[m].status) => said[m][c] = monitor[m].status
  /\ g.pc = "send" /\ c \notin g.todo /\ Due(g.verdict) => said[m][c] = g.verdict

LEMMA ToldOfWorker ==
  ASSUME Base, ToldInv, NEW m \in Monitors, NEW s \in Slots, Worker(m, s),
         UNCHANGED <<channel, attached>>,
         \A x \in Monitors, c \in Channels : x # m => said'[x][c] = said[x][c],
         LiveMonitor(m) =>
           \A c \in Linked(m) :
             (said[m][c] # "new" => ToldOne(m, go[m][s], c)) /\ said'[m][c] # "new" =>
               ToldOne(m, go[m][s], c)'
  PROVE  ToldInv'
<1>1. ChannelsWilling'
  BY DEF ToldInv, ChannelsWilling, LiveChannels
<1>2. SUFFICES ASSUME NEW x \in Monitors, NEW c \in Linked(x), monitor'[x].life = "live",
                      said'[x][c] # "new"
               PROVE  /\ (\A t \in Slots : go'[x][t].pc \notin Telling) /\ Due(monitor'[x].status) =>
                           said'[x][c] = monitor'[x].status
                      /\ \A t \in Slots :
                           go'[x][t].pc = "send" /\ c \notin go'[x][t].todo /\ Due(go'[x][t].verdict) =>
                             said'[x][c] = go'[x][t].verdict
  <2>1. \A x \in Monitors : Linked(x)' = Linked(x)
    BY DEF Linked, LiveChannels
  <2>2. \A v : Due(v)' = Due(v)
    BY DEF Due, AtOnce
  <2> QED
    BY <1>1, <1>2, <2>1, <2>2 DEF ToldInv, LiveMonitor
<1>3. c \in Channels
  BY DEF Linked, LiveChannels
<1>4. CASE x = m
  <2>1. LiveMonitor(m)
    BY <1>2, <1>4, WorkerScope DEF LiveMonitor
  <2>2. said[m][c] # "new" => ToldOne(m, go[m][s], c)
    <3>1. \A t \in Slots : t # s => go[m][t].pc \notin Telling
      BY WorkerScope DEF Telling
    <3> QED
      BY <1>4, <2>1, <3>1 DEF ToldInv, ToldOne
  <2>3. ToldOne(m, go[m][s], c)'
    BY <1>2, <1>4, <2>1, <2>2
  <2>4. \A t \in Slots : t # s => go'[m][t].pc = "dead"
    BY WorkerScope
  <2> QED
    BY <1>4, <2>3, <2>4 DEF ToldOne, Telling, Due, AtOnce
<1>5. CASE x # m
  BY <1>2, <1>3, <1>5, WorkerScope DEF ToldInv, LiveMonitor
<1> QED
  BY <1>4, <1>5

LEMMA WorkerKeepsTold ==
  ASSUME "db" \notin Faults, Base, StatusInv, ToldInv,
         NEW m \in Monitors, NEW s \in Slots, Worker(m, s)
  PROVE  ToldInv'
<1> DEFINE g == go[m][s]
           Goal == /\ UNCHANGED <<channel, attached>>
                   /\ \A x \in Monitors, c \in Channels : x # m => said'[x][c] = said[x][c]
                   /\ LiveMonitor(m) =>
                        \A c \in Linked(m) :
                          (said[m][c] # "new" => ToldOne(m, g, c)) /\ said'[m][c] # "new" =>
                            ToldOne(m, go[m][s], c)'
<1>0. /\ TypeOK /\ StoreTypeOK /\ g \in Goroutine /\ monitor[m] \in MonitorRows
      /\ ChannelsWilling
      /\ \A v : Due(v)' = Due(v)
      /\ Linked(m) \subseteq Channels
  BY DEF Base, IInv, TypeOK, StoreTypeOK, ToldInv, Due, AtOnce, Linked, LiveChannels
<1> SUFFICES Goal
  BY ToldOfWorker
<1> USE DEF Telling
(* A step outside the telling that leaves the row's status. *)
<1>a. ASSUME UNCHANGED <<channel, attached, said>>, g.pc \notin Telling,
             go'[m][s].pc \notin Telling,
             LiveMonitor(m) => monitor'[m].status = monitor[m].status
      PROVE  Goal
  BY <1>0, <1>a DEF ToldOne
<1>1. CASE RunCheck(m, s)
  <2>1. PICK v \in Verdicts : Checked(m, s, v)
    BY <1>0, <1>1, RunCheckFacts
  <2> QED
    BY <1>a, <2>1 DEF Checked
<1>2. CASE SaveMessage(m, s)
  <2>1. /\ g.pc = "message" /\ go'[m][s].pc = "status" /\ UNCHANGED <<channel, attached, said>>
        /\ LiveMonitor(m) => monitor'[m] = [monitor[m] EXCEPT !.message = g.verdict]
    BY <1>0, <1>2, SaveMessageFacts DEF Moved, StoryFrame
  <2>2. LiveMonitor(m) => monitor'[m].status = monitor[m].status
    BY <1>0, <2>1 DEF MonitorRows
  <2> QED
    BY <1>a, <2>1, <2>2
<1>3. CASE StatusChanged(m, s)
  <2>1. go'[m][s].pc = "load" /\ UNCHANGED <<channel, attached, said>>
    BY <1>0, <1>3, StatusChangedFacts DEF Moved, StoryFrame
  <2> QED
    BY <2>1 DEF ToldOne
<1>4. CASE StatusKept(m, s)
  <2>1. /\ g.pc = "status" /\ go'[m][s].pc \in Resting /\ UNCHANGED <<channel, attached, said>>
        /\ LiveMonitor(m) =>
             monitor'[m] = IF g.verdict = "DOWN"
                             THEN [monitor[m] EXCEPT !.fails = Bump(monitor[m].fails)]
                             ELSE monitor[m]
    BY <1>0, <1>4, StatusKeptFacts DEF StoryFrame
  <2>2. LiveMonitor(m) => monitor'[m].status = monitor[m].status
    BY <1>0, <2>1 DEF MonitorRows
  <2> QED
    BY <1>a, <2>1, <2>2 DEF Resting
<1>b. ASSUME LiveMonitor(m), g.pc \in Telling, Due(monitor[m].status)
      PROVE  monitor[m].status = g.verdict
  <2>1. Shown(m, g)
    BY <1>b DEF StatusInv
  <2> QED
    BY <1>b, <2>1 DEF Shown, Agrees, AfterCheck, Due, Verdicts
<1>5. CASE LoadChannels(m, s)
  <2>1. /\ g.pc = "load" /\ UNCHANGED <<channel, attached, said, monitor>>
        /\ go'[m][s].pc \in Resting \/ (go'[m][s].pc = "send" /\ go'[m][s].verdict = g.verdict)
        /\ \A c \in Linked(m) :
             Alerts(channel[c], g) => go'[m][s].pc = "send" /\ c \in go'[m][s].todo
    BY <1>0, <1>5, LoadChannelsFacts DEF Moved, StoryFrame
  <2>2. ASSUME NEW c \in Linked(m), Due(g.verdict)
        PROVE  go'[m][s].pc = "send" /\ c \in go'[m][s].todo
    BY <1>0, <2>1, <2>2, AlertsWhenDue
  <2>3. ASSUME LiveMonitor(m), NEW c \in Linked(m) PROVE ToldOne(m, go[m][s], c)'
    <3>1. Due(monitor[m].status) => monitor[m].status = g.verdict
      BY <1>b, <2>1, <2>3
    <3>2. monitor'[m] = monitor[m]
      BY <2>1
    <3>3. CASE go'[m][s].pc \in Resting
      BY <2>2, <2>3, <3>1, <3>2, <3>3 DEF ToldOne, Resting, Due, AtOnce
    <3>4. CASE go'[m][s].pc = "send" /\ go'[m][s].verdict = g.verdict
      BY <2>2, <2>3, <3>4 DEF ToldOne, Due, AtOnce
    <3> QED
      BY <2>1, <3>3, <3>4
  <2> QED
    BY <2>1, <2>3
<1>6. ASSUME NEW d \in Channels, SendAlert(m, s, d)
      PROVE  Goal
  <2>1. /\ g.pc = "send" /\ d \in g.todo /\ UNCHANGED <<channel, attached, monitor>>
        /\ \/ g.todo = {d} /\ go'[m][s].pc \in Resting
           \/ /\ go'[m][s].pc = "send" /\ go'[m][s].verdict = g.verdict
              /\ go'[m][s].todo = g.todo \ {d}
        /\ said'[m][d] = g.verdict
        /\ \A x \in Monitors, c \in Channels : <<x, c>> # <<m, d>> => said'[x][c] = said[x][c]
    BY <1>0, <1>6, SendAlertFacts DEF Moved, StoryFrame
  <2>2. ASSUME LiveMonitor(m), NEW c \in Linked(m), said'[m][c] # "new",
               said[m][c] # "new" => ToldOne(m, g, c)
        PROVE  ToldOne(m, go[m][s], c)'
    <3>1. c = d \/ said'[m][c] = said[m][c]
      BY <1>0, <2>1
    <3>2. Due(g.verdict) /\ (c = d \/ c \notin g.todo) => said'[m][c] = g.verdict
      BY <2>1, <2>2, <3>1 DEF ToldOne
    <3>3. c \in Channels /\ \A v : Due(v)' = Due(v)
      BY <1>0, <2>2
    <3>4. Due(monitor[m].status) => monitor[m].status = g.verdict
      BY <1>b, <2>1, <2>2
    <3>5. CASE g.todo = {d} /\ go'[m][s].pc \in Resting
      <4>1. c = d \/ c \notin g.todo
        BY <3>5
      <4>2. monitor'[m] = monitor[m]
        BY <2>1
      <4>3. Due(monitor'[m].status) => said'[m][c] = monitor'[m].status
        BY <3>2, <3>4, <4>1, <4>2
      <4> QED
        BY <3>5, <4>3 DEF ToldOne, Resting, Due, AtOnce
    <3>6. CASE /\ go'[m][s].pc = "send" /\ go'[m][s].verdict = g.verdict
               /\ go'[m][s].todo = g.todo \ {d}
      <4>1. c \notin go'[m][s].todo => c = d \/ c \notin g.todo
        BY <3>6
      <4> QED
        BY <3>2, <3>6, <4>1 DEF ToldOne, Due, AtOnce
    <3> QED
      BY <2>1, <3>5, <3>6
  <2> QED
    BY <2>1, <2>2
<1>7. CASE Quiet(m, s)
  <2>1. /\ g.pc \in {"cert", "certload", "certsend", "idle"}
        /\ go'[m][s].pc \in {"certload", "certsend", "idle", "dead"}
        /\ UNCHANGED <<channel, attached, said, monitor>>
    BY <1>0, <1>7, QuietFacts DEF StoryFrame
  <2> QED
    BY <1>a, <2>1
<1>8. CASE Tick(m, s)
  BY <1>0, <1>8, <1>a, TickFacts DEF StoryFrame
<1> QED
  BY <1>1, <1>2, <1>3, <1>4, <1>5, <1>6, <1>7, <1>8 DEF Worker, Check, Quiet

(* A channel that is linked anew has been told nothing; a row that a        *)
(* handler writes to has no status that is due, or the one it had.          *)
LEMMA RequestKeepsTold == ASSUME Base, ToldInv, Request PROVE ToldInv'
<1>0. StoreTypeOK /\ ChannelsWilling /\ Handlers
  BY DEF Base, IInv, TypeOK, ToldInv, Request
<1>1. UNCHANGED go
  BY DEF Request, procVars
<1>2. ChannelsWilling'
  BY <1>0, HandlerLinks
<1>3. ASSUME NEW m \in Monitors, NEW c \in Linked(m)', said'[m][c] # "new"
      PROVE  c \in Linked(m) /\ said'[m][c] = said[m][c]
  <2>1. c \in Channels /\ c \in attached'[m]
    BY DEF Linked, LiveChannels
  <2>2. c \in attached[m] /\ said'[m][c] = said[m][c]
    BY <1>3, <2>1 DEF Request
  <2> QED
    BY <1>0, <2>2, HandlerLinks
<1>4. ASSUME NEW m \in Monitors, monitor'[m].life = "live", Due(monitor'[m].status)
      PROVE  monitor[m].life = "live" /\ monitor'[m].status = monitor[m].status
  BY <1>0, <1>4, HandlerRows DEF RowStep, Due, Verdicts
<1>5. ASSUME NEW m \in Monitors, monitor'[m].life = "live", NEW s \in Slots, go[m][s].pc = "send"
      PROVE  monitor[m].life = "live"
  BY <1>0, <1>5, HandlerRows DEF RowStep, Base, KnownMonitors, Running
<1>6. \A v : Due(v)' = Due(v)
  BY DEF Due, AtOnce
<1> QED
  BY <1>1, <1>2, <1>3, <1>4, <1>5, <1>6 DEF ToldInv, LiveMonitor

LEMMA ToldFrame ==
  ASSUME ToldInv, UNCHANGED <<monitor, channel, attached, said>>,
         \A m \in Monitors, s \in Slots :
           \/ SameButCancelled(go[m][s], go'[m][s])
           \/ go'[m][s].pc = "check" /\ \A t \in Slots : go[m][t].pc = "dead"
  PROVE  ToldInv'
<1>1. ChannelsWilling' /\ \A v : Due(v)' = Due(v)
  BY DEF ToldInv, ChannelsWilling, LiveChannels, Due, AtOnce
<1>2. \A m \in Monitors : Linked(m)' = Linked(m)
  BY DEF Linked, LiveChannels
<1>3. \A m \in Monitors, s \in Slots :
        go[m][s].pc \in Telling \/ go'[m][s].pc \in Telling => SameButCancelled(go[m][s], go'[m][s])
  BY DEF Telling
<1> QED
  BY <1>1, <1>2, <1>3 DEF ToldInv, LiveMonitor, SameButCancelled, Telling

LEMMA NextKeepsTold ==
  ASSUME "db" \notin Faults, NoRestart
  PROVE  Base /\ StatusInv /\ ToldInv /\ [Next]_vars => ToldInv'
<1> SUFFICES ASSUME Base, StatusInv, ToldInv, [Next]_vars PROVE ToldInv'
  OBVIOUS
<1>1. CASE ReloadSync
  <2>1. UNCHANGED <<monitor, channel, attached, said>>
    BY <1>1 DEF ReloadSync, storeVars, ghostVars
  <2> QED
    BY <1>1, <2>1, SyncGoroutines, ToldFrame
<1>2. CASE StopAll
  <2>1. UNCHANGED <<monitor, channel, attached, said>>
    BY <1>2 DEF StopAll, storeVars, ghostVars
  <2> QED
    BY <1>2, <2>1, StopAllGoroutines, ToldFrame
<1>3. CASE Restart
  BY <1>3 DEF Restart, NoRestart
<1>4. CASE ReloadLoad \/ ReloadFails \/ Stop \/ NextDay \/ UNCHANGED vars
  <2>1. UNCHANGED <<monitor, channel, attached, said, go>>
    BY <1>4 DEF ReloadLoad, ReloadFails, Stop, NextDay, storeVars, procVars, ghostVars, vars
  <2> QED
    BY <2>1, ToldFrame DEF SameButCancelled
<1> QED
  BY <1>1, <1>2, <1>3, <1>4, RequestKeepsTold, WorkerKeepsTold DEF Next, Reload

LEMMA InitTold == Init => ToldInv
  BY DEF Init, StoreInit, ToldInv, ChannelsWilling, LiveChannels, Linked, LiveMonitor

LEMMA ToldHolds ==
  ASSUME SlowChecks = FALSE, "db" \notin Faults, NoRestart PROVE Spec => []ToldInv
<1>1. Base /\ StatusInv /\ ToldInv /\ [Next]_vars => ToldInv'
  BY NextKeepsTold
<1> QED
  BY BaseHolds, StatusHolds, InitTold, <1>1, PTL DEF Spec

(* What ToldInv says of a monitor between two checks. *)
LEMMA ToldWhenSettled ==
  ASSUME Base, ToldInv, NEW m \in Monitors, NEW c \in Linked(m),
         Settled(m), LiveMonitor(m), said[m][c] # "new", Due(monitor[m].status)
  PROVE  said[m][c] = monitor[m].status
<1>1. workers[m] \in Slots /\ go[m][workers[m]].pc = "idle"
  BY DEF Settled, Base, IInv, TypeOK
<1>2. \A s \in Slots : s # workers[m] => go[m][s].pc = "dead"
  BY <1>1 DEF Base, OneGoroutine, Running
<1> QED
  BY <1>1, <1>2 DEF ToldInv, Telling

(* With channels that want to hear of the first failure, a linked channel   *)
(* that has been told a status has been told the monitor's last one,        *)
(* whatever is linked, unlinked, paused or deleted between two statements   *)
(* of a worker (engine.go:198-221).                                         *)
THEOREM AlertsAreTold ==
  ASSUME SlowChecks = FALSE, "db" \notin Faults, NoRestart, AtOnce
  PROVE  Spec => []AlertsAgree
<1>1. Base /\ ToldInv => AlertsAgree
  BY ToldWhenSettled DEF AlertsAgree, Due
<1> QED
  BY BaseHolds, ToldHolds, <1>1, PTL

(* The half of AlertsAgree that holds for every threshold: no channel is    *)
(* left with the news of an outage that is over.                            *)
RecoveryTold ==
  \A m \in Monitors : \A c \in Linked(m) :
    Settled(m) /\ LiveMonitor(m) /\ said[m][c] # "new" /\ monitor[m].status = "UP" =>
      said[m][c] = "UP"

(* A channel with noise reduction may not hear of an outage, but it always  *)
(* hears of the end of one (engine.go:198-221).                             *)
THEOREM RecoveryIsTold ==
  ASSUME SlowChecks = FALSE, "db" \notin Faults, NoRestart PROVE Spec => []RecoveryTold
<1>1. Base /\ ToldInv => RecoveryTold
  BY ToldWhenSettled DEF RecoveryTold, Due
<1> QED
  BY BaseHolds, ToldHolds, <1>1, PTL
-----------------------------------------------------------------------------
(* No alert twice *)

(* A channel that has been told a status that is due knows the one that the *)
(* check under way, or about to be started, has read; and what is told is   *)
(* always a change.                                                         *)
Asking == Deciding \cup {"load"}

Knows(m, c, status) == said[m][c] # "new" /\ Due(status) => said[m][c] = status

RepeatInv ==
  \A m \in Monitors :
    /\ \A s \in Slots : go[m][s].pc \in Telling => go[m][s].verdict # go[m][s].status
    /\ \A c \in Linked(m) :
         /\ \A s \in Slots :
              go[m][s].pc \in Asking \/ (go[m][s].pc = "send" /\ c \in go[m][s].todo) =>
                Knows(m, c, go[m][s].status)
         /\ Awaited(m) => Knows(m, c, loaded[m].status)

LEMMA KnowsFrame ==
  ASSUME NEW m \in Monitors, NEW c, NEW status, Knows(m, c, status),
         said'[m][c] = said[m][c] \/ said'[m][c] = "new"
  PROVE  Knows(m, c, status)'
  BY DEF Knows, Due, AtOnce

(* RepeatInv of a monitor with the goroutine g and no other. *)
RepeatOne(m, g) ==
  /\ g.pc \in Telling => g.verdict # g.status
  /\ \A c \in Linked(m) :
       g.pc \in Asking \/ (g.pc = "send" /\ c \in g.todo) => Knows(m, c, g.status)

LEMMA RepeatOfWorker ==
  ASSUME Base, RepeatInv, NEW m \in Monitors, NEW s \in Slots, Worker(m, s),
         UNCHANGED <<channel, attached>>,
         \A x \in Monitors, c \in Channels : x # m => said'[x][c] = said[x][c],
         RepeatOne(m, go[m][s]) => RepeatOne(m, go[m][s])'
  PROVE  RepeatInv'
<1>1. \A x \in Monitors : Linked(x)' = Linked(x) /\ Linked(x) \subseteq Channels
  BY DEF Linked, LiveChannels
<1>2. SUFFICES ASSUME NEW x \in Monitors
               PROVE  /\ \A t \in Slots : RepeatOne(x, go[x][t])'
                      /\ \A c \in Linked(x) : Awaited(x)' => Knows(x, c, loaded[x].status)'
  BY <1>1, <1>2 DEF RepeatInv, RepeatOne
<1>3. \A t \in Slots : RepeatOne(x, go[x][t])
  BY DEF RepeatInv, RepeatOne
<1>4. CASE x = m
  <2>1. \A t \in Slots : t # s => go'[m][t].pc = "dead"
    BY WorkerScope
  <2>2. ~Awaited(m)'
    BY WorkerScope DEF Awaited
  <2>3. RepeatOne(m, go[m][s])'
    BY <1>3, <1>4
  <2>4. \A t \in Slots : t # s => RepeatOne(m, go[m][t])'
    BY <2>1 DEF RepeatOne, Telling, Asking, Deciding
  <2> QED
    BY <1>4, <2>2, <2>3, <2>4
<1>5. CASE x # m
  <2>1. \A t \in Slots : go'[x][t] = go[x][t]
    BY <1>5, WorkerScope
  <2>2. UNCHANGED <<workers, loaded>> /\ \A c \in Linked(x) : said'[x][c] = said[x][c]
    BY <1>1, <1>5, WorkerScope
  <2>3. ASSUME NEW t \in Slots PROVE RepeatOne(x, go[x][t])'
    BY <1>1, <1>3, <2>1, <2>2 DEF RepeatOne, Knows, Due, AtOnce
  <2>4. ASSUME NEW c \in Linked(x), Awaited(x)' PROVE Knows(x, c, loaded[x].status)'
    <3>1. Knows(x, c, loaded[x].status)
      BY <2>2, <2>4 DEF RepeatInv, Awaited
    <3> QED
      BY <2>2, <3>1 DEF Knows, Due, AtOnce
  <2> QED
    BY <2>3, <2>4
<1> QED
  BY <1>4, <1>5

LEMMA WorkerKeepsRepeat ==
  ASSUME "db" \notin Faults, Base, ToldInv, RepeatInv,
         NEW m \in Monitors, NEW s \in Slots, Worker(m, s)
  PROVE  RepeatInv'
<1> DEFINE g == go[m][s]
           h == go'[m][s]
           Goal == /\ UNCHANGED <<channel, attached>>
                   /\ \A x \in Monitors, c \in Channels : x # m => said'[x][c] = said[x][c]
                   /\ RepeatOne(m, go[m][s]) => RepeatOne(m, go[m][s])'
<1>0. /\ TypeOK /\ StoreTypeOK /\ g \in Goroutine /\ monitor[m] \in MonitorRows
      /\ Linked(m) \subseteq Channels
  BY DEF Base, IInv, TypeOK, StoreTypeOK, Due, AtOnce, Linked, LiveChannels
<1> SUFFICES Goal
  BY RepeatOfWorker
<1>l. ASSUME UNCHANGED <<channel, attached>> PROVE Linked(m)' = Linked(m)
  BY <1>l DEF Linked, LiveChannels
(* A step after which nothing is asked or told. *)
<1>a. ASSUME UNCHANGED <<channel, attached, said>>, h.pc \notin Asking, h.pc # "send"
      PROVE  Goal
  BY <1>a DEF RepeatOne, Telling, Asking
(* A step between two places that ask. *)
<1>b. ASSUME UNCHANGED <<channel, attached, said>>, g.pc \in Asking, h.pc \in Asking,
             h.status = g.status, h.pc \in Telling => h.verdict # h.status
      PROVE  Goal
  BY <1>b, <1>l DEF RepeatOne, Knows, Due, AtOnce
<1>1. CASE RunCheck(m, s)
  <2>1. PICK v \in Verdicts : Checked(m, s, v)
    BY <1>0, <1>1, RunCheckFacts
  <2> QED
    BY <1>b, <2>1 DEF Checked, Asking, Deciding, Telling
<1>2. CASE SaveMessage(m, s)
  BY <1>0, <1>2, <1>b, SaveMessageFacts DEF Moved, StoryFrame, Asking, Deciding, Telling
<1>3. CASE StatusChanged(m, s)
  <2>1. Moved(g, h, "load") /\ StoryFrame /\ UNCHANGED said
    BY <1>0, <1>3, StatusChangedFacts, Zenon
  <2>2. g.pc = "status" /\ g.verdict # g.status
    BY <1>3 DEF StatusChanged
  <2> QED
    BY <1>b, <2>1, <2>2 DEF Moved, StoryFrame, Asking, Deciding
<1>4. CASE StatusKept(m, s)
  BY <1>0, <1>4, <1>a, StatusKeptFacts DEF StoryFrame, Resting, Asking, Deciding
<1>5. CASE LoadChannels(m, s)
  <2>1. /\ g.pc = "load" /\ UNCHANGED <<channel, attached, said>>
        /\ h.pc \in Resting \/ Moved(g, h, "send")
    BY <1>0, <1>5, LoadChannelsFacts DEF StoryFrame
  <2>2. CASE h.pc \in Resting
    BY <1>a, <2>1, <2>2 DEF Resting, Asking, Deciding
  <2>3. CASE Moved(g, h, "send")
    BY <1>l, <2>1, <2>3 DEF Moved, RepeatOne, Knows, Due, AtOnce, Asking, Telling
  <2> QED
    BY <2>1, <2>2, <2>3
<1>6. ASSUME NEW d \in Channels, SendAlert(m, s, d) PROVE Goal
  <2>1. /\ g.pc = "send" /\ d \in g.todo /\ UNCHANGED <<channel, attached>>
        /\ \/ h.pc \in Resting
           \/ Moved(g, h, "send") /\ h.todo = g.todo \ {d}
        /\ \A x \in Monitors, c \in Channels : <<x, c>> # <<m, d>> => said'[x][c] = said[x][c]
    BY <1>0, <1>6, SendAlertFacts DEF StoryFrame
  <2>2. CASE h.pc \in Resting
    BY <2>1, <2>2 DEF Resting, RepeatOne, Telling, Asking, Deciding
  <2>3. CASE Moved(g, h, "send") /\ h.todo = g.todo \ {d}
    <3>1. \A c \in Linked(m) : c \in h.todo => c \in g.todo /\ said'[m][c] = said[m][c]
      BY <1>0, <2>1, <2>3
    <3>2. ASSUME RepeatOne(m, g) PROVE RepeatOne(m, go[m][s])'
      BY <1>l, <2>1, <2>3, <3>1, <3>2
         DEF Moved, RepeatOne, Knows, Due, AtOnce, Asking, Deciding, Telling
    <3> QED
      BY <2>1, <3>2
  <2> QED
    BY <2>1, <2>2, <2>3
<1>7. CASE Quiet(m, s)
  BY <1>0, <1>7, <1>a, QuietFacts DEF StoryFrame, Asking, Deciding
(* The next check reads the row, whose status every channel has been told. *)
<1>8. CASE Tick(m, s)
  <2>1. /\ g.pc = "idle" /\ h.pc = "check" /\ h.status = monitor[m].status
        /\ UNCHANGED <<channel, attached, said>> /\ LiveMonitor(m)
    <3>1. LiveMonitor(m)
      BY <1>8 DEF Tick
    <3> QED
      BY <1>0, <1>8, <3>1, TickFacts DEF StoryFrame
  <2>2. \A t \in Slots : go[m][t].pc \notin Telling
    <3>1. \A t \in Slots : t # s => go[m][t].pc = "dead"
      BY WorkerScope
    <3> QED
      BY <2>1, <3>1 DEF Telling
  <2>3. \A c \in Linked(m) : Knows(m, c, monitor[m].status)
    BY <2>1, <2>2 DEF ToldInv, Knows
  <2> QED
    BY <1>l, <2>1, <2>3 DEF RepeatOne, Knows, Due, AtOnce, Telling
<1> QED
  BY <1>1, <1>2, <1>3, <1>4, <1>5, <1>6, <1>7, <1>8 DEF Worker, Check, Quiet

LEMMA NextKeepsRepeat ==
  ASSUME SlowChecks = FALSE, "db" \notin Faults, NoRestart
  PROVE  Base /\ ToldInv /\ RepeatInv /\ [Next]_vars => RepeatInv'
<1> SUFFICES ASSUME Base, ToldInv, RepeatInv, [Next]_vars PROVE RepeatInv'
  OBVIOUS
<1>0. TypeOK /\ StoreTypeOK
  BY DEF Base, IInv, TypeOK
<1>1. CASE Request
  <2>1. UNCHANGED <<go, workers, loaded>>
    BY <1>1 DEF Request, procVars
  <2>2. ASSUME NEW m \in Monitors, NEW c \in Linked(m)'
        PROVE  (c \in Linked(m) /\ said'[m][c] = said[m][c]) \/ said'[m][c] = "new"
    <3>1. c \in Channels /\ c \in attached'[m]
      BY DEF Linked, LiveChannels
    <3>2. c \notin attached[m] => said'[m][c] = "new"
      BY <1>1, <3>1 DEF Request
    <3>3. c \in attached[m] => said'[m][c] = said[m][c] /\ c \in Linked(m)
      BY <1>0, <1>1, <3>1, HandlerLinks DEF Request, ToldInv
    <3> QED
      BY <3>2, <3>3
  <2>3. ASSUME NEW m \in Monitors, NEW c \in Linked(m)', NEW status,
               c \in Linked(m) => Knows(m, c, status)
        PROVE  Knows(m, c, status)'
    <3>1. CASE said'[m][c] = "new"
      BY <3>1 DEF Knows
    <3>2. CASE c \in Linked(m) /\ said'[m][c] = said[m][c]
      BY <2>3, <3>2 DEF Knows, Due, AtOnce
    <3> QED
      BY <2>2, <3>1, <3>2
  <2> SUFFICES ASSUME NEW m \in Monitors
               PROVE  /\ \A s \in Slots : go[m][s].pc \in Telling => go[m][s].verdict # go[m][s].status
                      /\ \A c \in Linked(m)' :
                           /\ \A s \in Slots :
                                go[m][s].pc \in Asking \/ (go[m][s].pc = "send" /\ c \in go[m][s].todo) =>
                                  Knows(m, c, go[m][s].status)'
                           /\ Awaited(m) => Knows(m, c, loaded[m].status)'
    BY <2>1 DEF RepeatInv, Awaited, Knows
  <2> QED
    BY <2>1, <2>3 DEF RepeatInv, Knows
<1>2. ASSUME UNCHANGED <<channel, attached, said>>,
             \A m \in Monitors, s \in Slots :
               \/ SameButCancelled(go[m][s], go'[m][s])
               \/ /\ Awaited(m)
                  /\ go'[m][s].pc = "check" /\ go'[m][s].status = loaded[m].status,
             \A m \in Monitors : \A c \in Linked(m) :
               Awaited(m)' => Knows(m, c, loaded'[m].status)
      PROVE  RepeatInv'
  <2>1. \A m \in Monitors : Linked(m)' = Linked(m)
    BY <1>2 DEF Linked, LiveChannels
  <2>3. ASSUME NEW m \in Monitors, NEW s \in Slots
        PROVE  /\ go'[m][s].pc \in Telling => go'[m][s].verdict # go'[m][s].status
               /\ \A c \in Linked(m) :
                    go'[m][s].pc \in Asking \/ (go'[m][s].pc = "send" /\ c \in go'[m][s].todo) =>
                      Knows(m, c, go'[m][s].status)
    <3>1. CASE SameButCancelled(go[m][s], go'[m][s])
      BY <3>1 DEF SameButCancelled, RepeatInv
    <3>2. CASE Awaited(m) /\ go'[m][s].pc = "check" /\ go'[m][s].status = loaded[m].status
      BY <3>2 DEF RepeatInv, Telling
    <3> QED
      BY <1>2, <3>1, <3>2
  <2>4. ASSUME NEW m \in Monitors, NEW c \in Linked(m), Awaited(m)'
        PROVE  Knows(m, c, loaded[m].status)'
    BY <1>2, <2>4 DEF Knows, Due, AtOnce
  <2>5. ASSUME NEW m \in Monitors, NEW c \in Linked(m), NEW s \in Slots,
               go'[m][s].pc \in Asking \/ (go'[m][s].pc = "send" /\ c \in go'[m][s].todo)
        PROVE  Knows(m, c, go[m][s].status)'
    <3>1. Knows(m, c, go'[m][s].status)
      BY <2>3, <2>5
    <3> QED
      BY <1>2, <3>1 DEF Knows, Due, AtOnce
  <2> QED
    BY <2>1, <2>3, <2>4, <2>5 DEF RepeatInv
<1>3. CASE ReloadLoad
  <2>1. /\ UNCHANGED <<channel, attached, said, go, workers>>
        /\ \A m \in DOMAIN loaded' : LiveMonitor(m) /\ loaded'[m].status = monitor[m].status
    BY <1>3 DEF ReloadLoad, storeVars, ghostVars, Snapshot
  <2>2. ASSUME NEW m \in Monitors, NEW c \in Linked(m), Awaited(m)'
        PROVE  Knows(m, c, loaded'[m].status)
    <3>1. workers[m] = NoSlot /\ m \in DOMAIN loaded'
      BY <2>1, <2>2 DEF Awaited
    <3>2. \A s \in Slots : go[m][s].pc = "dead"
      BY <1>3, <3>1, EngineAssumption
         DEF ReloadLoad, Lingering, Base, IInv, RegistryOK, NoStrayWorker, Running
    <3> QED
      BY <2>1, <3>1, <3>2 DEF ToldInv, Knows, Telling
  <2> QED
    BY <1>2, <2>1, <2>2 DEF SameButCancelled
<1>4. CASE ReloadSync
  <2>1. UNCHANGED <<channel, attached, said>> /\ \A m \in Monitors : ~Awaited(m)'
    BY <1>4 DEF ReloadSync, storeVars, ghostVars, NothingLoaded, Awaited
  <2> QED
    BY <1>2, <1>4, <2>1, SyncGoroutines
<1>5. CASE StopAll
  <2>1. UNCHANGED <<channel, attached, said, loaded>> /\ engine = "select"
    BY <1>5 DEF StopAll, storeVars, ghostVars
  <2>2. \A m \in Monitors : ~Awaited(m)'
    BY <2>1 DEF Awaited, Base, OneGoroutine
  <2> QED
    BY <1>2, <1>5, <2>1, <2>2, StopAllGoroutines
<1>6. CASE Restart
  BY <1>6 DEF Restart, NoRestart
<1>7. CASE ReloadFails \/ Stop \/ NextDay \/ UNCHANGED vars
  <2>1. UNCHANGED <<channel, attached, said, go, workers, loaded>>
    BY <1>7 DEF ReloadFails, Stop, NextDay, storeVars, procVars, ghostVars, vars
  <2> QED
    BY <1>2, <2>1 DEF SameButCancelled, RepeatInv, Awaited
<1> QED
  BY <1>1, <1>3, <1>4, <1>5, <1>6, <1>7, WorkerKeepsRepeat DEF Next, Reload

LEMMA InitRepeat == Init => RepeatInv
  BY DEF Init, StoreInit, ProcInit, RepeatInv, Dead, Asking, Deciding, Telling, Awaited,
         NothingLoaded

(* A linked channel is handed the status it was handed last only when a     *)
(* pause, a resume or the insertion had reset the row that the check        *)
(* started from, or when the outage in between was too short for its        *)
(* threshold.                                                               *)
NoAlertTwice ==
  [][\A m \in Monitors, s \in Slots : \A c \in Linked(m) :
       SendAlert(m, s, c) /\ said[m][c] = go[m][s].verdict =>
         \/ go[m][s].status \notin Verdicts
         \/ go[m][s].status = "DOWN" /\ ~AtOnce]_vars

(* Nobody is alerted of the same thing twice in a row, however links,       *)
(* pauses and reloads fall between the statements of a check, but for what  *)
(* NoAlertTwice names (engine.go:188-221).                                  *)
THEOREM AlertsAlternate ==
  ASSUME SlowChecks = FALSE, "db" \notin Faults, NoRestart
  PROVE  Spec => NoAlertTwice
<1>1. Base /\ ToldInv /\ RepeatInv /\ [Next]_vars => RepeatInv'
  BY NextKeepsRepeat
<1>2. Base /\ RepeatInv =>
        [\A m \in Monitors, s \in Slots : \A c \in Linked(m) :
           SendAlert(m, s, c) /\ said[m][c] = go[m][s].verdict =>
             \/ go[m][s].status \notin Verdicts
             \/ go[m][s].status = "DOWN" /\ ~AtOnce]_vars
  <2> SUFFICES ASSUME Base, RepeatInv, NEW m \in Monitors, NEW s \in Slots, NEW c \in Linked(m),
                      SendAlert(m, s, c), said[m][c] = go[m][s].verdict, Due(go[m][s].status)
               PROVE  FALSE
    BY DEF Due, Verdicts
  <2>1. go[m][s].pc = "send" /\ c \in go[m][s].todo
    BY DEF SendAlert
  <2>2. go[m][s].verdict \in Verdicts /\ go[m][s].verdict # go[m][s].status
    BY <2>1 DEF RepeatInv, Telling, Base, IInv, TypeOK, Goroutine
  <2>3. Knows(m, c, go[m][s].status)
    BY <2>1 DEF RepeatInv
  <2> QED
    BY <2>2, <2>3 DEF Knows, Verdicts
<1> QED
  BY BaseHolds, ToldHolds, InitRepeat, <1>1, <1>2, PTL DEF Spec, NoAlertTwice
=============================================================================
