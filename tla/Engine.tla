------------------------------- MODULE Engine -------------------------------
(***************************************************************************)
(* internal/monitors/engine.go: the supervisor goroutine that keeps one    *)
(* worker goroutine per active monitor, and the workers, which check their *)
(* monitor, write what they found and hand alerts to the dispatcher.       *)
(*                                                                         *)
(* The handlers of Store run concurrently with all of them and tell the    *)
(* engine nothing: the engine sees their work in its next reload, a worker *)
(* in the next row it reads.  A worker step is one SQL statement or one    *)
(* call of the dispatcher.                                                 *)
(***************************************************************************)
EXTENDS Store

CONSTANTS
  Slots,          \* names for the goroutines that one monitor may have at a time
  NoSlot,         \* "no entry in e.workers"
  SlowChecks,     \* whether a check may outlast the 30 s from one reload to the next
  HttpsMonitors,  \* the monitors whose check message carries a certificate date
  MaxDay          \* bound: the last UTC day

ASSUME EngineAssumption ==
  /\ Slots # {}
  /\ NoSlot \notin Slots
  /\ SlowChecks \in BOOLEAN
  /\ HttpsMonitors \subseteq Monitors
  /\ MaxDay \in Nat \ {0}

VARIABLES
  engine,          \* where Engine.Start is: "boot", "select", "sync", "stopped"
  stopping,        \* stopCh is closed
  loaded,          \* the active rows that reload read, before it takes e.mu
  workers,         \* e.workers: monitor -> goroutine, or NoSlot
  go,              \* the worker goroutines
  certNotifiedOn,  \* the day of the last certificate reminder, 0 for none
  day,             \* today (UTC)
  gauge,           \* the Prometheus gauge monitor_status
  history,         \* the newest check_results row and the length of its run of DOWNs
  said,            \* ghost: the last status alert handed over for a linked channel
  reminders        \* ghost: certificate reminders decided today by this process

procVars  == <<engine, stopping, loaded, workers, go, certNotifiedOn, gauge>>
ghostVars == <<history, said, reminders>>
vars      == <<storeVars, procVars, day, ghostVars>>
-----------------------------------------------------------------------------
(* The fields of the row that runCheck uses after the row was read. *)
Snapshot(row) == [status |-> row.status, fails |-> row.fails, period |-> row.interval]

Snapshots == [status : Statuses, fails : 0 .. MaxFails, period : Nat]

NothingLoaded == [m \in {} |-> NoSlot]

PCs == {"dead", "check", "message", "status", "load", "send",
        "cert", "certload", "certsend", "idle"}

Goroutine ==
  {g \in [pc : PCs, cancelled : BOOLEAN, status : Statuses, fails : 0 .. MaxFails,
          verdict : Verdicts \cup {"none"}, todo : SUBSET Channels, period : Nat] :
     g.pc \in {"message", "status", "load", "send"} => g.verdict \in Verdicts}

Dead ==
  [pc |-> "dead", cancelled |-> FALSE, status |-> "PENDING", fails |-> 0,
   verdict |-> "none", todo |-> {}, period |-> 0]

Started(snap) ==
  [pc |-> "check", cancelled |-> FALSE, status |-> snap.status, fails |-> snap.fails,
   verdict |-> "none", todo |-> {}, period |-> snap.period]

Cancelled(g) == IF g.pc = "dead" THEN g ELSE [g EXCEPT !.cancelled = TRUE]

(* Back in the select of startWorker: the row and the verdict are out of scope. *)
Waiting(g) ==
  [pc |-> "idle", cancelled |-> g.cancelled, status |-> "PENDING", fails |-> 0,
   verdict |-> "none", todo |-> {}, period |-> g.period]

(* What follows the alerts of a check. *)
AfterAlerts(m, g) == IF m \in HttpsMonitors THEN [g EXCEPT !.pc = "cert", !.todo = {}]
                                            ELSE Waiting(g)

(* Mutant: an UP result leaves the counter alone. *)
FailuresKept(g) == IF g.verdict = "DOWN" THEN Bump(g.fails) ELSE g.fails

(* consecutiveFailures(status, m.ConsecutiveFailures) *)
ConsecutiveFailures(g) == IF g.verdict = "DOWN" THEN Bump(g.fails) ELSE 0

(* Mutant: the counter from before this check is compared. *)
AlertsLate(n, g) ==
  /\ n.active
  /\ ~(g.verdict = "DOWN" /\ g.fails < n.after)
  /\ ~(g.verdict = "DOWN" /\ ~n.onDown)
  /\ ~(g.verdict = "UP" /\ ~n.onUp)

(* The per-channel filter of runCheck, on the channel row it has loaded. *)
Alerts(n, g) ==
  /\ n.active
  /\ ~(g.verdict = "DOWN" /\ ConsecutiveFailures(g) < n.after)
  /\ ~(g.verdict = "DOWN" /\ ~n.onDown)
  /\ ~(g.verdict = "UP" /\ ~n.onUp)

(* Whether a statement whose error the code drops takes effect. *)
Stored == IF "db" \in Faults THEN BOOLEAN ELSE {TRUE}
-----------------------------------------------------------------------------
ProcInit ==
  /\ engine = "boot"
  /\ stopping = FALSE
  /\ loaded = NothingLoaded
  /\ workers = [m \in Monitors |-> NoSlot]
  /\ go = [m \in Monitors |-> [s \in Slots |-> Dead]]
  /\ certNotifiedOn = [m \in Monitors |-> 0]
  /\ gauge = [m \in Monitors |-> "none"]

Init ==
  /\ StoreInit
  /\ ProcInit
  /\ day = 1
  /\ history = [m \in Monitors |-> [last |-> "none", downs |-> 0]]
  /\ said = [m \in Monitors |-> [c \in Channels |-> "new"]]
  /\ reminders = [m \in Monitors |-> 0]

(* A handler step.  A channel that is newly linked has been told nothing. *)
Request ==
  /\ Handlers
  /\ said' = [m \in Monitors |-> [c \in Channels |->
                IF c \in attached'[m] \ attached[m] THEN "new" ELSE said[m][c]]]
  /\ UNCHANGED <<procVars, day, history, reminders>>
-----------------------------------------------------------------------------
(* The supervisor *)

(* m's goroutine s is at pc. *)
At(m, s, pc) == go[m][s].pc = pc

(* A worker that an earlier reload cancelled is still busy.  Most checks    *)
(* give up when they are cancelled; a UDP check keeps its own deadline and a *)
(* WHOIS query has none (checkers.go:319-358, 484-521).                      *)
Lingering ==
  \E m \in Monitors, s \in Slots : ~At(m, s, "dead") /\ go[m][s].cancelled

(* reload, first half: the query runs before e.mu is taken. *)
ReloadLoad ==
  /\ engine \in {"boot", "select"}
  /\ SlowChecks \/ ~Lingering
  /\ loaded' = [m \in {x \in Monitors : LiveMonitor(x) /\ monitor[x].active} |->
                  Snapshot(monitor[m])]
  /\ engine' = "sync"
  /\ UNCHANGED <<storeVars, stopping, workers, go, certNotifiedOn, gauge, day, ghostVars>>

ReloadFails ==
  /\ "db" \in Faults
  /\ engine \in {"boot", "select"}
  /\ engine' = "select"
  /\ UNCHANGED <<storeVars, stopping, loaded, workers, go, certNotifiedOn, gauge, day, ghostVars>>

(* Mutant: only the workers of deleted monitors are stopped. *)
ObsoleteDeleted == {m \in Monitors : workers[m] # NoSlot /\ ~LiveMonitor(m)}

(* Entries of e.workers whose monitor is not in the set that was read. *)
Obsolete == {m \in Monitors : workers[m] # NoSlot /\ m \notin DOMAIN loaded}

(* Mutants: a worker is started beside one that is running; only monitors   *)
(* that were never checked get a worker.                                    *)
MissingAll == DOMAIN loaded

MissingPending == {m \in DOMAIN loaded : workers[m] = NoSlot /\ loaded[m].status = "PENDING"}

(* Monitors of the set that was read without an entry. *)
Missing == {m \in DOMAIN loaded : workers[m] = NoSlot}

(* Mutant: the entry of a cancelled worker is not deleted. *)
EntryKept(m, place) == IF m \in Missing THEN place[m] ELSE workers[m]

(* m's entry after the reload. *)
Entry(m, place) ==
  IF m \in Missing THEN place[m] ELSE IF m \in Obsolete THEN NoSlot ELSE workers[m]

(* reload, second half, under e.mu; place names the goroutines it starts.   *)
ReloadSync ==
  /\ engine = "sync"
  /\ \E place \in [Missing -> Slots] :
       /\ \A m \in Missing : go[m][place[m]].pc = "dead"
       /\ workers' = [m \in Monitors |-> Entry(m, place)]
       /\ go' = [m \in Monitors |-> [s \in Slots |->
            IF m \in Missing /\ s = place[m] THEN Started(loaded[m])
            ELSE IF m \in Obsolete /\ s = workers[m] THEN Cancelled(go[m][s])
            ELSE go[m][s]]]
  /\ loaded' = NothingLoaded
  /\ engine' = "select"
  /\ UNCHANGED <<storeVars, stopping, certNotifiedOn, gauge, day, ghostVars>>

(* main calls Engine.Stop: the channel is closed, nothing is waited for.    *)
Stop ==
  /\ "stop" \in Operations
  /\ ~stopping
  /\ stopping' = TRUE
  /\ UNCHANGED <<storeVars, engine, loaded, workers, go, certNotifiedOn, gauge, day, ghostVars>>

(* Mutant: the map is emptied and no cancel function called. *)
StopAllForgets ==
  /\ engine = "select"
  /\ stopping
  /\ engine' = "stopped"
  /\ workers' = [m \in Monitors |-> NoSlot]
  /\ UNCHANGED <<storeVars, stopping, loaded, go, certNotifiedOn, gauge, day, ghostVars>>

(* The select of Engine.Start takes stopCh. *)
StopAll ==
  /\ engine = "select"
  /\ stopping
  /\ engine' = "stopped"
  /\ workers' = [m \in Monitors |-> NoSlot]
  /\ go' = [m \in Monitors |-> [s \in Slots |->
              IF s = workers[m] THEN Cancelled(go[m][s]) ELSE go[m][s]]]
  /\ UNCHANGED <<storeVars, stopping, loaded, certNotifiedOn, gauge, day, ghostVars>>

(* The process ends, by a crash or because main returned after Stop, and is *)
(* started again on the same database.                                      *)
Restart ==
  /\ "crash" \in Faults \/ ("stop" \in Operations /\ stopping)
  /\ engine' = "boot"
  /\ stopping' = FALSE
  /\ loaded' = NothingLoaded
  /\ workers' = [m \in Monitors |-> NoSlot]
  /\ go' = [m \in Monitors |-> [s \in Slots |-> Dead]]
  /\ certNotifiedOn' = [m \in Monitors |-> 0]
  /\ gauge' = [m \in Monitors |-> "none"]
  /\ requests' = {}
  /\ reminders' = [m \in Monitors |-> 0]
  /\ UNCHANGED <<monitor, channel, attached, day, history, said>>
-----------------------------------------------------------------------------
(* A worker: m's goroutine s *)

Becomes(m, s, g) == go' = [go EXCEPT ![m][s] = g]

(* runCheck up to the metrics: a verdict, its check_results row, the gauge. *)
RunCheck(m, s) ==
  /\ At(m, s, "check")
  /\ \E v \in Verdicts :
       /\ Becomes(m, s, [go[m][s] EXCEPT !.pc = "message", !.verdict = v])
       /\ gauge' = [gauge EXCEPT ![m] = v]
       /\ \E ok \in Stored :
            history' = IF ok
              THEN [history EXCEPT ![m] =
                      [last |-> v, downs |-> IF v = "DOWN" THEN Bump(@.downs) ELSE 0]]
              ELSE history
  /\ UNCHANGED <<storeVars, engine, stopping, loaded, workers, certNotifiedOn, day,
                 said, reminders>>

(* A write of the worker to its monitor's row; none when the row is deleted. *)
Write(m, row) ==
  \E ok \in Stored :
    monitor' = IF ok /\ LiveMonitor(m) THEN [monitor EXCEPT ![m] = row] ELSE monitor

WorkerFrame ==
  UNCHANGED <<channel, attached, requests, engine, stopping, loaded, workers, gauge,
              day, history>>

(* Mutant: the message is kept for failures only. *)
SaveFailureMessage(m, s) ==
  /\ At(m, s, "message")
  /\ IF go[m][s].verdict = "DOWN"
       THEN Write(m, [monitor[m] EXCEPT !.message = "DOWN"])
       ELSE monitor' = monitor
  /\ Becomes(m, s, [go[m][s] EXCEPT !.pc = "status"])
  /\ WorkerFrame
  /\ UNCHANGED <<certNotifiedOn, said, reminders>>

SaveMessage(m, s) ==
  /\ At(m, s, "message")
  /\ Write(m, [monitor[m] EXCEPT !.message = go[m][s].verdict])
  /\ Becomes(m, s, [go[m][s] EXCEPT !.pc = "status"])
  /\ WorkerFrame
  /\ UNCHANGED <<certNotifiedOn, said, reminders>>

(* Mutant: going from PENDING to UP is not stored, as nothing recovered. *)
StatusRecovered(m, s) ==
  /\ At(m, s, "status")
  /\ go[m][s].verdict # go[m][s].status
  /\ IF "DOWN" \in {go[m][s].verdict, go[m][s].status}
       THEN Write(m, [monitor[m] EXCEPT !.status = go[m][s].verdict,
                                        !.fails = ConsecutiveFailures(go[m][s])])
       ELSE monitor' = monitor
  /\ Becomes(m, s, [go[m][s] EXCEPT !.pc = "load"])
  /\ WorkerFrame
  /\ UNCHANGED <<certNotifiedOn, said, reminders>>

(* The verdict differs from the status in the row the worker has read.      *)
StatusChanged(m, s) ==
  /\ At(m, s, "status")
  /\ go[m][s].verdict # go[m][s].status
  /\ Write(m, [monitor[m] EXCEPT !.status = go[m][s].verdict,
                                 !.fails = ConsecutiveFailures(go[m][s])])
  /\ Becomes(m, s, [go[m][s] EXCEPT !.pc = "load"])
  /\ WorkerFrame
  /\ UNCHANGED <<certNotifiedOn, said, reminders>>

(* It does not: another failure is counted, in the row as it is now.        *)
StatusKept(m, s) ==
  /\ At(m, s, "status")
  /\ go[m][s].verdict = go[m][s].status
  /\ IF go[m][s].verdict = "DOWN"
       THEN Write(m, [monitor[m] EXCEPT !.fails = Bump(@)])
       ELSE monitor' = monitor
  /\ Becomes(m, s, AfterAlerts(m, go[m][s]))
  /\ WorkerFrame
  /\ UNCHANGED <<certNotifiedOn, said, reminders>>

(* The linked channels are read and filtered; an error reads as no channel. *)
LoadChannels(m, s) ==
  /\ At(m, s, "load")
  /\ \E ok \in Stored :
       LET todo == {c \in Linked(m) : ok /\ Alerts(channel[c], go[m][s])} IN
         Becomes(m, s, IF todo = {} THEN AfterAlerts(m, go[m][s])
                       ELSE [go[m][s] EXCEPT !.pc = "send", !.todo = todo])
  /\ WorkerFrame
  /\ UNCHANGED <<monitor, certNotifiedOn, said, reminders>>

(* One alert is handed to the dispatcher. *)
SendAlert(m, s, c) ==
  /\ At(m, s, "send")
  /\ c \in go[m][s].todo
  /\ said' = [said EXCEPT ![m][c] = go[m][s].verdict]
  /\ Becomes(m, s, IF go[m][s].todo = {c} THEN AfterAlerts(m, go[m][s])
                   ELSE [go[m][s] EXCEPT !.todo = @ \ {c}])
  /\ WorkerFrame
  /\ UNCHANGED <<monitor, certNotifiedOn, reminders>>

(* maybeSendCertExpiryNotification: no warning in the message, or one was   *)
(* already sent today.                                                      *)
CertQuiet(m, s) ==
  /\ At(m, s, "cert")
  /\ Becomes(m, s, Waiting(go[m][s]))
  /\ WorkerFrame
  /\ UNCHANGED <<monitor, certNotifiedOn, said, reminders>>

(* Mutant: off by one, a warning of the same day passes too. *)
CertDueAgain(m, s) ==
  /\ At(m, s, "cert")
  /\ certNotifiedOn[m] <= day
  /\ certNotifiedOn' = [certNotifiedOn EXCEPT ![m] = day]
  /\ reminders' = [reminders EXCEPT ![m] = @ + 1]
  /\ Becomes(m, s, [go[m][s] EXCEPT !.pc = "certload"])
  /\ WorkerFrame
  /\ UNCHANGED <<monitor, said>>

(* A warning, the first of the day: marked under certNotifyMu, before it is *)
(* sent.                                                                    *)
CertDue(m, s) ==
  /\ At(m, s, "cert")
  /\ certNotifiedOn[m] < day
  /\ certNotifiedOn' = [certNotifiedOn EXCEPT ![m] = day]
  /\ reminders' = [reminders EXCEPT ![m] = @ + 1]
  /\ Becomes(m, s, [go[m][s] EXCEPT !.pc = "certload"])
  /\ WorkerFrame
  /\ UNCHANGED <<monitor, said>>

CertLoad(m, s) ==
  /\ At(m, s, "certload")
  /\ \E ok \in Stored :
       LET todo == {c \in Linked(m) : ok /\ channel[c].active} IN
         Becomes(m, s, IF todo = {} THEN Waiting(go[m][s])
                       ELSE [go[m][s] EXCEPT !.pc = "certsend", !.todo = todo])
  /\ WorkerFrame
  /\ UNCHANGED <<monitor, certNotifiedOn, said, reminders>>

(* One reminder is handed to the dispatcher. *)
CertSend(m, s, c) ==
  /\ At(m, s, "certsend")
  /\ c \in go[m][s].todo
  /\ Becomes(m, s, IF go[m][s].todo = {c} THEN Waiting(go[m][s])
                   ELSE [go[m][s] EXCEPT !.todo = @ \ {c}])
  /\ WorkerFrame
  /\ UNCHANGED <<monitor, certNotifiedOn, said, reminders>>

(* The worker's ticker fires: the row is read again.  A cancelled worker    *)
(* gets here too, when its select finds both channels ready.                *)
Tick(m, s) ==
  /\ At(m, s, "idle")
  /\ LiveMonitor(m)
  /\ Becomes(m, s, [go[m][s] EXCEPT !.pc = "check", !.status = monitor[m].status,
                                    !.fails = monitor[m].fails])
  /\ WorkerFrame
  /\ UNCHANGED <<monitor, certNotifiedOn, said, reminders>>

(* ... and is not found, or not read: the goroutine returns and leaves its  *)
(* entry in e.workers.                                                      *)
TickFails(m, s) ==
  /\ At(m, s, "idle")
  /\ ~LiveMonitor(m) \/ "db" \in Faults
  /\ Becomes(m, s, Dead)
  /\ WorkerFrame
  /\ UNCHANGED <<monitor, certNotifiedOn, said, reminders>>

(* The worker's select takes ctx.Done(). *)
Exit(m, s) ==
  /\ At(m, s, "idle")
  /\ go[m][s].cancelled
  /\ Becomes(m, s, Dead)
  /\ WorkerFrame
  /\ UNCHANGED <<monitor, certNotifiedOn, said, reminders>>

(* Midnight UTC. *)
NextDay ==
  /\ day < MaxDay
  /\ day' = day + 1
  /\ reminders' = [m \in Monitors |-> 0]
  /\ UNCHANGED <<storeVars, procVars, history, said>>
-----------------------------------------------------------------------------
Reload == ReloadLoad \/ ReloadFails \/ ReloadSync

Check(m, s) ==
  \/ RunCheck(m, s)
  \/ SaveMessage(m, s)
  \/ StatusChanged(m, s)
  \/ StatusKept(m, s)
  \/ LoadChannels(m, s)
  \/ \E c \in Channels : SendAlert(m, s, c) \/ CertSend(m, s, c)
  \/ CertQuiet(m, s)
  \/ CertDue(m, s)
  \/ CertLoad(m, s)

Worker(m, s) == Check(m, s) \/ Tick(m, s) \/ TickFails(m, s) \/ Exit(m, s)

Next ==
  \/ Request
  \/ Reload
  \/ Stop
  \/ StopAll
  \/ Restart
  \/ NextDay
  \/ \E m \in Monitors, s \in Slots : Worker(m, s)

Spec == Init /\ [][Next]_vars

(* Goroutines that can run do run, and a select that finds the same case    *)
(* ready again and again takes it: Go chooses among ready cases at random.  *)
Fairness ==
  /\ WF_vars(ReloadLoad)
  /\ WF_vars(ReloadSync)
  /\ SF_vars(StopAll)
  /\ \A m \in Monitors, s \in Slots :
       WF_vars(Check(m, s)) /\ WF_vars(Tick(m, s) \/ TickFails(m, s)) /\ SF_vars(Exit(m, s))

FairSpec == Spec /\ Fairness
-----------------------------------------------------------------------------
(* Properties *)

(* Every variable keeps its type, and a worker that writes or alerts after  *)
(* its check does so with a verdict.                                        *)
TypeOK ==
  /\ StoreTypeOK
  /\ engine \in {"boot", "select", "sync", "stopped"}
  /\ stopping \in BOOLEAN
  /\ DOMAIN loaded \subseteq Monitors
  /\ \A m \in DOMAIN loaded : loaded[m] \in Snapshots
  /\ workers \in [Monitors -> Slots \cup {NoSlot}]
  /\ go \in [Monitors -> [Slots -> Goroutine]]
  /\ certNotifiedOn \in [Monitors -> Nat]
  /\ day \in Nat
  /\ gauge \in [Monitors -> Verdicts \cup {"none"}]
  /\ history \in [Monitors -> [last : Verdicts \cup {"none"}, downs : 0 .. MaxFails]]
  /\ said \in [Monitors -> [Channels -> Verdicts \cup {"new"}]]
  /\ reminders \in [Monitors -> Nat]

Running(m, s) == ~At(m, s, "dead")

(* A goroutine that nobody has told to stop is the one e.workers knows:     *)
(* reload never forgets a running worker and never starts a second one      *)
(* beside it, whatever handlers, failures and the reload's two halves       *)
(* interleave to (engine.go:91-157).                                        *)
NoStrayWorker ==
  \A m \in Monitors, s \in Slots :
    Running(m, s) /\ ~go[m][s].cancelled => workers[m] = s

(* The entry of a worker is never that of a cancelled one: a monitor whose  *)
(* worker was told to stop can be given a new one (engine.go:109-121).      *)
NoCancelledEntry ==
  \A m \in Monitors :
    workers[m] # NoSlot => ~go[m][workers[m]].cancelled

(* Once Engine.Start has taken stopCh, every goroutine that still runs has  *)
(* been cancelled (engine.go:62-64, 318-325).                               *)
StoppedMeansCancelled ==
  engine = "stopped" =>
    \A m \in Monitors, s \in Slots : Running(m, s) => go[m][s].cancelled

(* engine.go:91: "reload syncs running workers with the DB state".  When it *)
(* is done, the monitors with a worker that is running and not cancelled    *)
(* are those that the query found active, apart from rows that were deleted *)
(* meanwhile.                                                               *)
ReloadSyncs ==
  [][ReloadSync =>
       \A m \in Monitors : LiveMonitor(m) =>
         (m \in DOMAIN loaded <=>
            \E s \in Slots : go'[m][s].pc # "dead" /\ ~go'[m][s].cancelled)]_vars

(* m's worker is between two checks. *)
Settled(m) == workers[m] # NoSlot /\ At(m, workers[m], "idle")

(* Between two checks, the five places that show a monitor's state tell the *)
(* same story: the row's status, unless a handler has replaced it, its last *)
(* message, the newest history row and the gauge (engine.go:168-192).       *)
DashboardAgrees ==
  \A m \in Monitors :
    Settled(m) /\ LiveMonitor(m) =>
      /\ monitor[m].message = history[m].last
      /\ gauge[m] = history[m].last
      /\ monitor[m].status \in Verdicts => monitor[m].status = history[m].last

(* consecutive_failures is the number of DOWN results since the newest UP   *)
(* one, although two different statements write it, one of them from a row  *)
(* that handlers may have changed since it was read (engine.go:184-225).    *)
FailuresCounted ==
  \A m \in Monitors :
    Settled(m) /\ LiveMonitor(m) => monitor[m].fails = history[m].downs

(* Noise reduction, models.go:155: "notify only after N consecutive         *)
(* failures".  Between two checks, a linked channel that has been told a    *)
(* status has been told UP if the monitor is UP, and has been told DOWN if  *)
(* the monitor has failed N times or more (engine.go:198-221).              *)
AlertsAgree ==
  \A m \in Monitors : \A c \in Linked(m) :
    Settled(m) /\ LiveMonitor(m) /\ said[m][c] # "new" =>
      /\ monitor[m].status = "UP" => said[m][c] = "UP"
      /\ monitor[m].status = "DOWN" /\ monitor[m].fails >= channel[c].after =>
           said[m][c] = "DOWN"

(* "Maintenance mode: monitors can be paused" (statusy-specification.md:127)*)
(* and the pause handler writes the status MAINTENANCE: a paused monitor,   *)
(* once its worker is gone, shows it (handlers.go:96-105, engine.go:188-192).*)
PausedShowsMaintenance ==
  \A m \in Monitors :
    /\ LiveMonitor(m)
    /\ ~monitor[m].active
    /\ \A s \in Slots : ~Running(m, s)
    => monitor[m].status = "MAINTENANCE"

(* A monitor's certificate reminder "fires at most once per UTC day"        *)
(* (engine.go:236), even while a cancelled worker finishes beside its       *)
(* successor.  The map of days is not stored, so this is said of one life   *)
(* of the process only.                                                     *)
OneReminderPerDay == \A m \in Monitors : reminders[m] <= 1
-----------------------------------------------------------------------------
(* Liveness *)

Undisturbed == <>[][~Restart /\ ~Stop /\ ~Request]_vars

(* No worker of an existing row has died of a failed read: its entry would   *)
(* block a new one (engine.go:107-123, 145-149).                            *)
NoZombie ==
  \A m \in Monitors : LiveMonitor(m) /\ workers[m] # NoSlot => Running(m, workers[m])

(* A monitor that stays active is checked again and again, unless a worker  *)
(* died of a failed read (engine.go:91-157).                                *)
ActiveIsChecked ==
  \A m \in Monitors :
    Undisturbed /\ []NoZombie /\ <>[](LiveMonitor(m) /\ monitor[m].active /\ ~stopping) =>
      []<><<\E s \in Slots : RunCheck(m, s)>>_vars

(* A monitor that stays paused or deleted ends with no running goroutine.   *)
InactiveIsLeftAlone ==
  \A m \in Monitors :
    Undisturbed /\ <>[](~LiveMonitor(m) \/ ~monitor[m].active) =>
      <>[](\A s \in Slots : ~Running(m, s))

(* When every check of an active monitor finds the same verdict, its status *)
(* becomes that verdict and stays it, whatever a cancelled worker that was  *)
(* still running wrote in between.                                          *)
StatusConverges ==
  \A m \in Monitors, v \in Verdicts :
    /\ Undisturbed
    /\ []NoZombie
    /\ <>[](LiveMonitor(m) /\ monitor[m].active /\ ~stopping)
    /\ <>[][\A s \in Slots : RunCheck(m, s) => go'[m][s].verdict = v]_vars
    => <>[](monitor[m].status = v)

(* After Stop every goroutine ends, unless the process does first.          *)
StopEndsAll ==
  stopping ~> (~stopping \/ \A m \in Monitors, s \in Slots : ~Running(m, s))
=============================================================================
