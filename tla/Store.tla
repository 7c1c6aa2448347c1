------------------------------- MODULE Store -------------------------------
(***************************************************************************)
(* The tables that the REST handlers and the monitoring engine share:      *)
(* `monitors', `notifications' and the join table between them, with the   *)
(* handlers of internal/monitors/handlers.go as actions.                   *)
(*                                                                         *)
(* One action is one SQL statement: a handler that issues several is cut   *)
(* there, and the rest of it waits in `requests', so that other handlers   *)
(* and the engine's goroutines run in between.  Deletes are gorm soft      *)
(* deletes: the row stays, with its join rows, and no statement that goes  *)
(* through a gorm model reads or writes it again.                          *)
(***************************************************************************)
EXTENDS Naturals, FiniteSets

CONSTANTS
  Monitors,       \* the monitor rows that may ever be created (ids are not reused)
  Channels,       \* the notification rows that may ever be created
  MonitorBodies,  \* request bodies of POST and PUT /api/monitors
  ChannelBodies,  \* request bodies of POST and PUT /api/notifications
  Operations,     \* the handlers that clients call
  Faults,         \* what the environment may do: "db" (a statement fails), "crash"
  MaxFails,       \* bound: consecutive_failures saturates here
  MaxRequests     \* bound: handlers in flight between two of their statements

ASSUME StoreAssumption ==
  /\ MonitorBodies \subseteq [interval : Nat, active : BOOLEAN]
  /\ ChannelBodies \subseteq
       [active : BOOLEAN, onDown : BOOLEAN, onUp : BOOLEAN, after : Nat]
  /\ MaxFails \in Nat \ {0}
  /\ MaxRequests \in Nat

VARIABLES
  monitor,   \* the monitors table
  channel,   \* the notifications table
  attached,  \* the monitor_notifications join table: monitor -> channels
  requests   \* the handlers that are between two of their statements

storeVars == <<monitor, channel, attached, requests>>
-----------------------------------------------------------------------------
Verdicts == {"UP", "DOWN"}

Statuses == Verdicts \cup {"PENDING", "MAINTENANCE"}

Lives == {"absent", "live", "deleted"}

MonitorRows ==
  [life : Lives, active : BOOLEAN, status : Statuses, fails : 0 .. MaxFails,
   interval : Nat, message : Verdicts \cup {"none"}]

ChannelRows ==
  [life : Lives, active : BOOLEAN, onDown : BOOLEAN, onUp : BOOLEAN, after : Nat]

RequestSet ==
  [kind : {"create", "prune"}, mon : Monitors, keep : SUBSET Channels]

(* gorm leaves a zero field out of an INSERT when its column has a default: *)
(* false becomes true for the flags, 0 becomes the column's number.         *)
NonZero(value, default) == IF value = 0 THEN default ELSE value

NewMonitor(body) ==
  [life |-> "live", active |-> TRUE, status |-> "PENDING", fails |-> 0,
   interval |-> NonZero(body.interval, 60), message |-> "none"]

NewChannel(body) ==
  [life |-> "live", active |-> TRUE, onDown |-> TRUE, onUp |-> TRUE,
   after |-> NonZero(body.after, 1)]

LiveMonitor(m) == monitor[m].life = "live"

LiveChannels == {c \in Channels : channel[c].life = "live"}

(* What Association("Notifications").Find returns: the join rows whose      *)
(* channel is not soft-deleted.                                             *)
Linked(m) == attached[m] \cap LiveChannels

Bump(n) == IF n < MaxFails THEN n + 1 ELSE n
-----------------------------------------------------------------------------
StoreInit ==
  /\ monitor = [m \in Monitors |->
       [life |-> "absent", active |-> FALSE, status |-> "PENDING", fails |-> 0,
        interval |-> 0, message |-> "none"]]
  /\ channel = [c \in Channels |->
       [life |-> "absent", active |-> FALSE, onDown |-> FALSE, onUp |-> FALSE,
        after |-> 0]]
  /\ attached = [m \in Monitors |-> {}]
  /\ requests = {}

Room == Cardinality(requests) < MaxRequests

(* POST /api/monitors: the row is inserted; the response and the automatic  *)
(* attachment of the channels come after it.                                *)
CreateMonitor(m, body) ==
  /\ "create" \in Operations
  /\ monitor[m].life = "absent"
  /\ Room
  /\ monitor' = [monitor EXCEPT ![m] = NewMonitor(body)]
  /\ requests' = requests \cup {[kind |-> "create", mon |-> m, keep |-> {}]}
  /\ UNCHANGED <<channel, attached>>

(* The second half of POST /api/monitors: all existing channels are read    *)
(* and attached.  With no channel Replace is not called.                    *)
AttachAll(r) ==
  /\ r \in requests
  /\ r.kind = "create"
  /\ attached' = [attached EXCEPT ![r.mon] = @ \cup LiveChannels]
  /\ requests' = (requests \ {r}) \cup
       {[kind |-> "prune", mon |-> r.mon, keep |-> cs] :
          cs \in {LiveChannels} \ {{}}}
  /\ UNCHANGED <<monitor, channel>>

(* PUT /api/monitors/{id}/notifications: gorm's Replace first inserts the   *)
(* join rows of the new list ...                                            *)
SetMonitorNotifications(m, ids) ==
  /\ "set_notifications" \in Operations
  /\ LiveMonitor(m)
  /\ Room
  /\ LET notifs == ids \cap LiveChannels IN
       /\ attached' = [attached EXCEPT ![m] = @ \cup notifs]
       /\ requests' = requests \cup
            {[kind |-> "prune", mon |-> m, keep |-> notifs]}
  /\ UNCHANGED <<monitor, channel>>

(* ... and then deletes the monitor's join rows that are not in that list.  *)
Prune(r) ==
  /\ r \in requests
  /\ r.kind = "prune"
  /\ attached' = [attached EXCEPT ![r.mon] = @ \cap r.keep]
  /\ requests' = requests \ {r}
  /\ UNCHANGED <<monitor, channel>>

(* The next statement of a handler fails: Create goes on without channels,  *)
(* SetMonitorNotifications answers 500; neither undoes the first statement. *)
RequestFails(r) ==
  /\ "db" \in Faults
  /\ r \in requests
  /\ requests' = requests \ {r}
  /\ UNCHANGED <<monitor, channel, attached>>

(* PUT /api/monitors/{id}: gorm's Updates with a struct skips its zero       *)
(* fields, so that active = false changes nothing.                           *)
UpdateMonitor(m, body) ==
  /\ "update" \in Operations
  /\ LiveMonitor(m)
  /\ monitor' = [monitor EXCEPT ![m].interval = NonZero(body.interval, @),
                                ![m].active = @ \/ body.active]
  /\ UNCHANGED <<channel, attached, requests>>

DeleteMonitor(m) ==
  /\ "delete" \in Operations
  /\ LiveMonitor(m)
  /\ monitor' = [monitor EXCEPT ![m].life = "deleted"]
  /\ UNCHANGED <<channel, attached, requests>>

(* Mutant: a status that the rest of the program does not know. *)
PauseUnknown(m) ==
  /\ "pause" \in Operations
  /\ LiveMonitor(m)
  /\ monitor' = [monitor EXCEPT ![m].active = FALSE, ![m].status = "PAUSED"]
  /\ UNCHANGED <<channel, attached, requests>>

PauseMonitor(m) ==
  /\ "pause" \in Operations
  /\ LiveMonitor(m)
  /\ monitor' = [monitor EXCEPT ![m].active = FALSE, ![m].status = "MAINTENANCE"]
  /\ UNCHANGED <<channel, attached, requests>>

ResumeMonitor(m) ==
  /\ "resume" \in Operations
  /\ LiveMonitor(m)
  /\ monitor' = [monitor EXCEPT ![m].active = TRUE, ![m].status = "PENDING"]
  /\ UNCHANGED <<channel, attached, requests>>

CreateNotification(c, body) ==
  /\ "create_notification" \in Operations
  /\ channel[c].life = "absent"
  /\ channel' = [channel EXCEPT ![c] = NewChannel(body)]
  /\ UNCHANGED <<monitor, attached, requests>>

(* PUT /api/notifications/{id}: zero fields are skipped here too. *)
UpdateNotification(c, body) ==
  /\ "update_notification" \in Operations
  /\ channel[c].life = "live"
  /\ channel' = [channel EXCEPT ![c].active = @ \/ body.active,
                                ![c].onDown = @ \/ body.onDown,
                                ![c].onUp   = @ \/ body.onUp,
                                ![c].after  = NonZero(body.after, @)]
  /\ UNCHANGED <<monitor, attached, requests>>

DeleteNotification(c) ==
  /\ "delete_notification" \in Operations
  /\ channel[c].life = "live"
  /\ channel' = [channel EXCEPT ![c].life = "deleted"]
  /\ UNCHANGED <<monitor, attached, requests>>

Handlers ==
  \/ \E m \in Monitors :
       \/ \E body \in MonitorBodies : CreateMonitor(m, body) \/ UpdateMonitor(m, body)
       \/ \E ids \in SUBSET Channels : SetMonitorNotifications(m, ids)
       \/ DeleteMonitor(m)
       \/ PauseMonitor(m)
       \/ ResumeMonitor(m)
  \/ \E c \in Channels :
       \/ \E body \in ChannelBodies : CreateNotification(c, body) \/ UpdateNotification(c, body)
       \/ DeleteNotification(c)
  \/ \E r \in requests : AttachAll(r) \/ Prune(r) \/ RequestFails(r)

StoreTypeOK ==
  /\ monitor \in [Monitors -> MonitorRows]
  /\ channel \in [Channels -> ChannelRows]
  /\ attached \in [Monitors -> SUBSET Channels]
  /\ requests \subseteq RequestSet
=============================================================================
