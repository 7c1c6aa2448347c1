------------------------------ MODULE MCEngine ------------------------------
(* Values for the constants of Engine that a cfg cannot write. *)
EXTENDS Engine, TLC

(* The slots of a monitor are names without meaning. *)
SlotSymmetry == Permutations(Slots)

(* What the workers of monitors without channels depend on.  What only     *)
(* leaves the engine (messages, history, the gauge), the failure counters  *)
(* that only alerts read, and the requests, which only attach channels,    *)
(* take no part in any guard, and no property of these runs reads them; nor *)
(* does anything depend on the rest of a deleted row.                      *)
WorkerView ==
  <<[m \in Monitors |-> IF monitor[m].life = "deleted" THEN "deleted"
                        ELSE [monitor[m] EXCEPT !.fails = 0, !.message = "none"]],
    engine, stopping, [m \in DOMAIN loaded |-> loaded[m].status], workers,
    [m \in Monitors |-> [s \in Slots |-> [go[m][s] EXCEPT !.fails = 0]]]>>

(* The same for their reminders. *)
ReminderView == <<WorkerView, certNotifiedOn, day, reminders>>

(* Bodies of POST and PUT on a monitor and on a channel. *)
PlainMonitor == {[interval |-> 60, active |-> FALSE]}
AnyMonitor == [interval : {60}, active : BOOLEAN]
PlainChannel(n) == {[active |-> TRUE, onDown |-> TRUE, onUp |-> TRUE, after |-> n]}
AlertAtOnce == PlainChannel(1)
AlertAfterTwo == PlainChannel(2)

MonitorOperations == {"create", "update", "delete", "pause", "resume"}
ChannelOperations ==
  {"create_notification", "update_notification", "delete_notification", "set_notifications"}
AllOperations == MonitorOperations \cup ChannelOperations
CreateOnly == {"create"}
AlertOperations == {"create", "create_notification"}
LiveOperations == {"create", "delete", "pause", "resume", "stop"}
StopOperations == MonitorOperations \cup {"stop"}

NoFaults == {}
FailingStatements == {"db"}
AllFaults == {"db", "crash"}
=============================================================================
