------------------------------- MODULE Outbox -------------------------------
(***************************************************************************)
(* What the callers of Dispatcher.Send may count on.  Alerts are numbered  *)
(* in the order of the calls.  An alert is taken into the line or refused  *)
(* at once; the line is served from its head, one alert at a time, and the *)
(* attempt for an alert is made once and ends well or badly.  Nothing is   *)
(* repeated, reordered, or refused while there is room.                    *)
(***************************************************************************)
EXTENDS Naturals, Sequences

CONSTANT Capacity  \* how many alerts can wait

VARIABLES
  line,    \* the numbers of the alerts taken in and not finished, oldest first
  outcome  \* what became of every alert, by number

outboxVars == <<line, outcome>>

Outcomes == {"pending", "dropped", "delivered", "failed"}

Init == line = <<>> /\ outcome = <<>>

Take ==
  /\ Len(line) <= Capacity
  /\ line' = Append(line, Len(outcome) + 1)
  /\ outcome' = Append(outcome, "pending")

Refuse ==
  /\ Len(line) >= Capacity
  /\ outcome' = Append(outcome, "dropped")
  /\ UNCHANGED line

Serve ==
  /\ line # <<>>
  /\ line' = Tail(line)
  /\ \E end \in {"delivered", "failed"} : outcome' = [outcome EXCEPT ![Head(line)] = end]

Next == Take \/ Refuse \/ Serve

Spec == Init /\ [][Next]_outboxVars
=============================================================================
