----------------------------- MODULE Dispatcher -----------------------------
(***************************************************************************)
(* internal/notifications/dispatcher.go: a bounded channel of alerts, any  *)
(* number of goroutines and handlers that call Send, and one goroutine,    *)
(* Run, that serves the channel until Stop and then drains it.             *)
(*                                                                         *)
(* An alert is its number in the order of the calls of Send.  Its payload  *)
(* does not steer the dispatcher: whatever the channel's type and config,  *)
(* dispatch makes one attempt and swallows the error.                      *)
(***************************************************************************)
EXTENDS Naturals, Sequences

CONSTANTS
  QueueCap,  \* the buffer of the channel: 256 in the code
  MaxSends   \* bound: how many alerts are sent (Nat in the proofs)

ASSUME DispatcherAssumption ==
  /\ QueueCap \in Nat \ {0}
  /\ MaxSends \in Nat

VARIABLES
  queue,    \* d.queue
  stopped,  \* d.stopCh is closed
  run,      \* where Run is
  current,  \* the alert in dispatch, 0 for none
  outcome,  \* ghost: what became of every alert, by number
  stopAt    \* ghost: how many alerts had been sent when Stop was called

vars == <<queue, stopped, run, current, outcome, stopAt>>
-----------------------------------------------------------------------------
Init ==
  /\ queue = <<>>
  /\ stopped = FALSE
  /\ run = "select"
  /\ current = 0
  /\ outcome = <<>>
  /\ stopAt = 0

(* Mutants: one alert too many is taken; the last place is never used. *)
SendOver ==
  /\ Len(outcome) < MaxSends
  /\ IF Len(queue) <= QueueCap
       THEN /\ queue' = Append(queue, Len(outcome) + 1)
            /\ outcome' = Append(outcome, "pending")
       ELSE /\ outcome' = Append(outcome, "dropped")
            /\ UNCHANGED queue
  /\ UNCHANGED <<stopped, run, current, stopAt>>

SendShort ==
  /\ Len(outcome) < MaxSends
  /\ IF Len(queue) + 1 < QueueCap
       THEN /\ queue' = Append(queue, Len(outcome) + 1)
            /\ outcome' = Append(outcome, "pending")
       ELSE /\ outcome' = Append(outcome, "dropped")
            /\ UNCHANGED queue
  /\ UNCHANGED <<stopped, run, current, stopAt>>

(* Send never blocks: with the buffer full its select takes the default.    *)
Send ==
  /\ Len(outcome) < MaxSends
  /\ IF Len(queue) < QueueCap
       THEN /\ queue' = Append(queue, Len(outcome) + 1)
            /\ outcome' = Append(outcome, "pending")
       ELSE /\ outcome' = Append(outcome, "dropped")
            /\ UNCHANGED queue
  /\ UNCHANGED <<stopped, run, current, stopAt>>

(* close(d.stopCh); main calls it once. *)
Stop ==
  /\ ~stopped
  /\ stopped' = TRUE
  /\ stopAt' = Len(outcome)
  /\ UNCHANGED <<queue, run, current, outcome>>

(* Mutant: the newest alert first. *)
ReceiveLast ==
  /\ run \in {"select", "drain"}
  /\ queue # <<>>
  /\ current' = queue[Len(queue)]
  /\ queue' = SubSeq(queue, 1, Len(queue) - 1)
  /\ run' = IF run = "select" THEN "dispatch" ELSE "drain dispatch"
  /\ UNCHANGED <<stopped, outcome, stopAt>>

(* Either select of Run takes an alert; the outer one may do so after Stop. *)
Receive ==
  /\ run \in {"select", "drain"}
  /\ queue # <<>>
  /\ current' = Head(queue)
  /\ queue' = Tail(queue)
  /\ run' = IF run = "select" THEN "dispatch" ELSE "drain dispatch"
  /\ UNCHANGED <<stopped, outcome, stopAt>>

(* Mutant: after Stop one alert is served, not all. *)
DispatchedOnce ==
  /\ run \in {"dispatch", "drain dispatch"}
  /\ \E end \in {"delivered", "failed"} : outcome' = [outcome EXCEPT ![current] = end]
  /\ current' = 0
  /\ run' = IF run = "dispatch" THEN "select" ELSE "returned"
  /\ UNCHANGED <<queue, stopped, stopAt>>

(* dispatch comes back: the attempt went through, or an error was logged.   *)
Dispatched ==
  /\ run \in {"dispatch", "drain dispatch"}
  /\ \E end \in {"delivered", "failed"} : outcome' = [outcome EXCEPT ![current] = end]
  /\ current' = 0
  /\ run' = IF run = "dispatch" THEN "select" ELSE "drain"
  /\ UNCHANGED <<queue, stopped, stopAt>>

(* Mutant: Run returns at once. *)
TakeStopReturn ==
  /\ run = "select"
  /\ stopped
  /\ run' = "returned"
  /\ UNCHANGED <<queue, stopped, current, outcome, stopAt>>

(* The outer select takes stopCh. *)
TakeStop ==
  /\ run = "select"
  /\ stopped
  /\ run' = "drain"
  /\ UNCHANGED <<queue, stopped, current, outcome, stopAt>>

(* Mutant: `break' leaves the select and not the loop. *)
ReturnBreaks ==
  /\ run = "drain"
  /\ queue = <<>>
  /\ UNCHANGED vars

(* The inner select finds nothing to drain. *)
Return ==
  /\ run = "drain"
  /\ queue = <<>>
  /\ run' = "returned"
  /\ UNCHANGED <<queue, stopped, current, outcome, stopAt>>

Next == Send \/ Stop \/ Receive \/ Dispatched \/ TakeStop \/ Return

Spec == Init /\ [][Next]_vars

(* Run keeps running, and dispatch comes back: the latter is an assumption  *)
(* on the senders' network calls, which set no deadline of their own.       *)
FairSpec == Spec /\ WF_vars(Receive \/ TakeStop \/ Return) /\ WF_vars(Dispatched)
-----------------------------------------------------------------------------
(* Properties *)

Runs == {"select", "dispatch", "drain", "drain dispatch", "returned"}

Outcomes == {"pending", "dropped", "delivered", "failed"}

(* Every variable keeps its type; the buffer is never over its capacity.    *)
TypeOK ==
  /\ queue \in Seq(Nat)
  /\ Len(queue) <= QueueCap
  /\ stopped \in BOOLEAN
  /\ run \in Runs
  /\ current \in Nat
  /\ outcome \in Seq(Outcomes)
  /\ stopAt \in Nat

Pending(n) == n \in 1 .. Len(outcome) /\ outcome[n] = "pending"

(* The alerts taken in and not finished, oldest first.                      *)
Line == IF current = 0 THEN queue ELSE <<current>> \o queue

(* No alert is lost inside the dispatcher, repeated or overtaken: the       *)
(* pending ones are exactly those in the line, each once, in the order in   *)
(* which they were sent (dispatcher.go:39-65).                              *)
Accounted ==
  /\ \A i, j \in 1 .. Len(Line) : i < j => Line[i] < Line[j]
  /\ \A n \in 1 .. Len(outcome) :
       Pending(n) <=> \E i \in 1 .. Len(Line) : Line[i] = n

(* "Stop signals the dispatcher to shut down after draining the queue"      *)
(* (dispatcher.go:67): when Run has returned, every alert that was sent     *)
(* before Stop has been attempted or was refused.                           *)
DrainedOnReturn ==
  run = "returned" => \A n \in 1 .. stopAt : ~Pending(n)

(* The callers' view: queue and current together are one line of alerts.    *)
Out == INSTANCE Outbox WITH line <- Line, outcome <- outcome, Capacity <- QueueCap

(* The dispatcher is an Outbox. *)
ImplementsOutbox == Out!Spec

(* An alert that is taken in is attempted, unless it was sent after Stop    *)
(* and Run has returned (dispatcher.go:48-65).                              *)
TakenIsServed ==
  \A n \in 1 .. MaxSends :
    Pending(n) ~> (~Pending(n) \/ (run = "returned" /\ n > stopAt))

(* After Stop, Run returns, once callers leave it a moment with an empty    *)
(* queue (here they do: MaxSends bounds their calls; dispatcher.go:52-62).  *)
StopReturns == stopped ~> run = "returned"
=============================================================================
