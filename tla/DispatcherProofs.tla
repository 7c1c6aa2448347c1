-------------------------- MODULE DispatcherProofs --------------------------
(***************************************************************************)
(* The dispatcher loses, repeats and reorders nothing, and implements the  *)
(* one-line Outbox, for any buffer size and any number of calls of Send.   *)
(***************************************************************************)
EXTENDS Dispatcher, SequenceTheorems, TLAPS

Handling == {"dispatch", "drain dispatch"}

(* Where the alerts are. *)
QueueInv ==
  /\ current # 0 <=> run \in Handling
  /\ current <= Len(outcome)
  /\ \A i \in 1 .. Len(queue) : current < queue[i] /\ queue[i] <= Len(outcome)
  /\ \A i, j \in 1 .. Len(queue) : i < j => queue[i] < queue[j]
  /\ \A n \in 1 .. Len(outcome) :
       outcome[n] = "pending" <=> n = current \/ \E i \in 1 .. Len(queue) : queue[i] = n

(* Where the shutdown is. *)
StopInv ==
  /\ run \in {"drain", "drain dispatch", "returned"} => stopped
  /\ stopAt <= Len(outcome)
  /\ DrainedOnReturn

IInv == TypeOK /\ QueueInv /\ StopInv

(* What the types say to the provers. *)
LEMMA Typed ==
  ASSUME TypeOK
  PROVE  /\ queue \in Seq(Nat) /\ Len(queue) \in Nat
         /\ \A i \in 1 .. Len(queue) : queue[i] \in Nat
         /\ outcome \in Seq(Outcomes) /\ Len(outcome) \in Nat
         /\ current \in Nat /\ stopAt \in Nat
<1>1. queue \in Seq(Nat) /\ outcome \in Seq(Outcomes) /\ current \in Nat /\ stopAt \in Nat
  BY DEF TypeOK
<1>2. Len(queue) \in Nat /\ Len(outcome) \in Nat
  BY <1>1, LenProperties
<1>3. \A i \in 1 .. Len(queue) : queue[i] \in Nat
  BY <1>1, ElementOfSeq
<1>4. QED
  BY <1>1, <1>2, <1>3

LEMMA InitIInv == Init => IInv
<1> SUFFICES ASSUME Init PROVE IInv
  OBVIOUS
<1>1. /\ queue \in Seq(Nat) /\ Len(queue) = 0
      /\ outcome \in Seq(Outcomes) /\ Len(outcome) = 0
  BY EmptySeq DEF Init
<1>2. TypeOK
  <2>1. run \in Runs /\ stopped \in BOOLEAN /\ current \in Nat /\ stopAt \in Nat
    BY DEF Init, Runs
  <2>2. Len(queue) <= QueueCap
    BY <1>1, DispatcherAssumption
  <2>3. QED
    BY <1>1, <2>1, <2>2 DEF TypeOK
<1>3. QueueInv /\ StopInv
  BY <1>1 DEF Init, QueueInv, StopInv, DrainedOnReturn, Handling
<1>4. QED
  BY <1>2, <1>3 DEF IInv

-----------------------------------------------------------------------------
(* What Append leaves and adds. *)
LEMMA AppendIs ==
  ASSUME NEW S, NEW q \in Seq(S), NEW e \in S
  PROVE  /\ Append(q, e) \in Seq(S)
         /\ Len(Append(q, e)) = Len(q) + 1
         /\ Len(q) \in Nat
         /\ \A i \in 1 .. Len(q) : Append(q, e)[i] = q[i]
         /\ Append(q, e)[Len(q) + 1] = e
  BY AppendProperties, LenProperties

(* What becomes of the shutdown when an alert is added, whatever its end.   *)
LEMMA StopInvGrows ==
  ASSUME IInv, NEW e \in Outcomes, outcome' = Append(outcome, e),
         UNCHANGED <<stopped, run, stopAt>>
  PROVE  StopInv'
<1>1. /\ Len(outcome') = Len(outcome) + 1 /\ Len(outcome) \in Nat
      /\ \A k \in 1 .. Len(outcome) : outcome'[k] = outcome[k]
      /\ stopAt \in Nat
  BY AppendIs DEF IInv, TypeOK, Outcomes
<1>2. ASSUME run' = "returned", NEW k \in 1 .. stopAt PROVE ~Pending(k)'
  <2>1. k \in 1 .. Len(outcome) /\ ~Pending(k)
    BY <1>1, <1>2 DEF IInv, StopInv, DrainedOnReturn
  <2>2. QED
    BY <1>1, <2>1 DEF Pending
<1>3. DrainedOnReturn'
  BY <1>2 DEF DrainedOnReturn
<1>4. stopAt' <= Len(outcome')
  <2>1. stopAt <= Len(outcome) /\ stopAt' = stopAt
    BY DEF IInv, StopInv
  <2>2. QED
    BY <1>1, <2>1
<1>5. QED
  BY <1>3, <1>4 DEF IInv, StopInv

LEMMA SendKeepsIInv == ASSUME IInv, Send PROVE IInv'
<1> USE DispatcherAssumption
<1> DEFINE n == Len(outcome) + 1
<1>0. /\ queue \in Seq(Nat) /\ current \in Nat /\ stopAt \in Nat
      /\ outcome \in Seq(Outcomes)
      /\ Len(outcome) \in Nat /\ Len(queue) \in Nat
      /\ \A i \in 1 .. Len(queue) : queue[i] \in Nat
  BY LenProperties, ElementOfSeq DEF IInv, TypeOK, Outcomes
<1>1. CASE Len(queue) < QueueCap
  <2>1. /\ queue' = Append(queue, n)
        /\ outcome' = Append(outcome, "pending")
        /\ UNCHANGED <<stopped, run, current, stopAt>>
    BY <1>1 DEF Send
  <2>2. /\ queue' \in Seq(Nat) /\ Len(queue') = Len(queue) + 1
        /\ \A i \in 1 .. Len(queue) : queue'[i] = queue[i]
        /\ queue'[Len(queue) + 1] = n
    BY <1>0, <2>1, AppendIs
  <2>3. /\ outcome' \in Seq(Outcomes) /\ Len(outcome') = n
        /\ \A i \in 1 .. Len(outcome) : outcome'[i] = outcome[i]
        /\ outcome'[n] = "pending"
    BY <1>0, <2>1, AppendIs DEF Outcomes
  <2>4. TypeOK'
    BY <1>1, <1>0, <2>1, <2>2, <2>3 DEF IInv, TypeOK, Outcomes
  <2>5. QueueInv'
    <3>1. \A i \in 1 .. Len(queue') : current' < queue'[i] /\ queue'[i] <= Len(outcome')
      BY <1>0, <2>1, <2>2, <2>3 DEF IInv, QueueInv
    <3>2. \A i, j \in 1 .. Len(queue') : i < j => queue'[i] < queue'[j]
      BY <1>0, <2>1, <2>2, <2>3 DEF IInv, QueueInv
    <3>3. ASSUME NEW k \in 1 .. Len(outcome')
          PROVE  outcome'[k] = "pending" <=>
                   k = current' \/ \E i \in 1 .. Len(queue') : queue'[i] = k
      <4>1. CASE k = n
        BY <1>0, <2>2, <2>3, <4>1
      <4>2. CASE k # n
        <5>1. k \in 1 .. Len(outcome) /\ outcome'[k] = outcome[k]
          BY <1>0, <2>3, <4>2
        <5>2. ASSUME NEW i \in 1 .. Len(queue'), queue'[i] = k
              PROVE  i \in 1 .. Len(queue) /\ queue[i] = k
          BY <1>0, <2>2, <4>2, <5>2
        <5>3. ASSUME NEW i \in 1 .. Len(queue), queue[i] = k
              PROVE  i \in 1 .. Len(queue') /\ queue'[i] = k
          BY <1>0, <2>2, <5>3
        <5>4. outcome[k] = "pending" <=> k = current \/ \E i \in 1 .. Len(queue) : queue[i] = k
          BY <5>1 DEF IInv, QueueInv
        <5>5. QED
          BY <2>1, <5>1, <5>2, <5>3, <5>4
      <4>3. QED
        BY <4>1, <4>2
    <3>4. QED
      BY <1>0, <2>1, <2>3, <3>1, <3>2, <3>3 DEF IInv, QueueInv
  <2>6. StopInv'
    BY <2>1, StopInvGrows DEF Outcomes
  <2>7. QED
    BY <2>4, <2>5, <2>6 DEF IInv
<1>2. CASE ~(Len(queue) < QueueCap)
  <2>1. /\ outcome' = Append(outcome, "dropped")
        /\ UNCHANGED <<queue, stopped, run, current, stopAt>>
    BY <1>2 DEF Send
  <2>2. /\ outcome' \in Seq(Outcomes) /\ Len(outcome') = n
        /\ \A i \in 1 .. Len(outcome) : outcome'[i] = outcome[i]
        /\ outcome'[n] = "dropped"
    BY <1>0, <2>1, AppendIs DEF Outcomes
  <2>3. TypeOK'
    BY <1>0, <2>1, <2>2 DEF IInv, TypeOK, Outcomes
  <2>4. QueueInv'
    BY <1>0, <2>1, <2>2 DEF IInv, QueueInv
  <2>5. StopInv'
    BY <2>1, StopInvGrows DEF Outcomes
  <2>6. QED
    BY <2>3, <2>4, <2>5 DEF IInv
<1>3. QED
  BY <1>1, <1>2

LEMMA ReceiveKeepsIInv == ASSUME IInv, Receive PROVE IInv'
<1>0. /\ queue \in Seq(Nat) /\ queue # <<>>
      /\ outcome \in Seq(Outcomes) /\ Len(outcome) \in Nat
      /\ current = 0
      /\ run \in {"select", "drain"}
  BY LenProperties DEF IInv, TypeOK, QueueInv, Receive, Handling, Outcomes
<1>1. /\ current' = queue[1] /\ queue' = Tail(queue)
      /\ run' = IF run = "select" THEN "dispatch" ELSE "drain dispatch"
      /\ UNCHANGED <<stopped, outcome, stopAt>>
  <2>1. Head(queue) = queue[1]
    BY <1>0, HeadTailProperties
  <2>2. QED
    BY <1>0, <2>1 DEF Receive
<1>2. /\ Len(queue') = Len(queue) - 1
      /\ queue' \in Seq(Nat)
      /\ \A i \in 1 .. Len(queue') : queue'[i] = queue[i + 1]
      /\ 1 \in 1 .. Len(queue)
      /\ Len(queue) \in Nat
      /\ \A i \in 1 .. Len(queue) : queue[i] \in Nat
  <2>1. Len(queue) \in Nat /\ \A i \in 1 .. Len(queue) : queue[i] \in Nat
    BY Typed DEF IInv
  <2>2. Len(queue) # 0
    BY <1>0, EmptySeq, Zenon
  <2>3. /\ Tail(queue) \in Seq(Nat)
        /\ Len(Tail(queue)) = Len(queue) - 1
        /\ \A i \in 1 .. Len(Tail(queue)) : Tail(queue)[i] = queue[i + 1]
    BY <1>0, HeadTailProperties, Zenon
  <2>4. 1 \in 1 .. Len(queue)
    BY <2>1, <2>2
  <2>5. QED
    BY <1>1, <2>1, <2>3, <2>4
<1>3. TypeOK'
  <2>1. current' \in Nat /\ Len(queue') <= QueueCap
    <3>1. Len(queue) <= QueueCap
      BY DEF IInv, TypeOK
    <3>2. QED
      <4>1. Len(queue) - 1 <= QueueCap
        BY <1>2, <3>1, DispatcherAssumption
      <4>2. queue[1] \in Nat
        BY <1>2
      <4>3. QED
        BY <1>1, <1>2, <4>1, <4>2
  <2>2. QED
    BY <1>0, <1>1, <1>2, <2>1 DEF IInv, TypeOK, Runs
<1>4. QueueInv'
  <2>1. \A i \in 1 .. Len(queue') : current' < queue'[i] /\ queue'[i] <= Len(outcome')
    <3> SUFFICES ASSUME NEW i \in 1 .. Len(queue')
                 PROVE  queue[1] < queue[i + 1] /\ queue[i + 1] <= Len(outcome)
      BY <1>1, <1>2
    <3>1. i + 1 \in 1 .. Len(queue) /\ 1 < i + 1
      BY <1>2
    <3>2. QED
      BY <1>2, <3>1 DEF IInv, QueueInv
  <2>2. \A i, j \in 1 .. Len(queue') : i < j => queue'[i] < queue'[j]
    <3> SUFFICES ASSUME NEW i \in 1 .. Len(queue'), NEW j \in 1 .. Len(queue'), i < j
                 PROVE  queue[i + 1] < queue[j + 1]
      BY <1>2
    <3>1. i + 1 \in 1 .. Len(queue) /\ j + 1 \in 1 .. Len(queue) /\ i + 1 < j + 1
      BY <1>2
    <3>2. QED
      BY <3>1 DEF IInv, QueueInv
  <2>3. \A n \in 1 .. Len(outcome') :
          outcome'[n] = "pending" <=>
            n = current' \/ \E i \in 1 .. Len(queue') : queue'[i] = n
    <3> SUFFICES ASSUME NEW n \in 1 .. Len(outcome)
                 PROVE  outcome[n] = "pending" <=>
                          n = queue[1] \/ \E i \in 1 .. Len(queue') : queue'[i] = n
      BY <1>1
    <3>1. outcome[n] = "pending" <=> \E i \in 1 .. Len(queue) : queue[i] = n
      BY <1>0 DEF IInv, QueueInv
    <3>2. ASSUME NEW i \in 1 .. Len(queue), queue[i] = n, i # 1
          PROVE  i - 1 \in 1 .. Len(queue') /\ queue'[i - 1] = n
      BY <3>2, <1>0, <1>2
    <3>3. ASSUME NEW i \in 1 .. Len(queue'), queue'[i] = n
          PROVE  i + 1 \in 1 .. Len(queue) /\ queue[i + 1] = n
      BY <3>3, <1>0, <1>2
    <3>4. QED
      BY <3>1, <3>2, <3>3, <1>2
  <2>4. current' # 0 /\ current' <= Len(outcome') /\ run' \in Handling
    <3>1. queue[1] \in Nat /\ 0 < queue[1] /\ queue[1] <= Len(outcome)
      BY <1>0, <1>2 DEF IInv, QueueInv
    <3>2. run' \in Handling
      BY <1>0, <1>1 DEF Handling
    <3>3. QED
      <4>1. queue[1] # 0
        BY <3>1
      <4>2. QED
        BY <1>1, <3>1, <3>2, <4>1
  <2>5. QED
    BY <2>1, <2>2, <2>3, <2>4 DEF QueueInv
<1>5. StopInv'
  BY <1>0, <1>1 DEF IInv, StopInv, DrainedOnReturn
<1>6. QED
  BY <1>3, <1>4, <1>5 DEF IInv

LEMMA DispatchedKeepsIInv == ASSUME IInv, Dispatched PROVE IInv'
<1>0. /\ queue \in Seq(Nat)
      /\ outcome \in Seq(Outcomes)
      /\ current \in 1 .. Len(outcome)
      /\ run \in Handling
  <2>1. run \in Handling /\ current # 0 /\ current <= Len(outcome)
    BY DEF IInv, QueueInv, Dispatched, Handling
  <2>2. QED
    BY <2>1, Typed DEF IInv
<1>1. PICK end \in {"delivered", "failed"} : outcome' = [outcome EXCEPT ![current] = end]
  BY DEF Dispatched
<1>2. /\ current' = 0
      /\ run' = IF run = "dispatch" THEN "select" ELSE "drain"
      /\ UNCHANGED <<queue, stopped, stopAt>>
  BY DEF Dispatched
<1>3. /\ outcome' \in Seq(Outcomes)
      /\ Len(outcome') = Len(outcome)
      /\ \A n \in 1 .. Len(outcome) : outcome'[n] = IF n = current THEN end ELSE outcome[n]
  BY <1>0, <1>1, ExceptSeq DEF Outcomes
<1>4. TypeOK'
  BY <1>0, <1>2, <1>3 DEF IInv, TypeOK, Runs
<1>5. QueueInv'
  <2>1. \A i \in 1 .. Len(queue) : 0 < queue[i] /\ queue[i] # current
    BY <1>0, Typed DEF IInv, QueueInv
  <2>2. \A i \in 1 .. Len(queue') : current' < queue'[i] /\ queue'[i] <= Len(outcome')
    BY <1>2, <1>3, <2>1 DEF IInv, QueueInv
  <2>3. ASSUME NEW n \in 1 .. Len(outcome')
        PROVE  outcome'[n] = "pending" <=>
                 n = current' \/ \E i \in 1 .. Len(queue') : queue'[i] = n
    BY <1>0, <1>2, <1>3, <2>1 DEF IInv, QueueInv
  <2>4. current' <= Len(outcome') /\ (current' # 0 <=> run' \in Handling)
    <3>1. run' \notin Handling
      BY <1>0, <1>2 DEF Handling
    <3>2. 0 <= Len(outcome)
      BY <1>0
    <3>3. QED
      BY <1>2, <1>3, <3>1, <3>2
  <2>5. QED
    BY <1>2, <1>3, <2>2, <2>3, <2>4 DEF IInv, QueueInv
<1>6. StopInv'
  BY <1>0, <1>2, <1>3 DEF IInv, StopInv, DrainedOnReturn, Handling
<1>7. QED
  BY <1>4, <1>5, <1>6 DEF IInv

LEMMA ReturnKeepsIInv == ASSUME IInv, Return PROVE IInv'
<1>1. \A n \in 1 .. Len(outcome) : outcome[n] # "pending"
  BY DEF IInv, TypeOK, QueueInv, Return, Handling
<1>2. QED
  BY <1>1 DEF IInv, TypeOK, QueueInv, StopInv, DrainedOnReturn, Pending, Return, Handling, Runs

LEMMA NextKeepsIInv == IInv /\ [Next]_vars => IInv'
<1> SUFFICES ASSUME IInv, [Next]_vars PROVE IInv'
  OBVIOUS
<1>1. CASE Stop
  <2>1. TypeOK' /\ QueueInv'
    BY <1>1, Typed DEF Stop, IInv, TypeOK, QueueInv
  <2>2. run # "returned"
    BY <1>1 DEF Stop, IInv, StopInv
  <2>3. StopInv'
    <3>1. stopAt' <= Len(outcome') /\ DrainedOnReturn'
      BY <1>1, <2>2, Typed DEF Stop, IInv, DrainedOnReturn
    <3>2. QED
      BY <1>1, <3>1 DEF Stop, StopInv
  <2>4. QED
    BY <2>1, <2>3 DEF IInv
<1>2. CASE TakeStop
  BY <1>2 DEF TakeStop, IInv, TypeOK, QueueInv, StopInv, DrainedOnReturn, Runs, Handling
<1>3. CASE UNCHANGED vars
  BY <1>3 DEF vars, IInv, TypeOK, QueueInv, StopInv, DrainedOnReturn, Pending
<1>4. QED
  BY <1>1, <1>2, <1>3, SendKeepsIInv, ReceiveKeepsIInv, DispatchedKeepsIInv,
     ReturnKeepsIInv DEF Next

-----------------------------------------------------------------------------
(* Every variable keeps its type, and the buffer never exceeds its capacity *)
(* (dispatcher.go:33, 40-44).                                               *)
THEOREM TypeCorrect == Spec => []TypeOK
<1>1. IInv => TypeOK
  BY DEF IInv
<1>2. QED
  BY InitIInv, NextKeepsIInv, <1>1, PTL DEF Spec

(* Line, written out. *)
LEMMA LineIs ==
  ASSUME TypeOK
  PROVE  /\ Line \in Seq(Nat)
         /\ current = 0 => Line = queue
         /\ current # 0 =>
              /\ Len(Line) = Len(queue) + 1
              /\ Line[1] = current
              /\ \A i \in 1 .. Len(queue) : Line[i + 1] = queue[i]
              /\ Head(Line) = current
              /\ Tail(Line) = queue
  BY DEF TypeOK, Line

LEMMA IInvAccounted == IInv => Accounted
<1> SUFFICES ASSUME IInv PROVE Accounted
  OBVIOUS
<1>0. /\ TypeOK /\ queue \in Seq(Nat) /\ current \in Nat
      /\ outcome \in Seq(Outcomes)
  BY DEF IInv, TypeOK
<1>1. CASE current = 0
  BY <1>0, <1>1, LineIs DEF IInv, QueueInv, Accounted, Pending
<1>2. CASE current # 0
  <2>1. /\ Len(Line) = Len(queue) + 1
        /\ Line[1] = current
        /\ \A i \in 1 .. Len(queue) : Line[i + 1] = queue[i]
    BY <1>0, <1>2, LineIs
  <2>2. \A i \in 2 .. Len(Line) : i - 1 \in 1 .. Len(queue) /\ Line[i] = queue[i - 1]
    BY <1>0, <2>1
  <2>3. \A i, j \in 1 .. Len(Line) : i < j => Line[i] < Line[j]
    <3> SUFFICES ASSUME NEW i \in 1 .. Len(Line), NEW j \in 1 .. Len(Line), i < j
                 PROVE  Line[i] < Line[j]
      OBVIOUS
    <3>1. j - 1 \in 1 .. Len(queue) /\ Line[j] = queue[j - 1]
      BY <2>2, <2>1, Typed DEF IInv
    <3>2. CASE i = 1
      BY <2>1, <3>1, <3>2 DEF IInv, QueueInv
    <3>3. CASE i # 1
      <4>1. i - 1 \in 1 .. Len(queue) /\ Line[i] = queue[i - 1] /\ i - 1 < j - 1
        BY <2>2, <2>1, <3>3, Typed DEF IInv
      <4>2. QED
        BY <3>1, <4>1 DEF IInv, QueueInv
    <3>4. QED
      BY <3>2, <3>3
  <2>4. \A n \in 1 .. Len(outcome) : Pending(n) <=> \E i \in 1 .. Len(Line) : Line[i] = n
    <3> SUFFICES ASSUME NEW n \in 1 .. Len(outcome)
                 PROVE  Pending(n) <=> \E i \in 1 .. Len(Line) : Line[i] = n
      OBVIOUS
    <3>1. Pending(n) <=> n = current \/ \E i \in 1 .. Len(queue) : queue[i] = n
      BY DEF IInv, QueueInv, Pending
    <3>2. ASSUME NEW i \in 1 .. Len(queue), queue[i] = n
          PROVE  i + 1 \in 1 .. Len(Line) /\ Line[i + 1] = n
      BY <1>0, <2>1, <3>2
    <3>3. 1 \in 1 .. Len(Line)
      BY <1>0, <2>1
    <3>4. ASSUME NEW i \in 1 .. Len(Line), Line[i] = n
          PROVE  n = current \/ \E k \in 1 .. Len(queue) : queue[k] = n
      <4>1. CASE i = 1
        BY <2>1, <3>4, <4>1
      <4>2. CASE i # 1
        <5>1. i - 1 \in 1 .. Len(queue) /\ Line[i] = queue[i - 1]
          BY <2>1, <2>2, <4>2, Typed DEF IInv
        <5>2. QED
          BY <3>4, <5>1
      <4>3. QED
        BY <4>1, <4>2
    <3>5. QED
      BY <2>1, <3>1, <3>2, <3>3, <3>4
  <2>5. QED
    BY <2>3, <2>4 DEF Accounted
<1>3. QED
  BY <1>1, <1>2

(* The pending alerts are those in the line, each once and in the order of  *)
(* the calls of Send: nothing is lost inside, repeated or overtaken         *)
(* (dispatcher.go:39-65).                                                   *)
THEOREM NothingLostInside == Spec => []Accounted
  BY InitIInv, NextKeepsIInv, IInvAccounted, PTL DEF Spec

(* When Run returns, every alert sent before Stop has been attempted or     *)
(* refused (dispatcher.go:53-62, 67).                                       *)
THEOREM DrainsBeforeReturn == Spec => []DrainedOnReturn
<1>1. IInv => DrainedOnReturn
  BY DEF IInv, StopInv
<1>2. QED
  BY InitIInv, NextKeepsIInv, <1>1, PTL DEF Spec

-----------------------------------------------------------------------------
(* Refinement *)

LEMMA InitRefines == Init => Out!Init
  BY DEF Init, Out!Init, Line

LEMMA NextRefines == IInv /\ [Next]_vars => [Out!Next]_Out!outboxVars
<1> SUFFICES ASSUME IInv, [Next]_vars PROVE [Out!Next]_Out!outboxVars
  OBVIOUS
<1> USE DispatcherAssumption
<1>0. /\ TypeOK /\ queue \in Seq(Nat) /\ current \in Nat /\ Len(queue) <= QueueCap
      /\ outcome \in Seq(Outcomes)
  BY DEF IInv, TypeOK
<1>1. Len(Line) \in {Len(queue), Len(queue) + 1}
  BY <1>0, LineIs
<1>2. CASE Send
  <2>1. CASE Len(queue) < QueueCap
    <3>1. Line' = Append(Line, Len(outcome) + 1)
      <4>1. queue' = Append(queue, Len(outcome) + 1) /\ current' = current
        BY <1>2, <2>1 DEF Send
      <4>2. CASE current = 0
        BY <4>1, <4>2 DEF Line
      <4>3. CASE current # 0
        <5> DEFINE n == Len(outcome) + 1
        <5>1. n \in Nat /\ <<current>> \in Seq(Nat) /\ <<n>> \in Seq(Nat)
          BY <1>0, Typed
        <5>2. Append(queue, n) = queue \o <<n>>
          BY <1>0, <5>1, AppendIsConcat
        <5>3. Line \in Seq(Nat) /\ Append(Line, n) = Line \o <<n>>
          BY <1>0, <5>1, LineIs, AppendIsConcat
        <5>4. (<<current>> \o queue) \o <<n>> = <<current>> \o (queue \o <<n>>)
          BY <1>0, <5>1, ConcatAssociative
        <5>5. QED
          BY <4>1, <4>3, <5>2, <5>3, <5>4 DEF Line
      <4>4. QED
        BY <4>2, <4>3
    <3>2. Out!Take
      BY <1>0, <1>1, <1>2, <2>1, <3>1 DEF Send, Out!Take
    <3>3. QED
      BY <3>2 DEF Out!Next
  <2>2. CASE ~(Len(queue) < QueueCap)
    <3>1. Out!Refuse
      BY <1>0, <1>1, <1>2, <2>2 DEF Send, Line, Out!Refuse
    <3>2. QED
      BY <3>1 DEF Out!Next
  <2>3. QED
    BY <2>1, <2>2
<1>3. CASE Receive
  <2>1. current = 0 /\ queue # <<>>
    BY <1>3 DEF IInv, QueueInv, Handling, Receive
  <2>2. current' # 0
    <3>1. Len(queue) # 0
      BY <1>0, <2>1, EmptySeq, Zenon
    <3>2. 1 \in 1 .. Len(queue) /\ Head(queue) = queue[1]
      BY <1>0, <3>1, Typed
    <3>3. 0 < queue[1]
      BY <2>1, <3>2 DEF IInv, QueueInv
    <3>4. current' = queue[1]
      BY <1>3, <3>2 DEF Receive
    <3>5. QED
      BY <3>2, <3>3, <3>4, Typed DEF IInv
  <2>3. <<Head(queue)>> \o Tail(queue) = queue
    BY <1>0, <2>1
  <2>4. Line' = Line
    BY <1>3, <2>1, <2>2, <2>3 DEF Receive, Line
  <2>5. QED
    BY <1>3, <2>4 DEF Receive, Out!outboxVars
<1>4. CASE Dispatched
  <2>1. current # 0
    BY <1>4 DEF IInv, QueueInv, Handling, Dispatched
  <2>2. Line # <<>> /\ Head(Line) = current /\ Tail(Line) = queue
    BY <1>0, <2>1, LineIs
  <2>3. Line' = queue
    BY <1>4 DEF Dispatched, Line
  <2>4. Out!Serve
    BY <1>4, <2>2, <2>3 DEF Dispatched, Out!Serve
  <2>5. QED
    BY <2>4 DEF Out!Next
<1>5. CASE Stop \/ TakeStop \/ Return \/ UNCHANGED vars
  BY <1>5 DEF Stop, TakeStop, Return, vars, Line, Out!outboxVars
<1>6. QED
  BY <1>2, <1>3, <1>4, <1>5 DEF Next

(* The dispatcher is an Outbox: callers may think of the buffer and the     *)
(* alert in dispatch as one line that is served once, in order, and refuses *)
(* an alert only when it is full (dispatcher.go:38-65).                     *)
THEOREM Refinement == Spec => ImplementsOutbox
  BY InitIInv, NextKeepsIInv, InitRefines, NextRefines, PTL
     DEF Spec, ImplementsOutbox, Out!Spec
=============================================================================
