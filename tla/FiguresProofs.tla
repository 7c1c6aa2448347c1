--------------------------- MODULE FiguresProofs ---------------------------
(***************************************************************************)
(* What the figures of the pages have in common, for any history and any   *)
(* number of monitors that a percentage can tell apart.                    *)
(***************************************************************************)
EXTENDS Integers, Figures, FiniteSetTheorems, WellFoundedInduction, TLAPS

(* Induction over the numbers, said of a set: a set of numbers that has a   *)
(* rest has a least element of the rest.                                    *)
Smaller == {p \in Nat \X Nat : p[1] < p[2]}

LEMMA SmallerIsWellFounded == IsWellFoundedOn(Smaller, Nat)
  BY NatLessThanWellFounded DEF OpToRel, Smaller

LEMMA Induction ==
  ASSUME NEW S, 0 \in S, \A n \in Nat : n \in S => n + 1 \in S
  PROVE  Nat \subseteq S
<1> DEFINE rest == Nat \ S
<1> SUFFICES ASSUME rest # {} PROVE FALSE
  OBVIOUS
<1>1. PICK x \in rest : \A y \in rest : <<y, x>> \notin Smaller
  <2>1. rest \subseteq Nat
    OBVIOUS
  <2> HIDE DEF rest
  <2> QED
    BY <2>1, WFMin, SmallerIsWellFounded
<1>2. x \in Nat /\ x # 0
  BY <1>1
<1>3. x - 1 \in Nat /\ x = (x - 1) + 1
  BY <1>2
<1>4. x - 1 \in rest /\ <<x - 1, x>> \in Smaller
  BY <1>1, <1>2, <1>3 DEF Smaller
<1> QED
  BY <1>1, <1>4

(* A fold over a finite set takes one element after the other: the element  *)
(* that is picked, after all others have been folded.  There is one, by     *)
(* induction over the size of the set.                                      *)
IsFold(g, S, base, step, pick) ==
  \A T \in SUBSET S : g[T] = IF T = {} THEN base ELSE step[<<pick[T], g[T \ {pick[T]}]>>]

LEMMA FoldExists ==
  ASSUME NEW S, IsFiniteSet(S), NEW D, NEW base \in D, NEW step \in [S \X D -> D],
         NEW pick, \A T \in SUBSET S : T # {} => pick[T] \in T
  PROVE  \E g \in [SUBSET S -> D] : IsFold(g, S, base, step, pick)
<1> DEFINE Small(n) == {T \in SUBSET S : Cardinality(T) <= n}
           Meets(g, n) == \A T \in Small(n) :
             g[T] = IF T = {} THEN base ELSE step[<<pick[T], g[T \ {pick[T]}]>>]
           good == {n \in Nat : \E g \in [Small(n) -> D] : Meets(g, n)}
<1>0. \A T \in SUBSET S : IsFiniteSet(T) /\ Cardinality(T) \in Nat
  BY FS_Subset, FS_CardinalityType
<1>1. 0 \in good
  <2>1. \A T \in Small(0) : T = {}
    BY <1>0, FS_EmptySet
  <2> DEFINE g == [T \in Small(0) |-> base]
  <2>2. g \in [Small(0) -> D] /\ Meets(g, 0)
    BY <2>1
  <2> QED
    BY <2>2
<1>2. ASSUME NEW n \in Nat, n \in good PROVE n + 1 \in good
  <2>1. PICK g \in [Small(n) -> D] : Meets(g, n)
    BY <1>2
  <2>2. \A T \in Small(n + 1) : T # {} => pick[T] \in S /\ T \ {pick[T]} \in Small(n)
    BY <1>0, FS_RemoveElement
  <2> DEFINE h == [T \in Small(n + 1) |->
                     IF T = {} THEN base ELSE step[<<pick[T], g[T \ {pick[T]}]>>]]
  <2>3. h \in [Small(n + 1) -> D]
    <3> SUFFICES ASSUME NEW T \in Small(n + 1), T # {}
                 PROVE  step[<<pick[T], g[T \ {pick[T]}]>>] \in D
      OBVIOUS
    <3>1. pick[T] \in S /\ g[T \ {pick[T]}] \in D
      BY <2>2
    <3> QED
      BY <3>1
  <2>4. \A T \in Small(n) : T \in Small(n + 1) /\ h[T] = g[T]
    BY <1>0, <2>1
  <2>5. Meets(h, n + 1)
    BY <2>2, <2>4
  <2> HIDE DEF Small, Meets, h
  <2> QED
    BY <2>3, <2>5
<1> HIDE DEF good
<1>3. Cardinality(S) \in good
  BY <1>0, <1>1, <1>2, Induction
<1>4. Small(Cardinality(S)) = SUBSET S
  BY FS_Subset
<1>5. PICK g \in [SUBSET S -> D] : Meets(g, Cardinality(S))
  BY <1>3, <1>4 DEF good
<1> QED
  BY <1>4, <1>5 DEF IsFold
-----------------------------------------------------------------------------
(* A rounded percentage says all or nothing only when it is so, for up to   *)
(* 199 values: the history has at most 100 results; a dashboard with more   *)
(* monitors is beyond it (199 of 200 are shown as 100 %).                   *)
THEOREM PercentIsHonest ==
  \A n \in 1..199 : \A u \in 0..n : PercentHonest(Percent(u, n), u, n)
<1> SUFFICES ASSUME NEW n \in 1..199, NEW u \in 0..n
    PROVE  PercentHonest(Percent(u, n), u, n)
  OBVIOUS
<1>1. /\ 2 * n * Percent(u, n) <= 200 * u + n
      /\ 200 * u + n < 2 * n * Percent(u, n) + 2 * n
      /\ Percent(u, n) \in Int
  BY DEF Percent
<1>2. u = n => Percent(u, n) = 100
  BY <1>1
<1>3. u = 0 => Percent(u, n) = 0
  BY <1>1
<1>4. u # n => Percent(u, n) # 100
  BY <1>1
<1>5. ASSUME Percent(u, n) = 0 PROVE u = 0
  <2>1. 200 * u + n < 2 * n
    BY <1>1, <1>5
  <2> QED
    BY <2>1
<1> QED
  BY <1>2, <1>3, <1>4, <1>5 DEF PercentHonest
-----------------------------------------------------------------------------
(* The figures: a board and a history within their bounds.                  *)
LEMMA FigureTypeInit == FigureInit => FigureTypeOK
<1> SUFFICES ASSUME FigureInit PROVE FigureTypeOK
  OBVIOUS
<1>1. board \in Seq(MonitorStatus) /\ Len(board) \in 1..MaxMonitors
  BY FiguresAssumption DEF FigureInit, MonitorStatus
<1>2. history \in Seq(Results) /\ Len(history) \in 0..HistoryLimit
  BY FiguresAssumption DEF FigureInit
<1>3. message \in Messages
  BY DEF FigureInit, Messages
<1> QED
  BY <1>1, <1>2, <1>3 DEF FigureTypeOK

LEMMA ChangedBoard ==
  ASSUME board \in Seq(MonitorStatus), NEW i \in 1..Len(board), NEW s \in MonitorStatus,
         board' = [board EXCEPT ![i] = s]
  PROVE  board' \in Seq(MonitorStatus) /\ Len(board') = Len(board)
OBVIOUS

LEMMA FigureTypeNext == FigureTypeOK /\ [FigureNext]_figureVars => FigureTypeOK'
<1> SUFFICES ASSUME FigureTypeOK, [FigureNext]_figureVars PROVE FigureTypeOK'
  OBVIOUS
<1>t. board \in Seq(MonitorStatus) /\ Len(board) \in 1..MaxMonitors /\ 1 \in 1..Len(board)
  BY FiguresAssumption DEF FigureTypeOK
<1>1. ASSUME NEW result \in Results, NEW m \in Messages, Check(result, m) PROVE FigureTypeOK'
  <2>1. result.status \in MonitorStatus
    BY DEF Results, MonitorStatus
  <2>2. board' \in Seq(MonitorStatus) /\ Len(board') = Len(board)
    BY <1>1, <1>t, <2>1, ChangedBoard DEF Check
  <2> DEFINE all == <<result>> \o history
             n == IF Len(history) < HistoryLimit THEN Len(history) + 1 ELSE HistoryLimit
  <2>3. all \in Seq(Results) /\ Len(all) = Len(history) + 1
    BY DEF FigureTypeOK
  <2>4. n \in 0..HistoryLimit /\ n <= Len(history) + 1
    BY FiguresAssumption DEF FigureTypeOK
  <2>5. history' = SubSeq(all, 1, n)
    BY <1>1 DEF Check
  <2> HIDE DEF all, n
  <2>6. history' \in Seq(Results) /\ Len(history') = n
    BY <2>3, <2>4, <2>5, FiguresAssumption
  <2>7. message' = m
    BY <1>1 DEF Check
  <2> QED
    BY <1>t, <2>2, <2>4, <2>6, <2>7 DEF FigureTypeOK
<1>2. ASSUME NEW i \in 2..MaxMonitors, NEW status \in MonitorStatus, OtherChanges(i, status)
      PROVE  FigureTypeOK'
  <2>1. UNCHANGED <<history, message>> /\ i <= Len(board) + 1
    BY <1>2 DEF OtherChanges
  <2>2. CASE i = Len(board) + 1
    <3>1. board' = Append(board, "PENDING") /\ "PENDING" \in MonitorStatus
      BY <1>2, <2>2 DEF OtherChanges, MonitorStatus
    <3>2. board' \in Seq(MonitorStatus) /\ Len(board') = Len(board) + 1
      BY <1>t, <3>1
    <3> QED
      BY <1>t, <2>1, <2>2, <3>2, FiguresAssumption DEF FigureTypeOK
  <2>3. CASE i # Len(board) + 1
    <3>1. i \in 1..Len(board) /\ board' = [board EXCEPT ![i] = status]
      BY <1>2, <1>t, <2>1, <2>3, FiguresAssumption DEF OtherChanges
    <3>2. board' \in Seq(MonitorStatus) /\ Len(board') = Len(board)
      BY <1>t, <3>1, ChangedBoard
    <3> QED
      BY <1>t, <2>1, <3>2 DEF FigureTypeOK
  <2> QED
    BY <2>2, <2>3
<1>3. CASE PauseOrResume
  <2>1. /\ UNCHANGED <<history, message>>
        /\ board' = [board EXCEPT ![1] = IF board[1] = "MAINTENANCE" THEN "PENDING" ELSE "MAINTENANCE"]
    BY <1>3 DEF PauseOrResume
  <2>2. board' \in Seq(MonitorStatus) /\ Len(board') = Len(board)
    BY <1>t, <2>1, ChangedBoard DEF MonitorStatus
  <2> QED
    BY <1>t, <2>1, <2>2 DEF FigureTypeOK
<1>4. CASE UNCHANGED figureVars
  BY <1>4 DEF figureVars, FigureTypeOK
<1> QED
  BY <1>1, <1>2, <1>3, <1>4 DEF FigureNext
-----------------------------------------------------------------------------
(* The figures themselves. *)
LEMMA NumberFacts ==
  ASSUME NEW S, NEW s \in Seq(S), NEW v
  PROVE  /\ Number(s, v) \in 0..Len(s)
         /\ Number(s, v) = Len(s) <=> \A i \in 1..Len(s) : s[i] = v
         /\ Number(s, v) = 0 <=> \A i \in 1..Len(s) : s[i] # v
<1> DEFINE hits == {i \in DOMAIN s : s[i] = v}
<1>1. DOMAIN s = 1..Len(s) /\ Len(s) \in Nat
  OBVIOUS
<1>2. IsFiniteSet(1..Len(s)) /\ Cardinality(1..Len(s)) = Len(s)
  BY <1>1, FS_Interval
<1>3. hits \in SUBSET (1..Len(s)) /\ Number(s, v) = Cardinality(hits)
  BY <1>1 DEF Number
<1> DEFINE all == 1..Len(s)
<1> HIDE DEF hits, all
<1>4. IsFiniteSet(hits) /\ Cardinality(hits) <= Len(s) /\ (Cardinality(hits) = Len(s) => hits = 1..Len(s))
  <2>1. hits \in SUBSET all /\ IsFiniteSet(all) /\ Cardinality(all) = Len(s)
    BY <1>2, <1>3 DEF all
  <2>2. /\ IsFiniteSet(hits) /\ Cardinality(hits) <= Cardinality(all)
        /\ Cardinality(all) = Cardinality(hits) => all = hits
    BY <2>1, FS_Subset
  <2> QED
    BY <2>1, <2>2 DEF all
<1>5. Cardinality(hits) \in Nat /\ (Cardinality(hits) = 0 <=> hits = {})
  BY <1>4, FS_CardinalityType, FS_EmptySet
<1>6. hits = 1..Len(s) <=> \A i \in 1..Len(s) : s[i] = v
  BY <1>1 DEF hits
<1>7. hits = {} <=> \A i \in 1..Len(s) : s[i] # v
  BY <1>1 DEF hits
<1> QED
  BY <1>1, <1>2, <1>3, <1>4, <1>5, <1>6, <1>7

LEMMA BoardFacts ==
  ASSUME FigureTypeOK
  PROVE  /\ board \in Seq(MonitorStatus) /\ Len(board) \in Nat \ {0} /\ DOMAIN board = 1..Len(board)
         /\ Len(board) <= MaxMonitors /\ MaxMonitors \in Nat
         /\ \A v \in MonitorStatus : Counts[v] = Number(board, v)
BY FiguresAssumption DEF FigureTypeOK, Counts

(* Bounds, for numbers that are lengths below. *)
LEMMA FewEnough ==
  \A m, n \in Nat : n # 0 /\ n <= m /\ m < 200 => n \in 1..199
OBVIOUS

LEMMA PercentagesAre == ASSUME FigureTypeOK, MaxMonitors < 200 PROVE PercentagesHonest
<1>1. PercentHonest(UptimePct, Counts["UP"], Len(board))
  <2>1. Len(board) \in 1..199
    <3>1. /\ Len(board) \in Nat /\ Len(board) # 0
          /\ Len(board) <= MaxMonitors /\ MaxMonitors \in Nat
      BY BoardFacts
    <3> QED
      BY <3>1, FewEnough
  <2>2. Counts["UP"] \in 0..Len(board)
    BY BoardFacts, NumberFacts DEF MonitorStatus
  <2> QED
    BY <2>1, <2>2, PercentIsHonest DEF UptimePct
<1>2. ASSUME history # <<>>
      PROVE  PercentHonest(Uptime, Number(Verdicts, "UP"), Len(history))
  <2>0. history \in Seq(Results) /\ Len(history) <= HistoryLimit /\ HistoryLimit \in Nat /\ HistoryLimit < 200
    BY FiguresAssumption DEF FigureTypeOK
  <2>1. Len(history) \in 1..199
    <3>1. Len(history) \in Nat /\ Len(history) # 0
      BY <1>2, <2>0
    <3> QED
      BY <2>0, <3>1, FewEnough
  <2>2. Verdicts \in Seq({"UP", "DOWN"}) /\ Len(Verdicts) = Len(history)
    <3>1. ASSUME NEW i \in 1..Len(history) PROVE history[i].status \in {"UP", "DOWN"}
      <4>1. history[i] \in Results
        BY <2>0
      <4> QED
        BY <4>1 DEF Results
    <3> QED
      BY <2>0, <3>1 DEF Verdicts
  <2>3. Number(Verdicts, "UP") \in 0..Len(history)
    BY <2>2, NumberFacts
  <2> QED
    BY <2>1, <2>3, PercentIsHonest DEF Uptime
<1> QED
  BY <1>1, <1>2 DEF PercentagesHonest

(* Every monitor is counted once. *)
LEMMA CountsAre == ASSUME FigureTypeOK PROVE CountsComplete
<1> DEFINE hits(v) == {i \in DOMAIN board : board[i] = v}
<1>1. IsFiniteSet(1..Len(board)) /\ Cardinality(1..Len(board)) = Len(board)
  BY BoardFacts, FS_Interval
<1>2. ASSUME NEW v \in MonitorStatus
      PROVE  hits(v) \in SUBSET (1..Len(board)) /\ Counts[v] = Cardinality(hits(v))
  BY BoardFacts DEF Number
<1>3. hits("UP") \cup hits("DOWN") \cup (hits("PENDING") \cup hits("MAINTENANCE")) = 1..Len(board)
  BY BoardFacts DEF MonitorStatus
<1>4. /\ hits("UP") \cap hits("DOWN") = {} /\ hits("PENDING") \cap hits("MAINTENANCE") = {}
      /\ (hits("UP") \cup hits("DOWN")) \cap (hits("PENDING") \cup hits("MAINTENANCE")) = {}
  OBVIOUS
<1> HIDE DEF hits
<1>5. \A v \in MonitorStatus : IsFiniteSet(hits(v)) /\ Cardinality(hits(v)) \in Nat
  BY <1>1, <1>2, FS_Subset, FS_CardinalityType
<1>6. \A v, w \in MonitorStatus : hits(v) \cap hits(w) = {} =>
        /\ IsFiniteSet(hits(v) \cup hits(w))
        /\ Cardinality(hits(v) \cup hits(w)) = Cardinality(hits(v)) + Cardinality(hits(w))
  BY <1>5, FS_Union, FS_EmptySet
<1>7. {"UP", "DOWN", "PENDING", "MAINTENANCE"} \subseteq MonitorStatus
  BY DEF MonitorStatus
<1> DEFINE a == hits("UP") \cup hits("DOWN")
           b == hits("PENDING") \cup hits("MAINTENANCE")
<1>8. /\ IsFiniteSet(a) /\ Cardinality(a) = Counts["UP"] + Counts["DOWN"]
      /\ IsFiniteSet(b) /\ Cardinality(b) = Counts["PENDING"] + Counts["MAINTENANCE"]
  BY <1>2, <1>4, <1>6, <1>7
<1>9. Cardinality(a \cup b) = Cardinality(a) + Cardinality(b)
  <2>1. a \cap b = {}
    BY <1>4
  <2> HIDE DEF a, b
  <2>2. Cardinality(a) \in Nat /\ Cardinality(b) \in Nat
    BY <1>8, FS_CardinalityType
  <2>3. Cardinality(a \cup b) = Cardinality(a) + Cardinality(b) - Cardinality(a \cap b)
    BY <1>8, FS_Union
  <2>4. Cardinality(a \cap b) = 0
    BY <2>1, FS_EmptySet
  <2> QED
    BY <2>2, <2>3, <2>4
<1>10. Cardinality(a \cup b) = Len(board)
  BY <1>1, <1>3
<1>11. \A v \in MonitorStatus : Counts[v] \in Nat
  BY <1>2, <1>5
<1> HIDE DEF a, b
<1> QED
  BY <1>7, <1>8, <1>9, <1>10, <1>11 DEF CountsComplete

LEMMA BannersDo == ASSUME FigureTypeOK PROVE BannersAgree
<1>1. /\ Number(board, "UP") = Len(board) <=> \A i \in 1..Len(board) : board[i] = "UP"
      /\ Number(board, "DOWN") # 0 <=> \E i \in 1..Len(board) : board[i] = "DOWN"
  BY BoardFacts, NumberFacts
<1>2. Len(board) # 0 /\ board # <<>> /\ 1 \in 1..Len(board)
  BY BoardFacts
<1>3. /\ (Banner = "operational") <=> \A i \in 1..Len(board) : board[i] = "UP"
      /\ (Banner = "incident") <=> \E i \in 1..Len(board) : board[i] = "DOWN"
  BY <1>2, BoardFacts DEF Banner, IsUp, IsDown
<1>4. /\ (OverallStatus = "all-up") <=> \A i \in 1..Len(board) : board[i] = "UP"
      /\ (OverallStatus = "some-down") <=> \E i \in 1..Len(board) : board[i] = "DOWN"
  BY <1>1, <1>2 DEF OverallStatus
<1>5. \A v \in MonitorStatus : StatusLabel(v) = "Outage" => v = "DOWN"
  BY DEF StatusLabel, MonitorStatus
<1>6. \A i \in DOMAIN board : StatusLabel(board[i]) = "Outage" => Banner = "incident"
  BY <1>3, <1>5, BoardFacts
<1> QED
  BY <1>3, <1>4, <1>6 DEF BannersAgree

(* The sequences on the pages. *)
LEMMA ReverseFacts ==
  ASSUME NEW S, NEW s \in Seq(S)
  PROVE  /\ Reverse(s) \in Seq(S) /\ Len(Reverse(s)) = Len(s)
         /\ \A i \in 1..Len(s) : Reverse(s)[i] = s[(Len(s) - i) + 1]
BY DEF Reverse

LEMMA FirstFacts ==
  ASSUME NEW S, NEW s \in Seq(S), NEW n \in Nat
  PROVE  /\ First(n, s) \in Seq(S)
         /\ Len(First(n, s)) = IF Len(s) < n THEN Len(s) ELSE n
         /\ \A i \in 1..Len(First(n, s)) : First(n, s)[i] = s[i]
BY DEF First

(* The chart begins at from and has as many points as the table has rows.  *)
LEMMA WindowFacts ==
  \A n, k \in Nat : n # 0 /\ k # 0 =>
    LET from == IF n > k THEN n - k + 1 ELSE 1
        rows == IF n < k THEN n ELSE k
    IN  from \in 1..n /\ rows = n - from + 1 /\ rows \in 1..n
OBVIOUS

LEMMA NewestAre == ASSUME FigureTypeOK PROVE NewestShown
<1>1. /\ history \in Seq(Results) /\ Len(history) \in Nat
      /\ BarCount \in Nat \ {0} /\ RowCount \in Nat /\ RowCount # 0
  BY FiguresAssumption DEF FigureTypeOK
<1> DEFINE some == First(BarCount, history)
           recent == Reverse(some)
           gap == BarCount - Len(recent)
           none == [i \in 1..gap |-> NoBar]
<1>2. /\ some \in Seq(Results) /\ Len(some) = (IF Len(history) < BarCount THEN Len(history) ELSE BarCount)
      /\ \A i \in 1..Len(some) : some[i] = history[i]
  BY <1>1, FirstFacts
<1>3. /\ recent \in Seq(Results) /\ Len(recent) = Len(some)
      /\ \A i \in 1..Len(some) : recent[i] = some[(Len(some) - i) + 1]
  BY <1>2, ReverseFacts
<1>4. gap \in Nat
  BY <1>1, <1>2, <1>3
<1>5. none \in Seq({NoBar}) /\ Len(none) = gap
  BY <1>4
<1>6. Bars = none \o recent
  BY DEF Bars
<1> HIDE DEF some, recent, gap, none
<1>7. Len(Bars) = BarCount
  BY <1>1, <1>3, <1>4, <1>5, <1>6 DEF gap
<1>8. ASSUME history # <<>>
      PROVE  /\ Bars[BarCount] = history[1] /\ Chart[Len(Chart)] = history[1] /\ Table[1] = history[1]
             /\ Reverse(Chart) = Table
  <2>1. Len(history) > 0
    BY <1>1, <1>8
  <2>2. Bars[BarCount] = history[1]
    <3>1. Len(some) > 0 /\ recent[Len(recent)] = some[1] /\ some[1] = history[1]
      BY <1>1, <1>2, <1>3, <2>1
    <3>2. BarCount = Len(none) + Len(recent)
      BY <1>1, <1>2, <1>3, <1>5 DEF gap
    <3>3. Bars[BarCount] = recent[Len(recent)]
      BY <1>3, <1>4, <1>5, <1>6, <3>1, <3>2
    <3> QED
      BY <3>1, <3>3
  <2> DEFINE points == Reverse(history)
             from == IF Len(points) > RowCount THEN Len(points) - RowCount + 1 ELSE 1
             rows == IF Len(history) < RowCount THEN Len(history) ELSE RowCount
  <2>3. /\ points \in Seq(Results) /\ Len(points) = Len(history)
        /\ \A i \in 1..Len(history) : points[i] = history[(Len(history) - i) + 1]
    BY <1>1, ReverseFacts
  <2>4. Chart = SubSeq(points, from, Len(points))
    BY DEF Chart
  <2>5. /\ Table \in Seq(Results) /\ Len(Table) = rows /\ \A i \in 1..rows : Table[i] = history[i]
    BY <1>1, FirstFacts DEF Table
  <2>6. from \in 1..Len(points) /\ rows = Len(points) - from + 1 /\ rows \in 1..Len(history)
    <3>1. Len(points) = Len(history) /\ Len(history) \in Nat /\ Len(history) # 0
      BY <1>1, <2>1, <2>3
    <3> QED
      BY <1>1, <3>1, WindowFacts
  <2> HIDE DEF points, from, rows
  <2>7. /\ Chart \in Seq(Results) /\ Len(Chart) = rows
        /\ \A i \in 1..rows : Chart[i] = points[from + i - 1]
    BY <2>3, <2>4, <2>6
  <2>8. /\ Reverse(Chart) \in Seq(Results) /\ Len(Reverse(Chart)) = rows
        /\ \A i \in 1..rows : Reverse(Chart)[i] = Chart[(rows - i) + 1]
    BY <2>7, ReverseFacts
  <2>9. ASSUME NEW i \in 1..rows PROVE Chart[(rows - i) + 1] = history[i]
    <3> DEFINE k == (rows - i) + 1
    <3>1. k \in 1..rows /\ from + k - 1 = Len(history) - i + 1 /\ from + k - 1 \in 1..Len(history)
      BY <1>1, <2>3, <2>6
    <3>2. Chart[k] = points[from + k - 1]
      BY <2>7, <3>1
    <3>3. (Len(history) - (from + k - 1)) + 1 = i
      BY <1>1, <2>6, <3>1
    <3> HIDE DEF k
    <3>4. points[from + k - 1] = history[i]
      BY <2>3, <3>1, <3>3
    <3> QED
      BY <3>2, <3>4 DEF k
  <2>10. Chart[Len(Chart)] = history[1] /\ Table[1] = history[1]
    <3>1. 1 \in 1..rows /\ (rows - 1) + 1 = rows
      BY <1>1, <2>6
    <3> QED
      BY <2>5, <2>7, <2>9, <3>1
  <2>11. Reverse(Chart) = Table
    <3> DEFINE back == Reverse(Chart)
    <3>1. back \in Seq(Results) /\ Len(back) = rows /\ \A i \in 1..rows : back[i] = history[i]
      BY <2>8, <2>9
    <3> HIDE DEF back
    <3>2. \A i \in 1..rows : back[i] = Table[i]
      BY <2>5, <3>1
    <3>3. back = Table
      BY <2>5, <3>1, <3>2
    <3> QED
      BY <3>3 DEF back
  <2> QED
    BY <2>2, <2>10, <2>11
<1> QED
  BY <1>7, <1>8 DEF NewestShown

(* The smaller and the greater of two, taken n + 1 times. *)
LEMMA OneMore ==
  ASSUME NEW n \in Nat, NEW a \in Nat, NEW b \in Nat, NEW sum \in Nat
  PROVE  /\ n * a <= sum => \E m \in {a, b} : (n + 1) * m <= sum + b
         /\ sum <= n * a => \E m \in {a, b} : sum + b <= (n + 1) * m
<1>1. \A x, y \in Nat : x <= y => n * x <= n * y
  OBVIOUS
<1>2. \A x \in Nat : (n + 1) * x = n * x + x /\ n * x \in Nat
  OBVIOUS
<1>3. CASE a <= b
  <2>1. n * a <= n * b
    BY <1>1, <1>3
  <2> QED
    BY <1>2, <1>3, <2>1
<1>4. CASE b <= a
  <2>1. n * b <= n * a
    BY <1>1, <1>4
  <2> QED
    BY <1>2, <1>4, <2>1
<1> QED
  BY <1>3, <1>4

(* The sum of the response times is between the number of results times one *)
(* of them and times another.                                               *)
LEMMA SumBetween ==
  ASSUME FigureTypeOK, history # <<>>
  PROVE  /\ SumOfTimes \in Nat
         /\ \E i, j \in DOMAIN history :
              Len(history) * history[i].ms <= SumOfTimes /\ SumOfTimes <= Len(history) * history[j].ms
<1> DEFINE S == DOMAIN history
           some(T) == CHOOSE x \in T : TRUE
           ms(x) == history[x].ms
           pick == [T \in SUBSET S |-> some(T)]
           step == [p \in S \X Nat |-> p[2] + ms(p[1])]
           sum == CHOOSE sum : sum = [T \in SUBSET S |->
                    IF T = {} THEN 0 ELSE sum[T \ {some(T)}] + ms(some(T))]
<1> HIDE DEF some, pick, step, sum
<1>1. S = 1..Len(history) /\ Len(history) \in Nat \ {0} /\ IsFiniteSet(S) /\ Cardinality(S) = Len(history)
  BY FS_Interval DEF FigureTypeOK
<1>2. \A x \in S : ms(x) \in Nat
  <2>1. \A x \in S : history[x] \in Results
    BY <1>1 DEF FigureTypeOK
  <2> QED
    BY <2>1, FiguresAssumption DEF Results
<1> HIDE DEF S, ms
<1>3. \A T \in SUBSET S : T # {} => some(T) \in T /\ pick[T] = some(T) /\ pick[T] \in S
  BY DEF some, pick
<1>4. PICK g \in [SUBSET S -> Nat] : IsFold(g, S, 0, step, pick)
  <2>1. step \in [S \X Nat -> Nat]
    BY <1>2 DEF step
  <2>2. \A T \in SUBSET S : T # {} => pick[T] \in T
    BY <1>3
  <2>3. 0 \in Nat
    OBVIOUS
  <2> QED
    BY <1>1, <2>1, <2>2, <2>3, FoldExists
<1>5. g = [T \in SUBSET S |-> IF T = {} THEN 0 ELSE g[T \ {some(T)}] + ms(some(T))]
  <2>1. \A T \in SUBSET S : T # {} =>
          step[<<pick[T], g[T \ {pick[T]}]>>] = g[T \ {some(T)}] + ms(some(T))
    <3> SUFFICES ASSUME NEW T \in SUBSET S, T # {}
                 PROVE  step[<<pick[T], g[T \ {pick[T]}]>>] = g[T \ {some(T)}] + ms(some(T))
      OBVIOUS
    <3>1. pick[T] = some(T) /\ some(T) \in S /\ g[T \ {some(T)}] \in Nat
      BY <1>3
    <3> QED
      BY <3>1 DEF step
  <2> QED
    BY <1>4, <2>1 DEF IsFold
<1>6. sum = [T \in SUBSET S |-> IF T = {} THEN 0 ELSE sum[T \ {some(T)}] + ms(some(T))]
  BY <1>5 DEF sum
<1>7. SumOfTimes = sum[S]
  BY DEF SumOfTimes, sum, S, ms, some, FoldSeq, FoldFunction, FoldFunctionOnSet, MapThenFoldSet
<1> DEFINE Between(T) ==
             /\ sum[T] \in Nat
             /\ T # {} => \E i, j \in T : Cardinality(T) * ms(i) <= sum[T] /\ sum[T] <= Cardinality(T) * ms(j)
           good == {n \in Nat : \A T \in SUBSET S : Cardinality(T) = n => Between(T)}
<1>8. \A T \in SUBSET S : IsFiniteSet(T) /\ Cardinality(T) \in Nat /\ (Cardinality(T) = 0 <=> T = {})
  BY <1>1, FS_Subset, FS_CardinalityType, FS_EmptySet
<1>9. 0 \in good
  BY <1>6, <1>8
<1>10. ASSUME NEW n \in Nat, n \in good PROVE n + 1 \in good
  <2> SUFFICES ASSUME NEW T \in SUBSET S, Cardinality(T) = n + 1 PROVE Between(T)
    OBVIOUS
  <2> DEFINE x == some(T)
             U == T \ {x}
  <2> HIDE DEF Between, good
  <2>1. T # {} /\ x \in T /\ ms(x) \in Nat
    <3>1. T # {} /\ x \in T
      BY <1>3, <1>8
    <3> QED
      BY <1>2, <3>1
  <2>2. U \in SUBSET S /\ Cardinality(U) = n
    BY <1>8, <2>1, FS_RemoveElement
  <2>3. Between(U)
    BY <1>10, <2>2 DEF good
  <2>4. sum[T] = sum[U] + ms(x)
    BY <1>6, <2>1
  <2> HIDE DEF x
  <2> USE DEF Between
  <2>5. sum[T] \in Nat
    BY <2>1, <2>3, <2>4
  <2>6. CASE U = {}
    <3>1. n = 0 /\ sum[U] = 0
      BY <1>6, <1>8, <2>2, <2>6
    <3>2. Cardinality(T) * ms(x) = sum[T]
      BY <2>1, <2>4, <3>1
    <3> QED
      BY <2>1, <2>5, <3>2
  <2>7. CASE U # {}
    <3>1. PICK i, j \in U : n * ms(i) <= sum[U] /\ sum[U] <= n * ms(j)
      BY <2>2, <2>3, <2>7
    <3>2. ms(i) \in Nat /\ ms(j) \in Nat /\ sum[U] \in Nat
      BY <1>2, <2>2, <2>3
    <3>3. \E m \in {ms(i), ms(x)} : (n + 1) * m <= sum[T]
      BY <2>1, <2>4, <3>1, <3>2, OneMore
    <3>4. \E m \in {ms(j), ms(x)} : sum[T] <= (n + 1) * m
      BY <2>1, <2>4, <3>1, <3>2, OneMore
    <3> QED
      BY <2>1, <2>5, <3>3, <3>4
  <2> QED
    BY <2>6, <2>7
<1> HIDE DEF good
<1>11. Cardinality(S) \in good
  BY <1>8, <1>9, <1>10, Induction
<1>12. S # {} /\ Between(S)
  <2> HIDE DEF Between
  <2> QED
    BY <1>1, <1>11 DEF good
<1> QED
  BY <1>1, <1>7, <1>12 DEF S, ms

(* The average, rounded, is between the same two. *)
LEMMA AverageIs == ASSUME FigureTypeOK PROVE AverageBetween
<1> SUFFICES ASSUME history # <<>>
             PROVE  \E r, s \in Results :
                      /\ {r, s} \subseteq {history[i] : i \in DOMAIN history}
                      /\ r.ms <= AvgMs /\ AvgMs <= s.ms
  BY DEF AverageBetween
<1> DEFINE n == Len(history)
<1>1. n \in Nat \ {0} /\ DOMAIN history = 1..n /\ \A i \in 1..n : history[i] \in Results
  BY DEF FigureTypeOK
<1>2. \A r \in Results : r.ms \in Nat
  BY FiguresAssumption DEF Results
<1>3. PICK i, j \in 1..n : n * history[i].ms <= SumOfTimes /\ SumOfTimes <= n * history[j].ms
  BY <1>1, SumBetween
<1>4. SumOfTimes \in Nat
  BY SumBetween
<1> HIDE DEF n
<1>5. \A sum, a \in Nat : n * a <= sum => a <= (2 * sum + n) \div (2 * n)
  <2> SUFFICES ASSUME NEW sum \in Nat, NEW a \in Nat, n * a <= sum
               PROVE  a <= (2 * sum + n) \div (2 * n)
    OBVIOUS
  <2> DEFINE q == (2 * sum + n) \div (2 * n)
  <2>1. q \in Int /\ 2 * sum + n < (2 * n) * q + 2 * n
    BY <1>1
  <2> HIDE DEF q
  <2>2. (2 * n) * a < (2 * n) * (q + 1)
    BY <1>1, <2>1
  <2> QED
    BY <1>1, <2>1, <2>2 DEF q
<1>6. \A sum, b \in Nat : sum <= n * b => (2 * sum + n) \div (2 * n) <= b
  <2> SUFFICES ASSUME NEW sum \in Nat, NEW b \in Nat, sum <= n * b
               PROVE  (2 * sum + n) \div (2 * n) <= b
    OBVIOUS
  <2> DEFINE q == (2 * sum + n) \div (2 * n)
  <2>1. q \in Int /\ (2 * n) * q <= 2 * sum + n
    BY <1>1
  <2> HIDE DEF q
  <2>2. (2 * n) * q < (2 * n) * (b + 1)
    BY <1>1, <2>1
  <2> QED
    BY <1>1, <2>1, <2>2 DEF q
<1>7. history[i].ms <= AvgMs /\ AvgMs <= history[j].ms
  BY <1>1, <1>2, <1>3, <1>4, <1>5, <1>6 DEF AvgMs, n
<1> QED
  BY <1>1, <1>7

(* The greatest of a set of positions. *)
LEMMA MaxIs ==
  ASSUME NEW n \in Nat, NEW T \in SUBSET (1..n), T # {}
  PROVE  Max(T) \in T /\ \A y \in T : y <= Max(T)
<1> DEFINE good == {k \in Nat : \A U \in SUBSET (1..k) : U # {} => \E x \in U : \A y \in U : y <= x}
<1>1. 0 \in good
  <2>1. \A U \in SUBSET (1..0) : U = {}
    OBVIOUS
  <2> QED
    BY <2>1
<1>2. ASSUME NEW k \in Nat, k \in good PROVE k + 1 \in good
  <2> SUFFICES ASSUME NEW U \in SUBSET (1..k + 1), U # {} PROVE \E x \in U : \A y \in U : y <= x
    OBVIOUS
  <2>1. CASE k + 1 \in U
    BY <2>1
  <2>2. CASE k + 1 \notin U
    <3>1. U \in SUBSET (1..k)
      BY <2>2
    <3> QED
      BY <1>2, <3>1
  <2> QED
    BY <2>1, <2>2
<1> HIDE DEF good
<1>3. n \in good
  BY <1>1, <1>2, Induction
<1>4. \E x \in T : \A y \in T : x >= y
  BY <1>3 DEF good
<1> QED
  BY <1>4 DEF Max

(* The incidents that the Dashboard lists are as many as it counts. *)
LEMMA IncidentsAre == ASSUME FigureTypeOK PROVE IncidentsCounted
<1> DEFINE S == DOMAIN board
           statuses == Seq(MonitorStatus)
           joined(list, i) == IF IsDown(board[i]) THEN Append(list, board[i]) ELSE list
           pick == [T \in SUBSET S |-> Max(T)]
           step == [p \in S \X statuses |-> joined(p[2], p[1])]
           list == CHOOSE list : list = [T \in SUBSET S |->
                     IF T = {} THEN <<>> ELSE joined(list[T \ {Max(T)}], Max(T))]
<1> HIDE DEF pick, step, list, joined, statuses
<1>1. S = 1..Len(board) /\ Len(board) \in Nat /\ IsFiniteSet(S)
  BY FS_Interval DEF FigureTypeOK
<1>2. \A i \in S : board[i] \in MonitorStatus
  BY <1>1 DEF FigureTypeOK
<1> HIDE DEF S
<1>3. \A T \in SUBSET S : T # {} => Max(T) \in T /\ pick[T] = Max(T) /\ pick[T] \in T /\ pick[T] \in S
  BY <1>1, MaxIs DEF pick
<1>4. \A i \in S, s \in statuses :
        /\ joined(s, i) \in statuses
        /\ Len(joined(s, i)) = IF board[i] = "DOWN" THEN Len(s) + 1 ELSE Len(s)
  BY <1>2 DEF joined, statuses, IsDown
<1>5. PICK g \in [SUBSET S -> statuses] : IsFold(g, S, <<>>, step, pick)
  <2>1. step \in [S \X statuses -> statuses]
    BY <1>4 DEF step
  <2>2. \A T \in SUBSET S : T # {} => pick[T] \in T
    BY <1>3
  <2>3. <<>> \in statuses
    BY DEF statuses
  <2> QED
    BY <1>1, <2>1, <2>2, <2>3, FoldExists
<1>6. g = [T \in SUBSET S |-> IF T = {} THEN <<>> ELSE joined(g[T \ {Max(T)}], Max(T))]
  <2>1. ASSUME NEW T \in SUBSET S, T # {}
        PROVE  step[<<pick[T], g[T \ {pick[T]}]>>] = joined(g[T \ {Max(T)}], Max(T))
    <3>1. pick[T] = Max(T) /\ Max(T) \in S /\ g[T \ {Max(T)}] \in statuses
      BY <1>3, <2>1
    <3> QED
      BY <3>1 DEF step
  <2> QED
    BY <1>5, <2>1 DEF IsFold
<1>7. list = [T \in SUBSET S |-> IF T = {} THEN <<>> ELSE joined(list[T \ {Max(T)}], Max(T))]
  BY <1>6 DEF list
<1>8. Incidents = list[S]
  BY DEF Incidents, list, S, joined, FoldLeft, MapThenFoldSet
<1> DEFINE hits(n) == {i \in 1..n : board[i] = "DOWN"}
           Counted(n) == list[1..n] \in statuses /\ Len(list[1..n]) = Cardinality(hits(n))
           good == {n \in Nat : n <= Len(board) => Counted(n)}
<1>9. \A n \in Nat : IsFiniteSet(hits(n))
  <2> SUFFICES ASSUME NEW n \in Nat PROVE IsFiniteSet(hits(n))
    OBVIOUS
  <2>1. IsFiniteSet(1..n) /\ hits(n) \in SUBSET (1..n)
    BY FS_Interval
  <2> QED
    BY <2>1, FS_Subset
<1>10. 0 \in good
  <2>1. 1..0 = {} /\ hits(0) = {}
    OBVIOUS
  <2>2. list[1..0] = <<>>
    BY <1>7, <2>1
  <2>3. Counted(0)
    <3>1. <<>> \in statuses /\ Len(<<>>) = 0
      BY DEF statuses
    <3> HIDE DEF hits
    <3> QED
      BY <2>1, <2>2, <3>1, FS_EmptySet
  <2> HIDE DEF Counted
  <2> QED
    BY <2>3
<1>11. ASSUME NEW n \in Nat, n \in good PROVE n + 1 \in good
  <2> SUFFICES ASSUME n + 1 <= Len(board) PROVE Counted(n + 1)
    OBVIOUS
  <2>1. /\ n + 1 \in S /\ n + 1 \in Nat /\ n + 1 \in 1..n + 1 /\ 1..n + 1 # {}
        /\ 1..n \in SUBSET S /\ 1..n + 1 \in SUBSET S
    <3>1. n + 1 \in S /\ n + 1 \in Nat /\ n + 1 \in 1..n + 1
      BY <1>1
    <3>2. 1..n \subseteq S /\ 1..n + 1 \subseteq S
      BY <1>1
    <3> QED
      BY <3>1, <3>2
  <2>2. Max(1..n + 1) = n + 1
    <3>1. Max(1..n + 1) \in 1..n + 1 /\ n + 1 <= Max(1..n + 1)
      BY <2>1, MaxIs
    <3> QED
      BY <3>1
  <2>3. (1..n + 1) \ {n + 1} = 1..n
    OBVIOUS
  <2>4. list[1..n + 1] = joined(list[1..n], n + 1)
    BY <1>7, <2>1, <2>2, <2>3
  <2>5. Counted(n)
    BY <1>11
  <2>6. hits(n + 1) = IF board[n + 1] = "DOWN" THEN hits(n) \cup {n + 1} ELSE hits(n)
    OBVIOUS
  <2>7. Cardinality(hits(n + 1)) = IF board[n + 1] = "DOWN" THEN Cardinality(hits(n)) + 1 ELSE Cardinality(hits(n))
    <3>1. n + 1 \notin hits(n) /\ IsFiniteSet(hits(n))
      BY <1>9
    <3> HIDE DEF hits
    <3> QED
      BY <2>6, <3>1, FS_AddElement
  <2> HIDE DEF hits
  <2> QED
    BY <1>4, <2>1, <2>4, <2>5, <2>7
<1> HIDE DEF good
<1>12. Len(board) \in good
  BY <1>1, <1>10, <1>11, Induction
<1>13. Counted(Len(board))
  BY <1>1, <1>12 DEF good
<1>14. Number(board, "DOWN") = Cardinality(hits(Len(board)))
  BY <1>1 DEF Number, S
<1>15. Counts["DOWN"] = Number(board, "DOWN")
  BY DEF Counts, MonitorStatus
<1> QED
  BY <1>1, <1>8, <1>13, <1>14, <1>15 DEF IncidentsCounted, Affected

(* The last message is the one of the newest result.                        *)
CertificateInv ==
  /\ history = <<>> => message.says = "other"
  /\ history # <<>> /\ message.says = "expired" => history[1].status = "DOWN"

LEMMA CertificateInvNext ==
  FigureTypeOK /\ CertificateInv /\ [FigureNext]_figureVars => CertificateInv'
<1> SUFFICES ASSUME FigureTypeOK, CertificateInv, [FigureNext]_figureVars PROVE CertificateInv'
  OBVIOUS
<1>1. ASSUME NEW result \in Results, NEW m \in Messages, Check(result, m) PROVE CertificateInv'
  <2> DEFINE all == <<result>> \o history
             n == IF Len(history) < HistoryLimit THEN Len(history) + 1 ELSE HistoryLimit
  <2>1. all \in Seq(Results) /\ Len(all) = Len(history) + 1 /\ all[1] = result
    BY DEF FigureTypeOK
  <2>2. n \in 1..HistoryLimit /\ n <= Len(history) + 1
    BY FiguresAssumption DEF FigureTypeOK
  <2>3. history' = SubSeq(all, 1, n) /\ message' = m /\ (m.says = "expired" => result.status = "DOWN")
    BY <1>1 DEF Check
  <2> HIDE DEF all, n
  <2>4. Len(history') = n /\ history'[1] = result
    BY <2>1, <2>2, <2>3, FiguresAssumption
  <2>5. history' # <<>>
    BY <2>2, <2>4
  <2> QED
    BY <2>3, <2>4, <2>5 DEF CertificateInv
<1>2. CASE UNCHANGED <<history, message>>
  BY <1>2 DEF CertificateInv
<1> QED
  BY <1>1, <1>2 DEF FigureNext, OtherChanges, PauseOrResume, figureVars

LEMMA RedDoes == ASSUME FigureTypeOK, CertificateInv PROVE RedMeansDown
<1> SUFFICES ASSUME history # <<>>, NEW d \in ParseTlsExpiry, CertColor(d) = "red"
             PROVE  history[1].status = "DOWN"
  BY DEF RedMeansDown
<1>1. message.says # "other" /\ message.days = 0
  BY DEF ParseTlsExpiry, CertColor
<1>2. message.says = "expired"
  BY <1>1, FiguresAssumption DEF FigureTypeOK, Messages
<1> QED
  BY <1>2 DEF CertificateInv

LEMMA FiguresFollow ==
  ASSUME MaxMonitors < 200, FigureTypeOK, CertificateInv PROVE FiguresHonest
BY PercentagesAre, CountsAre, IncidentsAre, BannersDo, AverageIs, NewestAre, RedDoes DEF FiguresHonest

(* What the pages show is consistent, for any history and fewer than 200    *)
(* monitors: rounded percentages are honest, every monitor is counted once, *)
(* the incidents are those that are counted, the banner and the card agree  *)
(* with each other, the average is between two response times, the newest   *)
(* result is where each page shows it, and red means down                   *)
(* (UptimeBars.tsx, MonitorCard.tsx, Dashboard.tsx, MonitorDetail.tsx,      *)
(* StatusPages.tsx, StatusPageView.tsx).                                    *)
THEOREM FiguresAgree == ASSUME MaxMonitors < 200 PROVE FigureSpec => []FiguresHonest
<1>1. FigureInit => CertificateInv
  BY DEF FigureInit, CertificateInv
<1>2. FigureTypeOK /\ CertificateInv => FiguresHonest
  BY FiguresFollow
<1> QED
  BY <1>1, <1>2, FigureTypeInit, FigureTypeNext, CertificateInvNext, PTL DEF FigureSpec
=============================================================================
