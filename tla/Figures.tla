------------------------------ MODULE Figures ------------------------------
(***************************************************************************)
(* The figures that the pages compute from the monitors and from the       *)
(* history of one of them: percentages, counts, bars, badges and banners.  *)
(* A monitor is its status, the first one also has a history and a last    *)
(* message; a result is its status and its response time.                  *)
(*                                                                         *)
(* frontend/src: pages/Dashboard.tsx, MonitorDetail.tsx, StatusPages.tsx,  *)
(* StatusPageView.tsx, components/UptimeBars.tsx, MonitorCard.tsx          *)
(***************************************************************************)
EXTENDS Naturals, Sequences, FiniteSets, SequencesExt

CONSTANTS
  MaxMonitors,   \* bounds the monitors
  HistoryLimit,  \* the results that the handler returns
  BarCount,      \* the bars of a row
  RowCount,      \* the points of the chart and the rows of the table
  Times,         \* the response times
  Days           \* the days that certificates are valid for

ASSUME FiguresAssumption ==
  /\ MaxMonitors \in Nat \ {0}
  /\ HistoryLimit \in 1..199
  /\ BarCount \in 1..HistoryLimit /\ RowCount \in 1..HistoryLimit
  /\ Times \subseteq Nat
  /\ Days \subseteq Nat \ {0}

VARIABLES
  board,    \* the statuses of the monitors, as they are listed
  history,  \* the results of the first one, the newest first
  message   \* what its last message says of a certificate

figureVars == <<board, history, message>>
-----------------------------------------------------------------------------
MonitorStatus == {"UP", "DOWN", "PENDING", "MAINTENANCE"}

Results == [status : {"UP", "DOWN"}, ms : Times]

(* "TLS cert valid until", with its days, "expired on", or anything else. *)
Messages ==
  [says : {"valid"}, days : Days] \cup [says : {"expired", "other"}, days : {0}]

FigureInit ==
  /\ board = <<"PENDING">>
  /\ history = <<>>
  /\ message = [says |-> "other", days |-> 0]

(* A mutant of Check: the handler of the history sets no limit. *)
CheckWithoutLimit(result, m) ==
  /\ board[1] # "MAINTENANCE"
  /\ history' = <<result>> \o history
  /\ board' = [board EXCEPT ![1] = result.status]
  /\ message' = m

(* A check of the first monitor; checkHTTP says that a certificate is valid *)
(* only of a site that is up, and that it has expired only of one that is   *)
(* down.                                                                    *)
Check(result, m) ==
  /\ board[1] # "MAINTENANCE"
  /\ m.says = "expired" => result.status = "DOWN"
  /\ m.says = "valid" => result.status = "UP"
  /\ history' = SubSeq(<<result>> \o history, 1,
                       IF Len(history) < HistoryLimit THEN Len(history) + 1 ELSE HistoryLimit)
  /\ board' = [board EXCEPT ![1] = result.status]
  /\ message' = m

(* Another monitor is added, or its status changes. *)
OtherChanges(i, status) ==
  /\ i \in 2..MaxMonitors /\ i <= Len(board) + 1
  /\ board' = IF i = Len(board) + 1 THEN Append(board, "PENDING") ELSE [board EXCEPT ![i] = status]
  /\ UNCHANGED <<history, message>>

(* Pause and Resume write the status and leave the last message. *)
PauseOrResume ==
  /\ board' = [board EXCEPT ![1] = IF board[1] = "MAINTENANCE" THEN "PENDING" ELSE "MAINTENANCE"]
  /\ UNCHANGED <<history, message>>

FigureNext ==
  \/ \E result \in Results, m \in Messages : Check(result, m)
  \/ \E i \in 2..MaxMonitors, status \in MonitorStatus : OtherChanges(i, status)
  \/ PauseOrResume

FigureSpec == FigureInit /\ [][FigureNext]_figureVars
-----------------------------------------------------------------------------
(* Math.round(100 * u / n): halves are rounded up. *)
Percent(u, n) == (200 * u + n) \div (2 * n)

IsUp(status) == status = "UP"
IsDown(status) == status = "DOWN"

Number(statuses, s) == Cardinality({i \in DOMAIN statuses : statuses[i] = s})

Verdicts == [i \in DOMAIN history |-> history[i].status]

First(n, s) == SubSeq(s, 1, IF Len(s) < n THEN Len(s) ELSE n)

(* The Dashboard. *)
Counts == [s \in MonitorStatus |-> Number(board, s)]
Incidents == FoldLeft(LAMBDA down, status : IF IsDown(status) THEN Append(down, status) ELSE down,
                      <<>>, board)
UptimePct == Percent(Counts["UP"], Len(board))

(* The monitor's page, and the bars. *)
Uptime == Percent(Number(Verdicts, "UP"), Len(history))
SumOfTimes == FoldSeq(LAMBDA r, sum : sum + r.ms, 0, history)
AvgMs == (2 * SumOfTimes + Len(history)) \div (2 * Len(history))
Chart == LET points == Reverse(history)
         IN  SubSeq(points, IF Len(points) > RowCount THEN Len(points) - RowCount + 1 ELSE 1, Len(points))
Table == First(RowCount, history)

NoBar == [status |-> "none", ms |-> 0]
(* A mutant of Bars: the oldest results are taken. *)
BarsOldest == LET recent == First(BarCount, Reverse(history))
              IN  [i \in 1..(BarCount - Len(recent)) |-> NoBar] \o recent

Bars == LET recent == Reverse(First(BarCount, history))
        IN  [i \in 1..(BarCount - Len(recent)) |-> NoBar] \o recent

(* The banner of a status page, and the badge of its card for the admins. *)
Banner ==
  IF board = <<>> THEN "none"
  ELSE IF \A i \in DOMAIN board : IsUp(board[i]) THEN "operational"
  ELSE IF \E i \in DOMAIN board : IsDown(board[i]) THEN "incident"
  ELSE "partial"
Affected == Number(board, "DOWN")

OverallStatus ==
  IF Len(board) = 0 THEN "no-monitors"
  ELSE IF Number(board, "UP") = Len(board) THEN "all-up"
  ELSE IF Number(board, "DOWN") # 0 THEN "some-down"
  ELSE "partial"

StatusLabel(status) ==
  CASE status = "UP" -> "Operational"
    [] status = "DOWN" -> "Outage"
    [] status = "MAINTENANCE" -> "Maintenance"
    [] OTHER -> "Pending"

(* The label of the certificate on a monitor's card. *)
ParseTlsExpiry == IF message.says = "other" THEN {} ELSE {message.days}
CertColor(days) == IF days = 0 THEN "red" ELSE IF days <= 7 THEN "yellow" ELSE "gray"
-----------------------------------------------------------------------------
FigureTypeOK ==
  /\ board \in Seq(MonitorStatus) /\ Len(board) \in 1..MaxMonitors
  /\ history \in Seq(Results) /\ Len(history) \in 0..HistoryLimit
  /\ message \in Messages

(* A percentage says 100 only of what was up without exception, and 0 only *)
(* of what was never up, although it is rounded (below 200 values).        *)
PercentHonest(pct, u, n) == (pct = 100 <=> u = n) /\ (pct = 0 <=> u = 0)

(* The percentages of the Dashboard and of a monitor's page. *)
PercentagesHonest ==
  /\ PercentHonest(UptimePct, Counts["UP"], Len(board))
  /\ history # <<>> => PercentHonest(Uptime, Number(Verdicts, "UP"), Len(history))

(* The counts of the Dashboard: every monitor is in one of them; its        *)
(* incidents and those of a status page are the monitors that are down.     *)
CountsComplete == Counts["UP"] + Counts["DOWN"] + Counts["PENDING"] + Counts["MAINTENANCE"] = Len(board)

IncidentsCounted == Len(Incidents) = Counts["DOWN"] /\ Affected = Counts["DOWN"]

(* The banner of a status page, its badge and its cards. *)
BannersAgree ==
  /\ (Banner = "operational") <=> (OverallStatus = "all-up")
  /\ (Banner = "incident") <=> (OverallStatus = "some-down")
  /\ \A i \in DOMAIN board : StatusLabel(board[i]) = "Outage" => Banner = "incident"

(* The average lies between two response times that were measured.        *)
AverageBetween ==
  history # <<>> =>
    \E r, s \in Results : {r, s} \subseteq {history[i] : i \in DOMAIN history} /\ r.ms <= AvgMs /\ AvgMs <= s.ms

(* The windows over the history end, or begin, with the newest result.      *)
NewestShown ==
  /\ Len(Bars) = BarCount
  /\ history # <<>> =>
       /\ Bars[BarCount] = history[1] /\ Chart[Len(Chart)] = history[1] /\ Table[1] = history[1]
       /\ Reverse(Chart) = Table

(* The certificate's label and the last check. *)
RedMeansDown ==
  history # <<>> => \A d \in ParseTlsExpiry : CertColor(d) = "red" => history[1].status = "DOWN"

(* The pages do not contradict each other, nor what they are computed      *)
(* from: percentages are honest; the last bar, the last point of the chart *)
(* and the first row of the table are the newest result; the banner, the   *)
(* card, the incidents and the counts tell the same story; a red           *)
(* certificate means that the last check found the site down.              *)
FiguresHonest ==
  /\ PercentagesHonest /\ CountsComplete /\ IncidentsCounted /\ BannersAgree
  /\ AverageBetween /\ NewestShown /\ RedMeansDown
=============================================================================
