---------------------------- MODULE Certificates ----------------------------
(***************************************************************************)
(* Two monitors of one web site over time, an HTTPS one and an SSL one: the *)
(* verdicts of checkHTTP and checkSSL, computed from the time that is left  *)
(* of the certificate, and the reminders that the engine derives from the   *)
(* message of the HTTPS check.                                             *)
(*                                                                         *)
(* internal/monitors/checkers.go, engine.go (maybeSendCertExpiryNotification) *)
(***************************************************************************)
EXTENDS Integers, FiniteSets

CONSTANTS
  TicksPerDay,       \* the grain of time
  MaxNow,            \* bound: the last tick
  Gap,               \* the ticks from one check of a monitor to its next
  Lifetimes,         \* for how many ticks a new certificate is valid
  WarnDays,          \* warnDays of the engine: 7
  WarnDaysExpiry,    \* the SSL monitor's threshold, 0 when it was left out
  AcceptedStatuses,  \* the entries of the HTTPS monitor's list, the unreadable ones as 0
  ExpectedStatus,    \* its single expected status, 0 when it was left out
  Replies            \* the status codes of the site; 0 stands for none in time

ASSUME CertificatesAssumption ==
  /\ TicksPerDay \in Nat \ {0}
  /\ MaxNow \in Nat
  /\ Gap \in Nat \ {0}
  /\ Lifetimes \subseteq Nat
  /\ WarnDays \in 0..30   \* not above the SSL monitor's default
  /\ WarnDaysExpiry \in Nat
  /\ AcceptedStatuses \subseteq Nat
  /\ ExpectedStatus \in Nat
  /\ Replies \subseteq Nat

VARIABLES
  now,         \* the time
  notAfter,    \* the end of the certificate
  https, ssl,  \* what the newest check of either monitor has found
  notifiedOn,  \* certNotifiedOn: the day of the last reminder, 0 for none
  kept,        \* the shared transport may still hold a connection to the site
  served,      \* ghost: since the certificate was installed, every check got its answers
  reminders,   \* ghost: days with a reminder since the certificate was installed
  watched      \* ghost: when the certificate was installed

vars == <<now, notAfter, https, ssl, notifiedOn, kept, served, reminders, watched>>
-----------------------------------------------------------------------------
Day(t) == t \div TicksPerDay + 1

(* int(d.Hours() / 24): whole days, towards zero. *)
Days(ticks) == IF ticks >= 0 THEN ticks \div TicksPerDay ELSE -((-ticks) \div TicksPerDay)

Left == notAfter - now

(* The handshake of a client that verifies certificates. *)
Handshake == Left >= 0

Result(verdict, note, days) == [verdict |-> verdict, note |-> note, days |-> days, at |-> now]

NotChecked == [verdict |-> "UP", note |-> "none", days |-> 0, at |-> -1]

Accepted ==
  LET codes == AcceptedStatuses \ {0} IN
    IF codes # {} THEN codes ELSE {IF ExpectedStatus = 0 THEN 200 ELSE ExpectedStatus}

(* Mutant: off by one at the last day. *)
CheckHTTPZero(reply, dialed, reused) ==
  IF reply = 0 \/ ~(Handshake \/ reused) THEN Result("DOWN", "failed", 0)
  ELSE IF reply \notin Accepted THEN Result("DOWN", "status", 0)
  ELSE IF ~dialed \/ ~Handshake THEN Result("UP", "no certificate", 0)
  ELSE IF Days(Left) < 0 THEN Result("DOWN", "expired", 0)
  ELSE Result("UP", "valid", Days(Left))

(* checkHTTP for a site that replies, over a new connection or over one     *)
(* that was opened for an earlier check, and a connection of its own that   *)
(* opens, or does not, for the certificate.                                 *)
CheckHTTP(reply, dialed, reused) ==
  IF reply = 0 \/ ~(Handshake \/ reused) THEN Result("DOWN", "failed", 0)
  ELSE IF reply \notin Accepted THEN Result("DOWN", "status", 0)
  ELSE IF ~dialed \/ ~Handshake THEN Result("UP", "no certificate", 0)
  ELSE IF Days(Left) <= 0 THEN Result("DOWN", "expired", 0)
  ELSE Result("UP", "valid", Days(Left))

(* Mutant: no default. *)
SslThresholdAsGiven == WarnDaysExpiry

SslThreshold == IF WarnDaysExpiry = 0 THEN 30 ELSE WarnDaysExpiry

(* Mutant: only the day of the threshold itself counts. *)
CheckSSLExactly(dialed) ==
  IF ~dialed \/ ~Handshake THEN Result("DOWN", "failed", 0)
  ELSE IF Days(Left) <= 0 THEN Result("DOWN", "expired", 0)
  ELSE IF Days(Left) = SslThreshold THEN Result("DOWN", "expires", Days(Left))
  ELSE Result("UP", "valid", Days(Left))

(* checkSSL. *)
CheckSSL(dialed) ==
  IF ~dialed \/ ~Handshake THEN Result("DOWN", "failed", 0)
  ELSE IF Days(Left) <= 0 THEN Result("DOWN", "expired", 0)
  ELSE IF Days(Left) <= SslThreshold THEN Result("DOWN", "expires", Days(Left))
  ELSE Result("UP", "valid", Days(Left))

(* Mutant: one warning, a week before the end. *)
CertWarningOnce(result) ==
  (result.note = "valid" /\ result.days = WarnDays) \/ result.note = "expired"

(* certWarning, read back from the message of the check. *)
CertWarning(result) ==
  (result.note = "valid" /\ result.days <= WarnDays) \/ result.note = "expired"
-----------------------------------------------------------------------------
Init ==
  /\ now = 0
  /\ notAfter \in Lifetimes
  /\ https = NotChecked
  /\ ssl = NotChecked
  /\ notifiedOn = 0
  /\ kept = FALSE
  /\ served = TRUE
  /\ reminders = {}
  /\ watched = 0

(* Time passes; no monitor waits longer than its interval for a check.      *)
Tick ==
  /\ now < MaxNow
  /\ now - https.at < Gap
  /\ now - ssl.at < Gap
  /\ now' = now + 1
  /\ UNCHANGED <<notAfter, https, ssl, notifiedOn, kept, served, reminders, watched>>

(* The HTTPS monitor is checked, and a reminder sent if one is due today.   *)
(* http.DefaultTransport keeps a connection for the next check; it closes   *)
(* it after 90 s, or the site does, and then a new one is dialled.          *)
RunHTTPS ==
  /\ https.at < now
  /\ \E reply \in Replies, dialed \in BOOLEAN, reused \in {FALSE, kept} :
       /\ https' = CheckHTTP(reply, dialed, reused)
       /\ kept' = (reused \/ Handshake)
       /\ served' = (served /\ reply \in Accepted /\ dialed)
  /\ IF CertWarning(https') /\ notifiedOn < Day(now)
       THEN notifiedOn' = Day(now) /\ reminders' = reminders \cup {Day(now)}
       ELSE UNCHANGED <<notifiedOn, reminders>>
  /\ UNCHANGED <<now, notAfter, ssl, watched>>

RunSSL ==
  /\ ssl.at < now
  /\ \E dialed \in BOOLEAN :
       /\ ssl' = CheckSSL(dialed)
       /\ served' = (served /\ dialed)
  /\ UNCHANGED <<now, notAfter, https, notifiedOn, kept, reminders, watched>>

(* The site's owner installs a new certificate. *)
Renew ==
  /\ https.at < now /\ ssl.at < now
  /\ \E life \in Lifetimes :
       /\ now + life > notAfter
       /\ notAfter' = now + life
  /\ served' = TRUE
  /\ reminders' = {}
  /\ watched' = now
  /\ UNCHANGED <<now, https, ssl, notifiedOn, kept>>

(* A restart forgets which reminders were sent and closes the connections. *)
Restart ==
  /\ notifiedOn # 0 \/ kept
  /\ notifiedOn' = 0
  /\ kept' = FALSE
  /\ UNCHANGED <<now, notAfter, https, ssl, served, reminders, watched>>

Next == Tick \/ RunHTTPS \/ RunSSL \/ Renew \/ Restart

Spec == Init /\ [][Next]_vars
-----------------------------------------------------------------------------
(* Properties *)

(* Every variable keeps its type, and a check that counts days counts some. *)
TypeOK ==
  /\ now \in Nat /\ notAfter \in Nat /\ watched \in Nat /\ notifiedOn \in Nat
  /\ kept \in BOOLEAN /\ served \in BOOLEAN
  /\ reminders \subseteq Nat
  /\ \A result \in {https, ssl} :
       /\ result \in [verdict : {"UP", "DOWN"}, days : Nat, at : Int,
                      note : {"none", "failed", "status", "no certificate", "expired",
                              "expires", "valid"}]
       /\ result.at <= now
       /\ result.note \in {"valid", "expires"} => result.days > 0

(* The result is about the certificate that is installed. *)
Current(result) == result.at >= watched

(* What is reported as an expired certificate is a valid one in its last    *)
(* day: days are cut off, and a certificate that has expired fails the      *)
(* handshake and reads as a failed request (checkers.go:98-101, 118-121,    *)
(* 453-474).  The comment "Cert is actually expired" (checkers.go:120), the *)
(* message and MonitorCard.tsx:93 say otherwise.                            *)
ExpiredMeansLastDay ==
  \A result \in {https, ssl} :
    Current(result) /\ result.note = "expired" =>
      result.at <= notAfter /\ notAfter < result.at + TicksPerDay

(* A certificate that was installed early enough does not take its HTTPS    *)
(* monitor down without reminders on WarnDays different days, if the checks *)
(* got their answers: restarts only repeat them                             *)
(* (checkers.go:118-124, engine.go:236-270).                                *)
RemindedInTime ==
  /\ Current(https) /\ https.verdict = "DOWN" /\ served
  /\ notAfter >= watched + (WarnDays + 1) * TicksPerDay
  => Cardinality(reminders) >= WarnDays

(* The two checkers agree about the same certificate: the SSL monitor, with *)
(* the default threshold or one of a week or more, is down not later than   *)
(* the HTTPS monitor warns (checkers.go:118-124, 466-477,                   *)
(* engine.go:239-258).                                                      *)
SslWarnsFirst ==
  /\ WarnDaysExpiry = 0 \/ WarnDaysExpiry >= WarnDays
  /\ Current(https) /\ CertWarning(https)
  /\ Current(ssl) /\ ssl.at >= https.at
  => ssl.verdict = "DOWN"

(* The request of this check goes through over an old connection, although  *)
(* the certificate has expired, and the dial for the certificate fails.     *)
Hidden(result) == kept /\ notAfter < now /\ result.note = "no certificate"

(* Nothing but a new certificate ends an outage that the old one has caused, *)
(* except that an HTTPS monitor is UP again after the certificate's end     *)
(* while the connection from before it is kept (checkers.go:97-98, 113-121, *)
(* 466-477).                                                                *)
OnlyRenewalRecovers ==
  [][served' =>
       /\ Current(https) /\ https.verdict = "DOWN" =>
            https'.verdict = "DOWN" \/ watched' = now' \/ Hidden(https')
       /\ Current(ssl) /\ ssl.verdict = "DOWN" => ssl'.verdict = "DOWN" \/ watched' = now']_vars
=============================================================================
