------------------------- MODULE CertificatesProofs -------------------------
(* Theorems about Certificates, for any grain of time, lifetimes of the     *)
(* certificates, thresholds, status codes and order of the checks.          *)
EXTENDS Certificates, FiniteSetTheorems, TLAPS

(* Whole days *)

LEMMA DaysType == \A x \in Int : Days(x) \in Int /\ (x >= 0 => Days(x) >= 0)
  BY CertificatesAssumption DEF Days

LEMMA DaysMonotone == ASSUME NEW x \in Int, NEW y \in Int, x <= y PROVE Days(x) <= Days(y)
<1> USE CertificatesAssumption
<1>1. ASSUME NEW a \in Nat, NEW b \in Nat, a <= b
      PROVE  a \div TicksPerDay \in Nat /\ a \div TicksPerDay <= b \div TicksPerDay
  BY <1>1
<1>2. CASE x >= 0
  BY <1>1, <1>2 DEF Days
<1>3. CASE x < 0 /\ y >= 0
  <2>1. (-x) \div TicksPerDay \in Nat /\ y \div TicksPerDay \in Nat
    BY <1>1, <1>3
  <2> QED
    BY <1>3, <2>1 DEF Days
<1>4. CASE x < 0 /\ y < 0
  <2>1. (-y) \div TicksPerDay <= (-x) \div TicksPerDay
    BY <1>1, <1>4
  <2>2. (-y) \div TicksPerDay \in Nat /\ (-x) \div TicksPerDay \in Nat
    BY <1>1, <1>4
  <2> QED
    BY <1>4, <2>1, <2>2 DEF Days
<1> QED
  BY <1>2, <1>3, <1>4

LEMMA NoDayLeft == ASSUME NEW x \in Nat, Days(x) <= 0 PROVE x < TicksPerDay
  BY CertificatesAssumption DEF Days

LEMMA PastHasNoDay == ASSUME NEW x \in Int, x < 0 PROVE Days(x) <= 0
<1>1. Days(x) <= Days(0)
  BY DaysMonotone
<1>2. Days(0) = 0 /\ Days(x) \in Int
  BY DaysType, CertificatesAssumption DEF Days
<1> QED
  BY <1>1, <1>2
-----------------------------------------------------------------------------
(* Results *)

Verdict(result) ==
  result \in [verdict : {"UP", "DOWN"}, days : Nat, at : Int,
              note : {"none", "failed", "status", "no certificate", "expired", "expires", "valid"}]

ResultOK(result) ==
  /\ Verdict(result)
  /\ result.at <= now
  /\ result.note \in {"valid", "expires"} => result.days > 0

Scalars ==
  /\ now \in Nat /\ notAfter \in Nat /\ watched \in Nat /\ notifiedOn \in Nat
  /\ kept \in BOOLEAN /\ served \in BOOLEAN
  /\ reminders \subseteq Nat

LEMMA TypeParts == TypeOK <=> Scalars /\ ResultOK(https) /\ ResultOK(ssl)
  BY DEF TypeOK, Scalars, ResultOK, Verdict

LEMMA TypePartsNext == TypeOK' <=> Scalars' /\ ResultOK(https)' /\ ResultOK(ssl)'
  BY DEF TypeOK, Scalars, ResultOK, Verdict

LEMMA ThresholdType == SslThreshold \in Nat
  BY CertificatesAssumption DEF SslThreshold

LEMMA LeftType == Scalars => Left \in Int /\ Days(Left) \in Int
  BY DaysType DEF Scalars, Left

(* What checkHTTP says, and when. *)
LEMMA CheckHTTPFacts ==
  ASSUME Scalars, NEW reply, NEW dialed, NEW reused
  PROVE  /\ ResultOK(CheckHTTP(reply, dialed, reused))
         /\ CheckHTTP(reply, dialed, reused).at = now
         /\ CheckHTTP(reply, dialed, reused).note = "expired" => Left >= 0 /\ Days(Left) <= 0
         /\ CertWarning(CheckHTTP(reply, dialed, reused)) => Days(Left) <= WarnDays
         /\ CheckHTTP(reply, dialed, reused).verdict = "DOWN" <=>
              \/ reply = 0 \/ reply \notin Accepted
              \/ Left < 0 /\ ~reused
              \/ Left >= 0 /\ dialed /\ Days(Left) <= 0
         /\ Left < 0 =>
              \/ CheckHTTP(reply, dialed, reused).verdict = "DOWN"
              \/ reused /\ CheckHTTP(reply, dialed, reused).note = "no certificate"
<1>1. Left \in Int /\ Days(Left) \in Int /\ now \in Nat /\ WarnDays \in Nat
  BY LeftType, CertificatesAssumption DEF Scalars
<1>2. CASE reply = 0 \/ ~(Handshake \/ reused)
  BY <1>1, <1>2 DEF CheckHTTP, Handshake, Result, ResultOK, Verdict, CertWarning
<1>3. CASE reply # 0 /\ (Handshake \/ reused) /\ reply \notin Accepted
  BY <1>1, <1>3 DEF CheckHTTP, Handshake, Result, ResultOK, Verdict, CertWarning
<1>4. CASE reply # 0 /\ (Handshake \/ reused) /\ reply \in Accepted /\ (~dialed \/ ~Handshake)
  BY <1>1, <1>4 DEF CheckHTTP, Handshake, Result, ResultOK, Verdict, CertWarning
<1>5. CASE reply # 0 /\ Handshake /\ reply \in Accepted /\ dialed /\ Days(Left) <= 0
  BY <1>1, <1>5 DEF CheckHTTP, Handshake, Result, ResultOK, Verdict, CertWarning
<1>6. CASE reply # 0 /\ Handshake /\ reply \in Accepted /\ dialed /\ ~(Days(Left) <= 0)
  BY <1>1, <1>6 DEF CheckHTTP, Handshake, Result, ResultOK, Verdict, CertWarning
<1> QED
  BY <1>2, <1>3, <1>4, <1>5, <1>6

(* What checkSSL says, and when. *)
LEMMA CheckSSLFacts ==
  ASSUME Scalars, NEW dialed
  PROVE  /\ ResultOK(CheckSSL(dialed))
         /\ CheckSSL(dialed).at = now
         /\ CheckSSL(dialed).note = "expired" => Left >= 0 /\ Days(Left) <= 0
         /\ CheckSSL(dialed).verdict = "DOWN" <=>
              ~dialed \/ Left < 0 \/ Days(Left) <= SslThreshold
<1>1. Left \in Int /\ Days(Left) \in Int /\ now \in Nat /\ SslThreshold \in Nat
  BY LeftType, ThresholdType DEF Scalars
<1>2. CASE ~dialed \/ ~Handshake
  BY <1>1, <1>2 DEF CheckSSL, Handshake, Result, ResultOK, Verdict
<1>3. CASE dialed /\ Handshake /\ Days(Left) <= 0
  BY <1>1, <1>3 DEF CheckSSL, Handshake, Result, ResultOK, Verdict
<1>4. CASE dialed /\ Handshake /\ ~(Days(Left) <= 0) /\ Days(Left) <= SslThreshold
  BY <1>1, <1>4 DEF CheckSSL, Handshake, Result, ResultOK, Verdict
<1>5. CASE dialed /\ Handshake /\ ~(Days(Left) <= 0) /\ ~(Days(Left) <= SslThreshold)
  BY <1>1, <1>5 DEF CheckSSL, Handshake, Result, ResultOK, Verdict
<1> QED
  BY <1>2, <1>3, <1>4, <1>5
-----------------------------------------------------------------------------
LEMMA StepTypes == TypeOK /\ [Next]_vars => TypeOK'
<1> SUFFICES ASSUME Scalars, ResultOK(https), ResultOK(ssl), [Next]_vars
             PROVE  Scalars' /\ ResultOK(https)' /\ ResultOK(ssl)'
  BY TypeParts, TypePartsNext
<1>1. CASE Tick
  <2>1. now \in Nat /\ now' = now + 1 /\ now' \in Nat /\ now <= now'
    BY <1>1 DEF Tick, Scalars
  <2>2. UNCHANGED <<notAfter, https, ssl, notifiedOn, kept, served, reminders, watched>>
    BY <1>1 DEF Tick
  <2>3. ASSUME NEW result, ResultOK(result) PROVE result.at <= now'
    <3>1. result.at \in Int /\ result.at <= now
      BY <2>3 DEF ResultOK, Verdict
    <3> QED
      BY <2>1, <3>1
  <2>4. ResultOK(https)' /\ ResultOK(ssl)'
    BY <2>2, <2>3 DEF ResultOK, Verdict
  <2> QED
    BY <2>1, <2>2, <2>4 DEF Scalars
<1>2. CASE RunHTTPS
  <2>1. PICK reply \in Replies, dialed \in BOOLEAN, reused \in {FALSE, kept} :
          /\ https' = CheckHTTP(reply, dialed, reused)
          /\ kept' = (reused \/ Handshake)
          /\ served' = (served /\ reply \in Accepted /\ dialed)
    BY <1>2 DEF RunHTTPS
  <2>2. ResultOK(https)'
    BY <1>2, <2>1, CheckHTTPFacts DEF RunHTTPS, ResultOK, Verdict
  <2>3. Day(now) \in Nat
    BY CertificatesAssumption DEF Scalars, Day
  <2> QED
    BY <1>2, <2>1, <2>2, <2>3 DEF RunHTTPS, Scalars, ResultOK, Verdict
<1>3. CASE RunSSL
  <2>1. PICK dialed \in BOOLEAN :
          ssl' = CheckSSL(dialed) /\ served' = (served /\ dialed)
    BY <1>3 DEF RunSSL
  <2>2. ResultOK(ssl)'
    BY <1>3, <2>1, CheckSSLFacts DEF RunSSL, ResultOK, Verdict
  <2> QED
    BY <1>3, <2>1, <2>2 DEF RunSSL, Scalars, ResultOK, Verdict
<1>4. CASE Renew
  <2>1. PICK life \in Lifetimes : notAfter' = now + life
    BY <1>4 DEF Renew
  <2>2. notAfter' \in Nat
    BY <2>1, CertificatesAssumption DEF Scalars
  <2> QED
    BY <1>4, <2>2 DEF Renew, Scalars, ResultOK, Verdict
<1>5. CASE Restart
  BY <1>5 DEF Restart, Scalars, ResultOK, Verdict
<1>6. CASE UNCHANGED vars
  BY <1>6 DEF vars, Scalars, ResultOK, Verdict
<1> QED
  BY <1>1, <1>2, <1>3, <1>4, <1>5, <1>6 DEF Next

LEMMA InitTypes == Init => TypeOK
<1> SUFFICES ASSUME Init PROVE TypeOK
  OBVIOUS
<1>1. Scalars
  BY CertificatesAssumption DEF Init, Scalars
<1>2. ResultOK(https) /\ ResultOK(ssl)
  BY DEF Init, ResultOK, Verdict, NotChecked
<1> QED
  BY <1>1, <1>2, TypeParts

(* Every variable keeps its type, and a check that counts days counts some. *)
THEOREM TypeCorrect == Spec => []TypeOK
  BY InitTypes, StepTypes, PTL DEF Spec
-----------------------------------------------------------------------------
(* What holds of either result while its certificate is installed.          *)
LastDay(result) ==
  Current(result) /\ result.note = "expired" =>
    result.at <= notAfter /\ notAfter < result.at + TicksPerDay

(* An outage that the certificate has caused: from the time of the check on *)
(* too few days are left.                                                   *)
Caused(result, days) ==
  served /\ Current(result) /\ result.verdict = "DOWN" => Days(notAfter - result.at) <= days

CertInv ==
  /\ LastDay(https) /\ LastDay(ssl)
  /\ Caused(https, 0) /\ Caused(ssl, SslThreshold)

LEMMA InitCertInv == Init => CertInv
  BY DEF Init, CertInv, LastDay, Caused, NotChecked, Current

(* A step that touches neither a result nor its certificate.                *)
LEMMA ResultKept ==
  ASSUME NEW days, UNCHANGED <<notAfter, watched>>, served' => served
  PROVE  /\ UNCHANGED https =>
              /\ LastDay(https) => LastDay(https)'
              /\ Caused(https, days) => Caused(https, days)'
         /\ UNCHANGED ssl =>
              /\ LastDay(ssl) => LastDay(ssl)'
              /\ Caused(ssl, days) => Caused(ssl, days)'
  BY DEF LastDay, Caused, Current, Days

LEMMA NoZeroStatus == 0 \notin Accepted
  BY CertificatesAssumption DEF Accepted

LEMMA StepCertInv == TypeOK /\ CertInv /\ [Next]_vars => CertInv'
<1> SUFFICES ASSUME Scalars, ResultOK(https), ResultOK(ssl), CertInv, [Next]_vars
             PROVE  CertInv'
  BY TypeParts
<1>0. Left \in Int /\ Days(Left) \in Int /\ SslThreshold \in Nat /\ now \in Nat /\ notAfter \in Nat
  BY LeftType, ThresholdType DEF Scalars
<1>a. Left >= 0 /\ Days(Left) <= 0 => now <= notAfter /\ notAfter < now + TicksPerDay
  BY <1>0, NoDayLeft, CertificatesAssumption DEF Left
<1>b. Left < 0 => Days(Left) <= 0
  BY <1>0, PastHasNoDay
<1>1. CASE RunHTTPS
  <2>1. PICK reply \in Replies, dialed \in BOOLEAN, reused \in {FALSE, kept} :
          /\ https' = CheckHTTP(reply, dialed, reused)
          /\ kept' = (reused \/ Handshake)
          /\ served' = (served /\ reply \in Accepted /\ dialed)
    BY <1>1 DEF RunHTTPS
  <2>2. UNCHANGED <<notAfter, watched, now, ssl>> /\ (served' => served)
    BY <1>1, <2>1 DEF RunHTTPS, Scalars
  <2>3. LastDay(https)'
    BY <2>1, <2>2, <1>a, CheckHTTPFacts DEF LastDay, Current
  <2>4. Caused(https, 0)'
    <3>1. ASSUME served', https'.verdict = "DOWN" PROVE Days(Left) <= 0
      BY <3>1, <2>1, <1>b, CheckHTTPFacts, NoZeroStatus
    <3>2. https'.at = now
      BY <2>1, CheckHTTPFacts
    <3> QED
      BY <3>1, <3>2, <2>2 DEF Caused, Current, Left, Days
  <2> QED
    BY <2>2, <2>3, <2>4, ResultKept DEF CertInv, SslThreshold
<1>2. CASE RunSSL
  <2>1. PICK dialed \in BOOLEAN :
          ssl' = CheckSSL(dialed) /\ served' = (served /\ dialed)
    BY <1>2 DEF RunSSL
  <2>2. UNCHANGED <<notAfter, watched, now, https>> /\ (served' => served)
    BY <1>2, <2>1 DEF RunSSL, Scalars
  <2>3. LastDay(ssl)'
    BY <2>1, <2>2, <1>a, CheckSSLFacts DEF LastDay, Current
  <2>4. Caused(ssl, SslThreshold)'
    <3>1. ASSUME served', ssl'.verdict = "DOWN" PROVE Days(Left) <= SslThreshold
      BY <3>1, <2>1, <1>0, <1>b, CheckSSLFacts
    <3>2. ssl'.at = now
      BY <2>1, CheckSSLFacts
    <3> QED
      BY <3>1, <3>2, <2>2 DEF Caused, Current, Left, Days, SslThreshold
  <2> QED
    BY <2>2, <2>3, <2>4, ResultKept DEF CertInv
<1>3. CASE Renew
  <2>1. https.at < now /\ ssl.at < now /\ watched' = now /\ UNCHANGED <<https, ssl>>
    BY <1>3 DEF Renew
  <2>2. https.at \in Int /\ ssl.at \in Int
    BY DEF ResultOK, Verdict
  <2>3. ~Current(https)' /\ ~Current(ssl)'
    BY <1>0, <2>1, <2>2 DEF Current
  <2> QED
    BY <2>3 DEF CertInv, LastDay, Caused
<1>4. CASE Tick \/ Restart \/ UNCHANGED vars
  <2>1. UNCHANGED <<notAfter, watched, https, ssl, served>>
    BY <1>4 DEF Tick, Restart, vars
  <2> QED
    BY <2>1, ResultKept DEF CertInv, SslThreshold
<1> QED
  BY <1>1, <1>2, <1>3, <1>4 DEF Next

(* A certificate is reported as expired during its last day only: never     *)
(* earlier, and never once it has expired, contrary to the comment in       *)
(* checkHTTP and to the message.                                            *)
THEOREM ExpiredIsLastDay == Spec => []ExpiredMeansLastDay
<1>1. TypeOK /\ CertInv /\ TypeOK' /\ [Next]_vars => CertInv'
  BY StepCertInv
<1>2. CertInv => ExpiredMeansLastDay
  BY DEF CertInv, LastDay, ExpiredMeansLastDay
<1> QED
  BY InitCertInv, <1>1, <1>2, TypeCorrect, PTL DEF Spec

LEMMA OutageStays ==
  TypeOK /\ CertInv /\ [Next]_vars /\ served' =>
    /\ Current(https) /\ https.verdict = "DOWN" =>
         https'.verdict = "DOWN" \/ watched' = now' \/ Hidden(https')
    /\ Current(ssl) /\ ssl.verdict = "DOWN" => ssl'.verdict = "DOWN" \/ watched' = now'
<1> SUFFICES ASSUME Scalars, ResultOK(https), ResultOK(ssl), CertInv, [Next]_vars, served'
             PROVE  /\ Current(https) /\ https.verdict = "DOWN" =>
                         https'.verdict = "DOWN" \/ watched' = now' \/ Hidden(https')
                    /\ Current(ssl) /\ ssl.verdict = "DOWN" =>
                         ssl'.verdict = "DOWN" \/ watched' = now'
  BY TypeParts
<1>0. /\ Left \in Int /\ Days(Left) \in Int /\ SslThreshold \in Nat
      /\ now \in Nat /\ notAfter \in Nat /\ https.at \in Int /\ ssl.at \in Int
      /\ https.at <= now /\ ssl.at <= now
  BY LeftType, ThresholdType DEF Scalars, ResultOK, Verdict
<1>1. CASE RunHTTPS
  <2>1. PICK reply \in Replies, dialed \in BOOLEAN, reused \in {FALSE, kept} :
          /\ https' = CheckHTTP(reply, dialed, reused)
          /\ kept' = (reused \/ Handshake)
          /\ served' = (served /\ reply \in Accepted /\ dialed)
    BY <1>1 DEF RunHTTPS
  <2>2. served /\ dialed /\ UNCHANGED ssl
    BY <1>1, <2>1 DEF RunHTTPS, Scalars
  <2>3. ASSUME Current(https), https.verdict = "DOWN"
        PROVE  https'.verdict = "DOWN" \/ Hidden(https')
    <3>1. Days(notAfter - https.at) <= 0
      BY <2>2, <2>3 DEF CertInv, Caused
    <3>2. Days(Left) <= Days(notAfter - https.at)
      BY <1>0, DaysMonotone DEF Left
    <3>3. Days(notAfter - https.at) \in Int
      BY <1>0, DaysType
    <3>4. Days(Left) <= 0
      BY <1>0, <3>1, <3>2, <3>3
    <3>5. CASE Left >= 0
      BY <2>1, <2>2, <3>4, <3>5, CheckHTTPFacts
    <3>6. CASE Left < 0
      <4>1. https'.verdict = "DOWN" \/ (kept /\ https'.note = "no certificate")
        BY <2>1, <3>6, CheckHTTPFacts
      <4>2. notAfter < now
        BY <1>0, <3>6 DEF Left
      <4> QED
        BY <4>1, <4>2 DEF Hidden
    <3> QED
      BY <1>0, <3>5, <3>6
  <2> QED
    BY <2>2, <2>3
<1>2. CASE RunSSL
  <2>1. PICK dialed \in BOOLEAN :
          ssl' = CheckSSL(dialed) /\ served' = (served /\ dialed)
    BY <1>2 DEF RunSSL
  <2>2. served /\ dialed /\ UNCHANGED https
    BY <1>2, <2>1 DEF RunSSL, Scalars
  <2>3. ASSUME Current(ssl), ssl.verdict = "DOWN" PROVE ssl'.verdict = "DOWN"
    <3>1. Days(notAfter - ssl.at) <= SslThreshold
      BY <2>2, <2>3 DEF CertInv, Caused
    <3>2. Days(Left) <= Days(notAfter - ssl.at)
      BY <1>0, DaysMonotone DEF Left
    <3>3. Days(notAfter - ssl.at) \in Int
      BY <1>0, DaysType
    <3>4. Days(Left) <= SslThreshold
      BY <1>0, <3>1, <3>2, <3>3
    <3> QED
      BY <2>1, <3>4, CheckSSLFacts
  <2> QED
    BY <2>2, <2>3
<1>3. CASE Renew
  BY <1>3 DEF Renew
<1>4. CASE Tick \/ Restart \/ UNCHANGED vars
  BY <1>4 DEF Tick, Restart, vars
<1> QED
  BY <1>1, <1>2, <1>3, <1>4 DEF Next

(* Nothing but a new certificate ends an outage that the old one has caused,*)
(* or hides that of an HTTPS monitor, except the kept connection of Hidden. *)
THEOREM RenewalOnly == Spec => OnlyRenewalRecovers
<1>1. TypeOK /\ CertInv /\ TypeOK' /\ [Next]_vars => CertInv'
  BY StepCertInv
<1>2. TypeOK /\ CertInv /\ [Next]_vars =>
        [served' =>
           /\ Current(https) /\ https.verdict = "DOWN" =>
                https'.verdict = "DOWN" \/ watched' = now' \/ Hidden(https')
           /\ Current(ssl) /\ ssl.verdict = "DOWN" => ssl'.verdict = "DOWN" \/ watched' = now']_vars
  BY OutageStays
<1> QED
  BY InitCertInv, <1>1, <1>2, TypeCorrect, PTL DEF Spec, OnlyRenewalRecovers
-----------------------------------------------------------------------------
(* A warning is about few days, and an SSL monitor that is up about many.   *)
FewDays == Current(https) /\ CertWarning(https) => Days(notAfter - https.at) <= WarnDays

ManyDays == Current(ssl) /\ ssl.verdict = "UP" => Days(notAfter - ssl.at) > SslThreshold

WarnInv == FewDays /\ ManyDays

LEMMA InitWarnInv == Init => WarnInv
  BY DEF Init, WarnInv, FewDays, ManyDays, NotChecked, Current

LEMMA StepWarnInv == TypeOK /\ WarnInv /\ [Next]_vars => WarnInv'
<1> SUFFICES ASSUME Scalars, ResultOK(https), ResultOK(ssl), WarnInv, [Next]_vars
             PROVE  WarnInv'
  BY TypeParts
<1>0. Left \in Int /\ Days(Left) \in Int /\ SslThreshold \in Nat /\ now \in Nat
  BY LeftType, ThresholdType DEF Scalars
<1>1. CASE RunHTTPS
  <2>1. PICK reply \in Replies, dialed \in BOOLEAN, reused \in {FALSE, kept} :
          https' = CheckHTTP(reply, dialed, reused)
    BY <1>1 DEF RunHTTPS
  <2>2. UNCHANGED <<notAfter, watched, ssl>>
    BY <1>1 DEF RunHTTPS
  <2>3. https'.at = now /\ (CertWarning(https') => Days(Left) <= WarnDays)
    BY <2>1, CheckHTTPFacts
  <2> QED
    BY <2>2, <2>3 DEF WarnInv, FewDays, ManyDays, Current, CertWarning, Left, Days, SslThreshold
<1>2. CASE RunSSL
  <2>1. PICK dialed \in BOOLEAN : ssl' = CheckSSL(dialed)
    BY <1>2 DEF RunSSL
  <2>2. UNCHANGED <<notAfter, watched, https>>
    BY <1>2 DEF RunSSL
  <2>3. ssl'.at = now /\ (ssl'.verdict = "UP" => Days(Left) > SslThreshold)
    BY <2>1, <1>0, CheckSSLFacts
  <2> QED
    BY <2>2, <2>3 DEF WarnInv, FewDays, ManyDays, Current, CertWarning, Left, Days, SslThreshold
<1>3. CASE Renew
  <2>1. https.at < now /\ ssl.at < now /\ watched' = now /\ UNCHANGED <<https, ssl>>
    BY <1>3 DEF Renew
  <2>2. https.at \in Int /\ ssl.at \in Int
    BY DEF ResultOK, Verdict
  <2>3. ~Current(https)' /\ ~Current(ssl)'
    BY <1>0, <2>1, <2>2 DEF Current
  <2> QED
    BY <2>3 DEF WarnInv, FewDays, ManyDays
<1>4. CASE Tick \/ Restart \/ UNCHANGED vars
  <2>1. UNCHANGED <<notAfter, watched, https, ssl>>
    BY <1>4 DEF Tick, Restart, vars
  <2> QED
    BY <2>1 DEF WarnInv, FewDays, ManyDays, Current, CertWarning, Days, SslThreshold
<1> QED
  BY <1>1, <1>2, <1>3, <1>4 DEF Next

(* Checked at the same time or later, the SSL monitor is down whenever the  *)
(* HTTPS monitor warns of the same certificate.                             *)
THEOREM SslWarnsEarlier == Spec => []SslWarnsFirst
<1>1. TypeOK /\ WarnInv => SslWarnsFirst
  <2> SUFFICES ASSUME Scalars, ResultOK(https), ResultOK(ssl), WarnInv,
                      WarnDaysExpiry = 0 \/ WarnDaysExpiry >= WarnDays,
                      Current(https), CertWarning(https), Current(ssl), ssl.at >= https.at
               PROVE  ssl.verdict = "DOWN"
    BY TypeParts DEF SslWarnsFirst
  <2>1. /\ https.at \in Int /\ ssl.at \in Int /\ notAfter \in Nat
        /\ ssl.verdict \in {"UP", "DOWN"}
    BY DEF ResultOK, Verdict, Scalars
  <2>2. WarnDays <= SslThreshold /\ WarnDays \in Nat /\ SslThreshold \in Nat
    BY CertificatesAssumption DEF SslThreshold
  <2>3. Days(notAfter - ssl.at) <= Days(notAfter - https.at)
    BY <2>1, DaysMonotone
  <2>4. Days(notAfter - ssl.at) \in Int /\ Days(notAfter - https.at) \in Int
    BY <2>1, DaysType
  <2>5. ~(Days(notAfter - ssl.at) > SslThreshold)
    BY <2>2, <2>3, <2>4 DEF WarnInv, FewDays
  <2> QED
    BY <2>1, <2>5 DEF WarnInv, ManyDays
<1> QED
  BY InitWarnInv, StepWarnInv, <1>1, TypeCorrect, PTL DEF Spec
-----------------------------------------------------------------------------
LEMMA ConstantTypes == Gap \in Nat \ {0} /\ TicksPerDay \in Nat \ {0} /\ WarnDays \in Nat
  BY CertificatesAssumption

(* Calendar days: day d has the ticks from (d - 1) * TicksPerDay on.        *)
LEMMA DayBounds ==
  ASSUME NEW t \in Int
  PROVE  /\ Day(t) \in Int
         /\ (Day(t) - 1) * TicksPerDay <= t
         /\ t < Day(t) * TicksPerDay
<1>1. t \div TicksPerDay \in Int /\ TicksPerDay \in Nat \ {0}
  BY CertificatesAssumption
<1>2. TicksPerDay * (t \div TicksPerDay) <= t /\ t < TicksPerDay * (t \div TicksPerDay) + TicksPerDay
  BY CertificatesAssumption
<1> QED
  BY <1>1, <1>2 DEF Day

LEMMA Times ==
  ASSUME NEW a \in Int, NEW b \in Int
  PROVE  /\ a * TicksPerDay \in Int
         /\ (a + 1) * TicksPerDay = a * TicksPerDay + TicksPerDay
         /\ a <= b => a * TicksPerDay <= b * TicksPerDay
<1>1. TicksPerDay \in Nat \ {0}
  BY CertificatesAssumption
<1>2. a <= b => (b - a) * TicksPerDay >= 0
  BY <1>1
<1>3. (b - a) * TicksPerDay = b * TicksPerDay - a * TicksPerDay
  BY <1>1
<1> QED
  BY <1>1, <1>2, <1>3

(* A tick before the one with which a day begins is of an earlier day, the  *)
(* others are not.                                                          *)
LEMMA DayOrder ==
  ASSUME NEW t \in Int, NEW d \in Int
  PROVE  Day(t) < d <=> t < (d - 1) * TicksPerDay
<1>1. /\ Day(t) \in Int /\ (Day(t) - 1) * TicksPerDay <= t /\ t < Day(t) * TicksPerDay
  BY DayBounds
<1>2. CASE Day(t) < d
  <2>1. Day(t) * TicksPerDay <= (d - 1) * TicksPerDay
    BY <1>1, <1>2, Times
  <2> QED
    BY <1>1, <1>2, <2>1, Times
<1>3. CASE ~(Day(t) < d)
  <2>1. (d - 1) * TicksPerDay <= (Day(t) - 1) * TicksPerDay
    BY <1>1, <1>3, Times
  <2>2. (d - 1) * TicksPerDay \in Int /\ (Day(t) - 1) * TicksPerDay \in Int
    BY <1>1, Times
  <2> QED
    BY <1>1, <1>3, <2>1, <2>2
<1> QED
  BY <1>2, <1>3

(* The days before the last one of a certificate that is valid until end:   *)
(* as many as WarnDays, ...                                                 *)
DaysBefore(end) == (Day(end) - WarnDays)..(Day(end) - 1)

WarnedDays == DaysBefore(notAfter)

(* ... and a check on one of them finds at most WarnDays days left.         *)
LEMMA WarnedTicks ==
  ASSUME NEW end \in Nat, NEW d \in DaysBefore(end)
  PROVE  /\ end - (WarnDays + 1) * TicksPerDay < (d - 1) * TicksPerDay
         /\ d * TicksPerDay <= end
<1> DEFINE last == Day(end)
<1>1. /\ WarnDays \in Nat /\ d \in Int
      /\ last - WarnDays <= d /\ d <= last - 1
      /\ last \in Int /\ (last - 1) * TicksPerDay <= end /\ end < last * TicksPerDay
  BY DayBounds, CertificatesAssumption DEF DaysBefore
<1> HIDE DEF last
<1>2. d * TicksPerDay <= (last - 1) * TicksPerDay /\ d * TicksPerDay \in Int
      /\ (last - 1) * TicksPerDay \in Int
  BY <1>1, Times
<1>3. (last - WarnDays - 1) * TicksPerDay <= (d - 1) * TicksPerDay
  BY <1>1, Times
<1>4. (last - WarnDays - 1) * TicksPerDay = last * TicksPerDay - (WarnDays + 1) * TicksPerDay
  BY <1>1, CertificatesAssumption
<1>5. /\ (d - 1) * TicksPerDay \in Int /\ last * TicksPerDay \in Int
      /\ (WarnDays + 1) * TicksPerDay \in Int
  BY <1>1, Times
<1> QED
  BY <1>1, <1>2, <1>3, <1>4, <1>5

LEMMA FewDaysLeft ==
  ASSUME NEW x \in Nat, x < (WarnDays + 1) * TicksPerDay
  PROVE  Days(x) <= WarnDays
<1>1. /\ WarnDays \in Nat /\ TicksPerDay \in Nat \ {0} /\ x \div TicksPerDay \in Int
      /\ TicksPerDay * (x \div TicksPerDay) <= x
  BY CertificatesAssumption
<1>2. CASE x \div TicksPerDay >= WarnDays + 1
  <2>1. (WarnDays + 1) * TicksPerDay <= (x \div TicksPerDay) * TicksPerDay
    BY <1>1, <1>2, Times
  <2>2. (WarnDays + 1) * TicksPerDay \in Int /\ (x \div TicksPerDay) * TicksPerDay \in Int
    BY <1>1, Times
  <2> QED
    BY <1>1, <2>1, <2>2
<1> QED
  BY <1>1, <1>2 DEF Days
-----------------------------------------------------------------------------
(* Checks come at least every Gap ticks, the day of the last reminder is    *)
(* not after the last check's, and every day of WarnedDays that the checks  *)
(* have reached has its reminder.                                           *)
Paced == https.at >= -1 /\ now - https.at <= Gap /\ notifiedOn <= Day(https.at)

EarlyEnough == notAfter >= watched + (WarnDays + 1) * TicksPerDay

ReminderInv ==
  /\ Paced
  /\ IsFiniteSet(reminders)
  /\ served /\ EarlyEnough =>
       \A d \in WarnedDays : d <= Day(https.at) => d \in reminders

(* These days of a new certificate are all after the last check.            *)
LEMMA NoneReached ==
  ASSUME NEW end \in Nat, NEW start \in Nat, end >= start + (WarnDays + 1) * TicksPerDay,
         NEW t \in Int, t < start, NEW d \in DaysBefore(end)
  PROVE  Day(t) < d
<1>1. d \in Int /\ end - (WarnDays + 1) * TicksPerDay < (d - 1) * TicksPerDay
  BY WarnedTicks, DayBounds, CertificatesAssumption DEF DaysBefore
<1>2. (WarnDays + 1) * TicksPerDay \in Int /\ (d - 1) * TicksPerDay \in Int
  BY <1>1, Times, CertificatesAssumption
<1> QED
  BY <1>1, <1>2, DayOrder

LEMMA InitReminderInv == Init => ReminderInv
<1> SUFFICES ASSUME Init PROVE ReminderInv
  OBVIOUS
<1>1. Scalars
  BY InitTypes, TypeParts
<1>2. https.at = -1 /\ watched = 0 /\ now = 0 /\ notifiedOn = 0 /\ reminders = {}
  BY DEF Init, NotChecked
<1>3. Day(-1) \in Int /\ ~(Day(-1) < 0)
  BY DayBounds, DayOrder, CertificatesAssumption
<1>4. Paced
  BY <1>2, <1>3, CertificatesAssumption DEF Paced
<1>5. ASSUME EarlyEnough, NEW d \in WarnedDays PROVE ~(d <= Day(https.at))
  <2>1. Day(https.at) < d
    BY <1>1, <1>2, <1>5, NoneReached DEF EarlyEnough, WarnedDays, Scalars
  <2> QED
    BY <1>2, <1>3, <2>1, DayBounds, CertificatesAssumption DEF WarnedDays, DaysBefore, Scalars
<1> QED
  BY <1>2, <1>4, <1>5, FS_EmptySet DEF ReminderInv

(* A check on one of WarnedDays that got its answers warns.                 *)
LEMMA CheckWarns ==
  ASSUME Scalars, NEW d \in WarnedDays, d = Day(now),
         NEW reply \in Accepted, NEW reused
  PROVE  CertWarning(CheckHTTP(reply, TRUE, reused))
<1>1. /\ now \in Nat /\ notAfter \in Nat /\ d \in Int /\ WarnDays \in Nat
      /\ (d - 1) * TicksPerDay <= now /\ now < d * TicksPerDay
  BY DayBounds, CertificatesAssumption DEF Scalars
<1>2. /\ (d - 1) * TicksPerDay \in Int /\ d * TicksPerDay \in Int
      /\ (WarnDays + 1) * TicksPerDay \in Int
  BY <1>1, Times
<1>3. /\ notAfter - (WarnDays + 1) * TicksPerDay < (d - 1) * TicksPerDay
      /\ d * TicksPerDay <= notAfter
  BY <1>1, WarnedTicks DEF WarnedDays
<1>4. Left \in Nat /\ Left < (WarnDays + 1) * TicksPerDay
  BY <1>1, <1>2, <1>3 DEF Left
<1>5. Days(Left) <= WarnDays /\ Days(Left) \in Int
  BY <1>4, FewDaysLeft, DaysType
<1>6. reply # 0 /\ Handshake
  BY <1>4, NoZeroStatus DEF Handshake
<1> QED
  BY <1>5, <1>6 DEF CheckHTTP, CertWarning, Result

LEMMA StepReminderInv ==
  ASSUME Gap <= TicksPerDay
  PROVE  TypeOK /\ ReminderInv /\ [Next]_vars => ReminderInv'
<1> SUFFICES ASSUME Scalars, ResultOK(https), Scalars', ReminderInv, [Next]_vars
             PROVE  ReminderInv'
  BY TypeParts, TypePartsNext, StepTypes
<1>0. /\ now \in Nat /\ notAfter \in Nat /\ watched \in Nat /\ notifiedOn \in Nat
      /\ https.at \in Int /\ https.at <= now /\ https.at >= -1
      /\ Gap \in Nat \ {0} /\ TicksPerDay \in Nat \ {0} /\ WarnDays \in Nat
  BY ConstantTypes DEF Scalars, ResultOK, Verdict, ReminderInv, Paced
<1>a. /\ Day(https.at) \in Int /\ Day(now) \in Int
      /\ Day(notAfter) \in Int /\ WarnedDays \subseteq Int
  BY <1>0, DayBounds DEF WarnedDays, DaysBefore
<1>1. CASE RunHTTPS
  <2>1. PICK reply \in Replies, dialed \in BOOLEAN, reused \in {FALSE, kept} :
          /\ https' = CheckHTTP(reply, dialed, reused)
          /\ kept' = (reused \/ Handshake)
          /\ served' = (served /\ reply \in Accepted /\ dialed)
    BY <1>1 DEF RunHTTPS
  <2>2. UNCHANGED <<notAfter, watched, now>> /\ https'.at = now /\ https.at < now
    BY <1>1, <2>1, CheckHTTPFacts DEF RunHTTPS
  <2>3. WarnedDays' = WarnedDays /\ EarlyEnough' = EarlyEnough /\ Day(https.at)' = Day(now)
    BY <2>2 DEF WarnedDays, DaysBefore, EarlyEnough, Day
  <2>4. /\ notifiedOn' = Day(now) \/ notifiedOn' = notifiedOn
        /\ reminders' = reminders \cup {Day(now)} \/ reminders' = reminders
        /\ CertWarning(https') /\ notifiedOn < Day(now) => Day(now) \in reminders'
    BY <1>1 DEF RunHTTPS
  <2>5. Day(https.at) <= Day(now)
    <3>1. (Day(https.at) - 1) * TicksPerDay <= https.at /\ (Day(https.at) - 1) * TicksPerDay \in Int
      BY <1>0, <1>a, DayBounds, Times
    <3>2. ~(Day(now) < Day(https.at))
      BY <1>0, <1>a, <3>1, DayOrder
    <3> QED
      BY <1>0, <1>a, <3>2
  <2>6. Paced'
    BY <1>0, <1>a, <2>2, <2>3, <2>4, <2>5 DEF Paced, ReminderInv
  <2>7. IsFiniteSet(reminders)'
    BY <2>4, FS_AddElement DEF ReminderInv
  <2>8. ASSUME served', EarlyEnough, NEW d \in WarnedDays, d <= Day(now) PROVE d \in reminders'
    <3>1. served /\ reply \in Accepted /\ dialed = TRUE
      BY <2>1, <2>8 DEF Scalars
    <3>2. CASE d <= Day(https.at)
      BY <2>4, <2>8, <3>1, <3>2 DEF ReminderInv
    <3>3. CASE Day(https.at) < d
      <4>1. https.at < (d - 1) * TicksPerDay /\ now - https.at <= Gap
        BY <1>0, <1>a, <3>3, DayOrder DEF ReminderInv, Paced
      <4>2. (d - 1) * TicksPerDay \in Int /\ (d - 1 + 1) * TicksPerDay = (d - 1) * TicksPerDay + TicksPerDay
        BY <1>0, <1>a, Times
      <4>3. d + 1 - 1 = d /\ d - 1 + 1 = d /\ d \in Int
        BY <1>0, <1>a
      <4>4. now < (d + 1 - 1) * TicksPerDay
        BY <1>0, <1>a, <4>1, <4>2, <4>3
      <4>5. Day(now) < d + 1
        BY <1>0, <1>a, <4>3, <4>4, DayOrder
      <4>6. d = Day(now)
        BY <1>0, <1>a, <2>8, <4>3, <4>5
      <4>7. CertWarning(https')
        BY <2>1, <3>1, <4>6, CheckWarns
      <4>8. notifiedOn < Day(now)
        BY <1>0, <1>a, <3>3, <4>6 DEF ReminderInv, Paced
      <4> QED
        BY <2>4, <4>6, <4>7, <4>8
    <3> QED
      BY <1>0, <1>a, <3>2, <3>3
  <2> QED
    BY <2>3, <2>6, <2>7, <2>8 DEF ReminderInv
<1>2. CASE Renew
  <2>1. /\ https.at < now /\ watched' = now /\ reminders' = {}
        /\ UNCHANGED <<now, https, notifiedOn>>
    BY <1>2 DEF Renew
  <2>2. Paced'
    BY <2>1 DEF ReminderInv, Paced, Day
  <2>3. ASSUME EarlyEnough', NEW d \in WarnedDays' PROVE ~(d <= Day(https.at)')
    <3>1. Day(https.at)' = Day(https.at) /\ WarnedDays' = DaysBefore(notAfter')
      BY <2>1 DEF Day, WarnedDays, DaysBefore
    <3>2. /\ notAfter' \in Nat /\ watched' \in Nat /\ https.at < watched'
          /\ notAfter' >= watched' + (WarnDays + 1) * TicksPerDay
      BY <2>1, <2>3 DEF Scalars, EarlyEnough
    <3>3. Day(https.at) < d
      BY <1>0, <1>a, <2>3, <3>1, <3>2, NoneReached
    <3>4. d \in Int
      BY <2>3, <3>1, <3>2, DayBounds, CertificatesAssumption DEF DaysBefore
    <3> QED
      BY <1>a, <3>1, <3>3, <3>4
  <2> QED
    BY <2>1, <2>2, <2>3, FS_EmptySet DEF ReminderInv
<1>3. CASE Tick
  <2>1. /\ now' = now + 1 /\ now - https.at < Gap
        /\ UNCHANGED <<https, notifiedOn, served, notAfter, watched, reminders>>
    BY <1>3 DEF Tick
  <2>2. Paced'
    BY <1>0, <1>a, <2>1 DEF ReminderInv, Paced, Day
  <2> QED
    BY <2>1, <2>2 DEF ReminderInv, EarlyEnough, WarnedDays, DaysBefore, Day
<1>4. CASE RunSSL
  <2>1. /\ served' => served
        /\ UNCHANGED <<now, https, notifiedOn, notAfter, watched, reminders>>
    BY <1>4 DEF RunSSL, Scalars
  <2> QED
    BY <2>1 DEF ReminderInv, EarlyEnough, WarnedDays, DaysBefore, Day, Paced
<1>5. CASE Restart
  <2>1. notifiedOn' = 0 /\ UNCHANGED <<now, https, served, notAfter, watched, reminders>>
    BY <1>5 DEF Restart
  <2>2. 0 <= Day(https.at)
    BY <1>0, <1>a DEF ReminderInv, Paced
  <2>3. Paced'
    BY <2>1, <2>2 DEF ReminderInv, Paced, Day
  <2> QED
    BY <2>1, <2>3 DEF ReminderInv, EarlyEnough, WarnedDays, DaysBefore, Day
<1>6. CASE UNCHANGED vars
  BY <1>6 DEF vars, ReminderInv, EarlyEnough, WarnedDays, DaysBefore, Day, Paced
<1> QED
  BY <1>1, <1>2, <1>3, <1>4, <1>5, <1>6 DEF Next

(* Where monitors are checked at least daily, nobody whose certificate was  *)
(* installed early enough sees the outage without WarnDays days of          *)
(* reminders before, whenever the process restarts.                         *)
THEOREM RemindersPrecedeOutage ==
  ASSUME Gap <= TicksPerDay PROVE Spec => []RemindedInTime
<1>1. TypeOK /\ ReminderInv /\ [Next]_vars => ReminderInv'
  BY StepReminderInv
<1>2. TypeOK /\ CertInv /\ [Next]_vars => CertInv'
  BY StepCertInv
<1>3. TypeOK /\ CertInv /\ ReminderInv => RemindedInTime
  <2> SUFFICES ASSUME Scalars, ResultOK(https), CertInv, ReminderInv,
                      Current(https), https.verdict = "DOWN", served, EarlyEnough
               PROVE  Cardinality(reminders) >= WarnDays
    BY TypeParts DEF RemindedInTime, EarlyEnough
  <2>0. https.at \in Int /\ notAfter \in Nat /\ WarnDays \in Nat /\ TicksPerDay \in Nat \ {0}
    BY ConstantTypes DEF Scalars, ResultOK, Verdict
  <2>1. /\ https.at \in Int /\ notAfter \in Nat /\ WarnDays \in Nat /\ TicksPerDay \in Nat \ {0}
        /\ Day(notAfter) \in Int /\ Day(https.at) \in Int
        /\ (Day(notAfter) - 1) * TicksPerDay <= notAfter
    BY <2>0, DayBounds
  <2>2. notAfter - https.at < TicksPerDay
    <3>1. Days(notAfter - https.at) <= 0
      BY DEF CertInv, Caused
    <3> QED
      BY <2>1, <3>1, NoDayLeft
  <2>3. ~(Day(https.at) < Day(notAfter) - 1)
    <3>1. /\ (Day(notAfter) - 2) * TicksPerDay \in Int
          /\ (Day(notAfter) - 2 + 1) * TicksPerDay = (Day(notAfter) - 2) * TicksPerDay + TicksPerDay
      BY <2>1, Times
    <3>2. Day(notAfter) - 2 + 1 = Day(notAfter) - 1 /\ Day(notAfter) - 1 - 1 = Day(notAfter) - 2
      BY <2>1
    <3>3. ~(https.at < (Day(notAfter) - 1 - 1) * TicksPerDay)
      BY <2>1, <2>2, <3>1, <3>2
    <3> QED
      BY <2>1, <3>3, DayOrder
  <2>4. WarnedDays \subseteq reminders
    BY <2>1, <2>3 DEF ReminderInv, WarnedDays, DaysBefore
  <2>5. Cardinality(WarnedDays) = WarnDays
    BY <2>1, FS_Interval DEF WarnedDays, DaysBefore
  <2>6. Cardinality(WarnedDays) <= Cardinality(reminders) /\ Cardinality(reminders) \in Nat
    BY <2>4, FS_Subset, FS_CardinalityType DEF ReminderInv
  <2> QED
    BY <2>1, <2>5, <2>6
<1> QED
  BY InitReminderInv, InitCertInv, <1>1, <1>2, <1>3, TypeCorrect, PTL DEF Spec
=============================================================================
