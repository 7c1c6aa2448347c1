---------------------------- MODULE SetupProofs ----------------------------
(* Theorems about Setup, for any number of tabs, names and databases. *)
EXTENDS Setup, TLAPS

(* The row that a step writes, and the ones it leaves alone. *)
LEMMA WithRowFacts ==
  ASSUME users \in [Databases -> [Names -> Rows]],
         NEW d \in Databases, NEW n \in Names, NEW row \in Rows
  PROVE  /\ WithRow(d, n, row) \in [Databases -> [Names -> Rows]]
         /\ WithRow(d, n, row)[d][n] = row
         /\ \A e \in Databases, k \in Names :
              ~(e = d /\ k = n) => WithRow(d, n, row)[e][k] = users[e][k]
  BY DEF WithRow

LEMMA NewRowType ==
  ASSUME NEW role \in {"admin", "user"}, NEW origin \in {"wizard", "start", "blind", "handler"}
  PROVE  NewRow(role, origin) \in Rows
  BY DEF NewRow, Rows

(* What Goes does to the tabs. *)
LEMMA GoesFacts ==
  ASSUME wizard \in [Tabs -> TabStates], NEW t \in Tabs,
         NEW place \in {"form", "create", "config", "fill", "answer", "login"},
         Goes(t, place)
  PROVE  /\ wizard' \in [Tabs -> TabStates]
         /\ wizard'[t] = [wizard[t] EXCEPT !.at = place]
         /\ \A u \in Tabs : u # t => wizard'[u] = wizard[u]
  BY DEF Goes, TabStates

(* What GoesInFile does to them. *)
LEMMA GoesInFileFacts ==
  ASSUME wizard \in [Tabs -> TabStates], NEW t \in Tabs,
         NEW place \in {"form", "create", "config", "fill", "answer", "login"},
         GoesInFile(t, place)
  PROVE  /\ wizard' \in [Tabs -> TabStates]
         /\ wizard'[t] = [wizard[t] EXCEPT !.at = place]
         /\ \A u \in Tabs : u # t =>
              /\ wizard'[u].at = wizard[u].at /\ wizard'[u].name = wizard[u].name
              /\ wizard'[u].db = wizard[u].db
              /\ wizard[u].at # "fill" => wizard'[u] = wizard[u]
<1>1. ASSUME NEW u \in Tabs PROVE wizard[u] \in TabStates
  OBVIOUS
<1> QED
  BY <1>1 DEF GoesInFile, TabStates

LEMMA AtFormType == AtForm \in TabStates
  BY SetupAssumption DEF AtForm, TabStates
-----------------------------------------------------------------------------
LEMMA EndType == TypeOK /\ End => TypeOK'
<1> SUFFICES ASSUME TypeOK, End PROVE TypeOK'
  OBVIOUS
<1>1. wizard' \in [Tabs -> TabStates]
  BY AtFormType DEF TypeOK, End
<1> QED
  BY <1>1, SetupAssumption DEF TypeOK, End

LEMMA StartType == TypeOK /\ Start => TypeOK'
<1> SUFFICES ASSUME TypeOK, Start PROVE TypeOK'
  OBVIOUS
<1>1. CASE StartWizard
  BY <1>1, SetupAssumption DEF StartWizard, TypeOK
<1>2. CASE ConfigFails
  BY <1>2 DEF ConfigFails, StartFails, TypeOK
<1>3. CASE ConnectFails
  BY <1>3 DEF ConnectFails, StartFails, TypeOK
<1>4. ASSUME NEW d \in Databases, StartNormal(d) PROVE TypeOK'
  <2>1. PICK found \in Counted(d) :
          IF found
            THEN users' = users
            ELSE /\ users[d][DefaultAdmin].life = "absent"
                 /\ users' = WithRow(d, DefaultAdmin,
                               NewRow("admin", IF HasAdmin(d) THEN "blind" ELSE "start"))
    BY <1>4 DEF StartNormal
  <2>2. NewRow("admin", IF HasAdmin(d) THEN "blind" ELSE "start") \in Rows
    BY NewRowType
  <2>3. users' \in [Databases -> [Names -> Rows]]
    BY <2>1, <2>2, WithRowFacts, SetupAssumption DEF TypeOK
  <2> QED
    BY <1>4, <2>3, SetupAssumption DEF StartNormal, TypeOK
<1>5. ASSUME NEW d \in Databases, SeedFails(d) PROVE TypeOK'
  BY <1>5 DEF SeedFails, StartFails, TypeOK
<1> QED
  BY <1>1, <1>2, <1>3, <1>4, <1>5 DEF Start

LEMMA CompleteType == \A t \in Tabs : TypeOK /\ Complete(t) => TypeOK'
<1> SUFFICES ASSUME NEW t \in Tabs, TypeOK, Complete(t) PROVE TypeOK'
  OBVIOUS
<1> USE DEF WizardFrame
<1>1. CASE CreateAdmin(t)
  <2>1. wizard[t].name \in Names /\ wizard[t].db \in Databases
    BY DEF TypeOK, TabStates
  <2>2. wizard' \in [Tabs -> TabStates]
    BY <1>1, GoesFacts DEF CreateAdmin, TypeOK
  <2>3. users' \in [Databases -> [Names -> Rows]]
    BY <1>1, <2>1, WithRowFacts, NewRowType DEF CreateAdmin, TypeOK
  <2> QED
    BY <1>1, <2>2, <2>3 DEF CreateAdmin, TypeOK
<1>2. CASE OpenConfig(t)
  BY <1>2, GoesInFileFacts DEF OpenConfig, TypeOK
<1>3. CASE FillConfig(t)
  <2>1. wizard' \in [Tabs -> TabStates]
    BY <1>3, GoesInFileFacts DEF FillConfig, TypeOK
  <2>2. file' \in Databases \cup {"none", "partial", "garbled"}
    BY <1>3 DEF FillConfig, Readings, TypeOK, TabStates
  <2> QED
    BY <1>3, <2>1, <2>2 DEF FillConfig, TypeOK
<1>4. CASE WizardFails(t)
  BY <1>4, GoesFacts, GoesInFileFacts DEF WizardFails, TypeOK
<1>5. CASE Answer(t)
  BY <1>5, GoesFacts DEF Answer, TypeOK
<1> QED
  BY <1>1, <1>2, <1>3, <1>4, <1>5 DEF Complete

LEMMA UsersType ==
  ASSUME TypeOK, NEW n \in Names, NEW role \in {"admin", "user"},
         CreateUser(n, role) \/ UpdateUser(n, role) \/ DeleteUser(n)
  PROVE  TypeOK'
<1> USE DEF UsersFrame
<1>1. serving \in Databases
  BY DEF TypeOK, CreateUser, UpdateUser, DeleteUser
<1>2. users[serving][n] \in Rows
  BY <1>1 DEF TypeOK
<1>3. CASE CreateUser(n, role)
  BY <1>1, <1>3, WithRowFacts, NewRowType DEF CreateUser, TypeOK
<1>4. CASE UpdateUser(n, role)
  <2>1. [users[serving][n] EXCEPT !.role = role, !.changed = users[serving][n].changed \/ role = "user"] \in Rows
    BY <1>2 DEF Rows
  <2> QED
    BY <1>1, <1>4, <2>1, WithRowFacts DEF UpdateUser, TypeOK
<1>5. CASE DeleteUser(n)
  <2>1. [users[serving][n] EXCEPT !.life = "deleted", !.changed = TRUE] \in Rows
    BY <1>2 DEF Rows
  <2> QED
    BY <1>1, <1>5, <2>1, WithRowFacts DEF DeleteUser, TypeOK
<1> QED
  BY <1>3, <1>4, <1>5

LEMMA InitType == Init => TypeOK
<1> SUFFICES ASSUME Init PROVE TypeOK
  OBVIOUS
<1>1. NoRow \in Rows
  BY DEF NoRow, Rows
<1>2. users \in [Databases -> [Names -> Rows]]
  BY <1>1 DEF Init
<1>3. wizard \in [Tabs -> TabStates]
  BY AtFormType DEF Init
<1> QED
  BY <1>2, <1>3, SetupAssumption DEF Init, TypeOK

(* Every variable keeps its type. *)
THEOREM TypeCorrect == Spec => []TypeOK
<1>1. Init => TypeOK
  BY InitType
<1>2. TypeOK /\ [Next]_vars => TypeOK'
  <2> SUFFICES ASSUME TypeOK, [Next]_vars PROVE TypeOK'
    OBVIOUS
  <2>1. CASE Start
    BY <2>1, StartType
  <2>2. CASE Kill
    BY <2>2, EndType DEF Kill
  <2>3. ASSUME NEW t \in Tabs, Complete(t) PROVE TypeOK'
    BY <2>3, CompleteType
  <2>4. ASSUME NEW t \in Tabs, NEW n \in Names, NEW d \in Databases, Submit(t, n, d)
        PROVE TypeOK'
    BY <2>4 DEF Submit, WizardFrame, TypeOK, TabStates
  <2>5. CASE SignalSetupDone
    BY <2>5 DEF SignalSetupDone, TypeOK
  <2>6. CASE LeaveSetup
    BY <2>6, EndType DEF LeaveSetup
  <2>7. ASSUME NEW n \in Names, NEW role \in {"admin", "user"},
               CreateUser(n, role) \/ UpdateUser(n, role) \/ DeleteUser(n)
        PROVE TypeOK'
    BY <2>7, UsersType
  <2>8. CASE UNCHANGED vars
    BY <2>8 DEF vars, TypeOK
  <2> QED
    BY <2>1, <2>2, <2>3, <2>4, <2>5, <2>6, <2>7, <2>8 DEF Next
<1> QED
  BY <1>1, <1>2, PTL DEF Spec
-----------------------------------------------------------------------------
(* What a step can do to a row of users: insert it, or change it without    *)
(* touching its origin; what is unchanged by handlers stays a live          *)
(* administrator's row.                                                     *)
RowStep(r, q) ==
  \/ q = r
  \/ /\ r.life = "absent" /\ q.life = "live"
     /\ q.origin \in {"wizard", "start", "blind", "handler"}
     /\ q.origin = "wizard" => q.role = "admin"
  \/ /\ r.life = "live" /\ q.life # "absent" /\ q.origin = r.origin
     /\ r.changed => q.changed
     /\ ~q.changed => q.life = "live" /\ q.role = "admin"

RowSteps == \A d \in Databases, n \in Names : RowStep(users[d][n], users'[d][n])

LEMMA WriteStep ==
  ASSUME users \in [Databases -> [Names -> Rows]],
         NEW d \in Databases, NEW n \in Names, NEW row \in Rows,
         RowStep(users[d][n], row), users' = WithRow(d, n, row)
  PROVE  RowSteps
<1> SUFFICES ASSUME NEW e \in Databases, NEW k \in Names
             PROVE  RowStep(users[e][k], users'[e][k])
  BY DEF RowSteps
<1>1. CASE e = d /\ k = n
  BY <1>1, WithRowFacts
<1>2. CASE ~(e = d /\ k = n)
  <2>1. CASE e # d
    BY <2>1 DEF WithRow, RowStep
  <2>2. CASE e = d /\ k # n
    BY <2>2 DEF WithRow, RowStep
  <2> QED
    BY <1>2, <2>1, <2>2
<1> QED
  BY <1>1, <1>2

LEMMA InsertStep ==
  ASSUME users \in [Databases -> [Names -> Rows]],
         NEW d \in Databases, NEW n \in Names, users[d][n].life = "absent",
         NEW role \in {"admin", "user"}, NEW origin \in {"wizard", "start", "blind", "handler"},
         origin = "wizard" => role = "admin",
         users' = WithRow(d, n, NewRow(role, origin))
  PROVE  RowSteps
<1>1. NewRow(role, origin) \in Rows
  BY NewRowType
<1>2. RowStep(users[d][n], NewRow(role, origin))
  BY DEF RowStep, NewRow
<1> QED
  BY <1>1, <1>2, WriteStep

LEMMA NextRows == TypeOK /\ [Next]_vars => RowSteps
<1> SUFFICES ASSUME TypeOK, [Next]_vars PROVE RowSteps
  OBVIOUS
<1>1. CASE users' = users
  BY <1>1 DEF RowSteps, RowStep
<1>2. ASSUME NEW d \in Databases, StartNormal(d), users' # users PROVE RowSteps
  <2>1. PICK origin \in {"start", "blind"} :
          /\ users[d][DefaultAdmin].life = "absent"
          /\ users' = WithRow(d, DefaultAdmin, NewRow("admin", origin))
    BY <1>2 DEF StartNormal
  <2> QED
    BY <2>1, InsertStep, SetupAssumption DEF TypeOK
<1>3. ASSUME NEW t \in Tabs, CreateAdmin(t), users' # users PROVE RowSteps
  <2>1. wizard[t].name \in Names /\ wizard[t].db \in Databases
    BY DEF TypeOK, TabStates
  <2> QED
    BY <1>3, <2>1, InsertStep DEF CreateAdmin, TypeOK
<1>4. ASSUME NEW n \in Names, NEW role \in {"admin", "user"},
             CreateUser(n, role) \/ UpdateUser(n, role) \/ DeleteUser(n)
      PROVE  RowSteps
  <2>1. serving \in Databases
    BY <1>4 DEF TypeOK, CreateUser, UpdateUser, DeleteUser
  <2>2. users[serving][n] \in Rows
    BY <2>1 DEF TypeOK
  <2>3. CASE CreateUser(n, role)
    BY <2>1, <2>3, InsertStep DEF CreateUser, TypeOK
  <2>4. CASE UpdateUser(n, role)
    <3> DEFINE row == [users[serving][n] EXCEPT !.role = role,
                         !.changed = users[serving][n].changed \/ role = "user"]
    <3>1. users' = WithRow(serving, n, row) /\ users[serving][n].life = "live"
      BY <2>4 DEF UpdateUser
    <3>2. row \in Rows
      BY <2>2 DEF Rows
    <3>3. RowStep(users[serving][n], row)
      BY <2>2, <3>1 DEF Rows, RowStep
    <3> HIDE DEF row
    <3> QED
      BY <2>1, <3>1, <3>2, <3>3, WriteStep DEF TypeOK
  <2>5. CASE DeleteUser(n)
    <3> DEFINE row == [users[serving][n] EXCEPT !.life = "deleted", !.changed = TRUE]
    <3>1. users' = WithRow(serving, n, row) /\ users[serving][n].life = "live"
      BY <2>5 DEF DeleteUser
    <3>2. row \in Rows
      BY <2>2 DEF Rows
    <3>3. RowStep(users[serving][n], row)
      BY <2>2, <3>1 DEF Rows, RowStep
    <3> HIDE DEF row
    <3> QED
      BY <2>1, <3>1, <3>2, <3>3, WriteStep DEF TypeOK
  <2> QED
    BY <1>4, <2>3, <2>4, <2>5
<1>5. ASSUME users' # users
      PROVE  \/ \E d \in Databases : StartNormal(d)
             \/ \E t \in Tabs : CreateAdmin(t)
             \/ \E n \in Names, role \in {"admin", "user"} :
                  CreateUser(n, role) \/ UpdateUser(n, role) \/ DeleteUser(n)
  BY <1>5 DEF Next, vars, Start, StartWizard, ConfigFails, ConnectFails, StartFails, SeedFails,
              Kill, End, Complete, OpenConfig, FillConfig, WizardFails, Answer, Submit,
              SignalSetupDone, LeaveSetup, WizardFrame
<1> QED
  BY <1>1, <1>2, <1>3, <1>4, <1>5
-----------------------------------------------------------------------------
(* The rows that the wizard's handlers have inserted, and the file.         *)
AbsentRows == \A d \in Databases, n \in Names :
                users[d][n].life = "absent" => users[d][n].origin = "none"

OwnRow(t) == users[wizard[t].db][wizard[t].name].origin = "wizard"

TabRows == \A t \in Tabs : wizard[t].at \in {"config", "fill", "answer", "login"} => OwnRow(t)

ConfigInv == TypeOK /\ AbsentRows /\ TabRows /\ ConfigIsSetUp

LEMMA OriginsStay ==
  TypeOK /\ AbsentRows /\ RowSteps =>
    /\ AbsentRows'
    /\ \A d \in Databases, n \in Names :
         users[d][n].origin = "wizard" => users'[d][n].origin = "wizard"
<1> SUFFICES ASSUME TypeOK, AbsentRows, RowSteps, NEW d \in Databases, NEW n \in Names
             PROVE  /\ users'[d][n].life = "absent" => users'[d][n].origin = "none"
                    /\ users[d][n].origin = "wizard" => users'[d][n].origin = "wizard"
  BY DEF AbsentRows
<1>1. RowStep(users[d][n], users'[d][n])
  BY DEF RowSteps
<1>2. users[d][n].life = "absent" => users[d][n].origin = "none"
  BY DEF AbsentRows
<1> QED
  BY <1>1, <1>2 DEF RowStep

(* The tab of a step of the wizard, and all others. *)
LEMMA TabSteps ==
  ASSUME TypeOK, [Next]_vars, NEW t \in Tabs
  PROVE  \/ wizard'[t].at = wizard[t].at /\ wizard'[t].name = wizard[t].name
              /\ wizard'[t].db = wizard[t].db
         \/ wizard'[t].at \in {"form", "create"}
         \/ CreateAdmin(t) \/ OpenConfig(t) \/ FillConfig(t) \/ Answer(t)
<1> DEFINE Goal == \/ wizard'[t].at = wizard[t].at /\ wizard'[t].name = wizard[t].name
                        /\ wizard'[t].db = wizard[t].db
                   \/ wizard'[t].at \in {"form", "create"}
                   \/ CreateAdmin(t) \/ OpenConfig(t) \/ FillConfig(t) \/ Answer(t)
<1>1. CASE wizard' = wizard
  BY <1>1
<1>2. CASE End
  BY <1>2 DEF End, AtForm
<1>3. ASSUME NEW u \in Tabs, Complete(u) PROVE Goal
  <2>1. CASE u = t /\ WizardFails(u)
    <3>1. wizard[t] \in TabStates
      BY DEF TypeOK
    <3>2. wizard'[t] = [wizard[t] EXCEPT !.at = "form"]
      BY <2>1, GoesFacts, GoesInFileFacts DEF WizardFails, TypeOK
    <3> QED
      BY <3>1, <3>2 DEF TabStates
  <2>2. CASE u = t /\ ~WizardFails(u)
    BY <1>3, <2>2 DEF Complete
  <2>3. CASE u # t
    <3>1. PICK place \in {"form", "config", "fill", "answer", "login"} :
            Goes(u, place) \/ GoesInFile(u, place)
      BY <1>3
         DEF Complete, CreateAdmin, OpenConfig, FillConfig, WizardFails, Answer
    <3>2. CASE Goes(u, place)
      BY <2>3, <3>2, GoesFacts DEF TypeOK
    <3>3. CASE GoesInFile(u, place)
      BY <2>3, <3>3, GoesInFileFacts DEF TypeOK
    <3> QED
      BY <3>1, <3>2, <3>3
  <2> QED
    BY <2>1, <2>2, <2>3
<1>4. ASSUME NEW u \in Tabs, NEW n \in Names, NEW d \in Databases, Submit(u, n, d) PROVE Goal
  BY <1>4 DEF Submit, TypeOK
<1>5. CASE wizard' # wizard
  BY <1>2, <1>3, <1>4, <1>5
     DEF Next, vars, Start, StartWizard, ConfigFails, ConnectFails, StartFails, SeedFails,
         StartNormal, Kill, LeaveSetup, SignalSetupDone, CreateUser, UpdateUser, DeleteUser,
         UsersFrame
<1> QED
  BY <1>1, <1>5

LEMMA NextKeepsConfigInv == ConfigInv /\ TypeOK' /\ [Next]_vars => ConfigInv'
<1> SUFFICES ASSUME ConfigInv, TypeOK', [Next]_vars PROVE ConfigInv'
  OBVIOUS
<1> USE DEF ConfigInv
<1>1. RowSteps
  BY NextRows
<1>2. AbsentRows' /\ \A d \in Databases, n \in Names :
         users[d][n].origin = "wizard" => users'[d][n].origin = "wizard"
  BY <1>1, OriginsStay
<1>3. ASSUME NEW t \in Tabs, wizard'[t].at \in {"config", "fill", "answer", "login"}
      PROVE  users'[wizard'[t].db][wizard'[t].name].origin = "wizard"
  <2>0. wizard[t] \in TabStates
    BY DEF TypeOK
  <2>1. CASE CreateAdmin(t)
    <3>1. wizard'[t].name = wizard[t].name /\ wizard'[t].db = wizard[t].db
      BY <2>1, <2>0, GoesFacts DEF CreateAdmin, TypeOK, TabStates
    <3>2. CASE users[wizard[t].db][wizard[t].name].life = "absent"
      <4>1. users' = WithRow(wizard[t].db, wizard[t].name, NewRow("admin", "wizard"))
        BY <2>1, <3>2 DEF CreateAdmin
      <4>2. users'[wizard[t].db][wizard[t].name] = NewRow("admin", "wizard")
        BY <4>1, <2>0, WithRowFacts, NewRowType DEF TypeOK, TabStates
      <4> QED
        BY <3>1, <4>2 DEF NewRow
    <3>3. CASE users[wizard[t].db][wizard[t].name].life # "absent"
      BY <1>3, <2>1, <2>0, <3>3, GoesFacts DEF CreateAdmin, TypeOK, TabStates
    <3> QED
      BY <3>2, <3>3
  <2>2. CASE OpenConfig(t) \/ FillConfig(t) \/ Answer(t)
    <3>1. \E place \in {"fill", "answer", "login"} :
            wizard'[t] = [wizard[t] EXCEPT !.at = place]
      BY <2>2, GoesFacts, GoesInFileFacts DEF OpenConfig, FillConfig, Answer, TypeOK
    <3>2. OwnRow(t)
      BY <2>2 DEF OpenConfig, FillConfig, Answer, At, TabRows
    <3>3. wizard'[t].name = wizard[t].name /\ wizard'[t].db = wizard[t].db
      BY <3>1, <2>0 DEF TabStates
    <3> QED
      BY <3>2, <3>3, <2>0, <1>2 DEF OwnRow, TabStates
  <2>3. CASE wizard'[t].at = wizard[t].at /\ wizard'[t].name = wizard[t].name
              /\ wizard'[t].db = wizard[t].db
    BY <1>3, <2>3, <2>0, <1>2 DEF TabRows, OwnRow, TabStates
  <2> QED
    BY <1>3, <2>1, <2>2, <2>3, TabSteps
<1>4. TabRows'
  BY <1>3 DEF TabRows, OwnRow
<1>5. ConfigIsSetUp'
  <2>1. ASSUME NEW t \in Tabs, FillConfig(t), file' \in Databases
        PROVE  \E d \in Databases, n \in Names :
                 file' \in Readings(d) /\ users'[d][n].origin = "wizard"
    <3>1. wizard[t].name \in Names /\ wizard[t].db \in Databases
      BY DEF TypeOK, TabStates
    <3>2. OwnRow(t)
      BY <2>1 DEF FillConfig, At, TabRows
    <3>3. file' \in Readings(wizard[t].db)
      BY <2>1, SetupAssumption DEF FillConfig
    <3> QED
      BY <3>1, <3>2, <3>3, <1>2 DEF OwnRow
  <2>2. ASSUME NEW t \in Tabs, OpenConfig(t) PROVE file' \notin Databases
    BY <2>2, SetupAssumption DEF OpenConfig
  <2>3. CASE file' = file
    BY <2>3, <1>2 DEF ConfigIsSetUp
  <2>4. ASSUME NEW t \in Tabs, WizardFails(t), file' # file PROVE file' \notin Databases
    BY <2>4, SetupAssumption DEF WizardFails
  <2>5. CASE file' # file
    BY <2>1, <2>2, <2>4, <2>5
       DEF ConfigIsSetUp, Next, vars, Start, StartWizard, ConfigFails, ConnectFails, StartFails,
           SeedFails, StartNormal, Kill, LeaveSetup, End, SignalSetupDone, Complete, CreateAdmin,
           Answer, Submit, WizardFrame, CreateUser, UpdateUser, DeleteUser, UsersFrame
  <2> QED
    BY <2>3, <2>5
<1> QED
  BY <1>2, <1>4, <1>5

LEMMA InitConfigInv == Init => ConfigInv
<1>1. Init => TypeOK
  BY InitType
<1>2. Init => AbsentRows /\ TabRows /\ ConfigIsSetUp
  BY SetupAssumption DEF Init, AbsentRows, TabRows, ConfigIsSetUp, NoRow, AtForm
<1> QED
  BY <1>1, <1>2 DEF ConfigInv

(* The configuration names only what the DSN of a database reads as in      *)
(* which a wizard has inserted an administrator, for a plain DSN that       *)
(* database itself, for any number of tabs, crashes and failing steps.      *)
THEOREM ConfigSetUp == Spec => []ConfigIsSetUp
<1>1. Init => ConfigInv
  BY InitConfigInv
<1>2. ConfigInv /\ TypeOK' /\ [Next]_vars => ConfigInv'
  BY NextKeepsConfigInv
<1>3. ConfigInv => ConfigIsSetUp
  BY DEF ConfigInv
<1> QED
  BY <1>1, <1>2, <1>3, TypeCorrect, PTL DEF Spec
-----------------------------------------------------------------------------
(* The tabs and the file, as long as only one tab has opened it.            *)
OpenedTabs == \A t \in Tabs : wizard[t].at \in {"fill", "answer", "login"} => t \in opened

AloneInFile ==
  OneWriter => \A t \in Tabs :
    /\ ~wizard[t].overlapped
    /\ wizard[t].at \in {"answer", "login"} => file \in Readings(wizard[t].db)

AnswerInv == OpenedTabs /\ AloneInFile

(* The steps that concern neither the file nor a tab's place in it.         *)
TabsKept ==
  \A t \in Tabs : \/ wizard'[t] = wizard[t]
                  \/ /\ wizard'[t].at \in {"form", "create", "config"}
                     /\ wizard'[t].overlapped => wizard[t].overlapped

LEMMA TabsKeptSafe ==
  AnswerInv /\ TabsKept /\ file' = file /\ opened' = opened => AnswerInv'
  BY DEF AnswerInv, OpenedTabs, AloneInFile, OneWriter, TabsKept

LEMMA InFileSafe ==
  ASSUME TypeOK, AnswerInv, NEW t \in Tabs, NEW place \in {"fill", "answer", "form"},
         GoesInFile(t, place), opened' = opened \cup {t},
         place = "answer" /\ OneWriter => file' \in Readings(wizard[t].db)
  PROVE  AnswerInv'
<1>1. wizard[t] \in TabStates /\ opened \subseteq Tabs
  BY DEF TypeOK
<1>2. /\ wizard'[t] = [wizard[t] EXCEPT !.at = place]
      /\ \A u \in Tabs : u # t =>
           wizard'[u].at = wizard[u].at /\ (wizard[u].at # "fill" => wizard'[u] = wizard[u])
  BY GoesInFileFacts DEF TypeOK
<1>3. /\ wizard'[t].at = place /\ wizard'[t].db = wizard[t].db
      /\ wizard'[t].overlapped = wizard[t].overlapped
  BY <1>1, <1>2 DEF TabStates
<1>4. OpenedTabs'
  BY <1>2, <1>3 DEF AnswerInv, OpenedTabs
<1>5. ASSUME OneWriter' PROVE AloneInFile'
  <2>1. OneWriter /\ \A u \in Tabs : u # t => u \notin opened
    BY <1>5 DEF OneWriter
  <2>2. \A u \in Tabs : u # t => wizard[u].at \notin {"fill", "answer", "login"}
    BY <2>1 DEF AnswerInv, OpenedTabs
  <2>3. \A u \in Tabs : u # t => wizard'[u] = wizard[u]
    BY <1>2, <2>2
  <2> QED
    BY <1>3, <2>1, <2>2, <2>3 DEF AnswerInv, AloneInFile
<1> QED
  BY <1>4, <1>5 DEF AnswerInv, AloneInFile

LEMMA NextKeepsAnswerInv == TypeOK /\ AnswerInv /\ [Next]_vars => AnswerInv'
<1> SUFFICES ASSUME TypeOK, AnswerInv, [Next]_vars PROVE AnswerInv'
  OBVIOUS
<1>1. ASSUME NEW t \in Tabs, OpenConfig(t) PROVE AnswerInv'
  BY <1>1, InFileSafe DEF OpenConfig
<1>2. ASSUME NEW t \in Tabs,
             FillConfig(t) \/ (WizardFails(t) /\ wizard[t].at = "fill")
      PROVE  AnswerInv'
  <2>1. opened' = opened \cup {t}
    BY <1>2 DEF FillConfig, WizardFails, At, WizardFrame, AnswerInv, OpenedTabs
  <2>2. FillConfig(t) /\ OneWriter => file' \in Readings(wizard[t].db)
    BY DEF FillConfig, AnswerInv, AloneInFile
  <2> QED
    BY <1>2, <2>1, <2>2, InFileSafe DEF FillConfig, WizardFails
<1>3. ASSUME NEW t \in Tabs,
             CreateAdmin(t) \/ (WizardFails(t) /\ wizard[t].at # "fill")
      PROVE  AnswerInv'
  <2>1. file' = file /\ opened' = opened /\ wizard[t] \in TabStates
    BY <1>3 DEF CreateAdmin, WizardFails, WizardFrame, TypeOK
  <2>2. PICK place \in {"form", "config"} : Goes(t, place)
    BY <1>3 DEF CreateAdmin, WizardFails
  <2>3. /\ wizard'[t] = [wizard[t] EXCEPT !.at = place]
        /\ \A u \in Tabs : u # t => wizard'[u] = wizard[u]
    BY <2>2, GoesFacts DEF TypeOK
  <2>4. wizard'[t].at \in {"form", "create", "config"}
          /\ wizard'[t].overlapped = wizard[t].overlapped
    BY <2>1, <2>2, <2>3 DEF TabStates
  <2>5. TabsKept
    BY <2>3, <2>4 DEF TabsKept
  <2> QED
    BY <2>1, <2>5, TabsKeptSafe
<1>4. ASSUME NEW t \in Tabs, Answer(t) PROVE AnswerInv'
  <2>1. file' = file /\ opened' = opened /\ wizard[t] \in TabStates /\ wizard[t].at = "answer"
    BY <1>4 DEF Answer, At, WizardFrame, TypeOK
  <2>2. /\ wizard'[t] = [wizard[t] EXCEPT !.at = "login"]
        /\ \A u \in Tabs : u # t => wizard'[u] = wizard[u]
    BY <1>4, GoesFacts DEF Answer, TypeOK
  <2>3. /\ wizard'[t].at = "login" /\ wizard'[t].db = wizard[t].db
        /\ wizard'[t].overlapped = wizard[t].overlapped
    BY <2>1, <2>2 DEF TabStates
  <2> QED
    BY <2>1, <2>2, <2>3 DEF AnswerInv, OpenedTabs, AloneInFile, OneWriter
<1>5. ASSUME NEW t \in Tabs, NEW n \in Names, NEW d \in Databases, Submit(t, n, d)
      PROVE  AnswerInv'
  <2>1. TabsKept /\ file' = file /\ opened' = opened
    BY <1>5 DEF Submit, WizardFrame, TabsKept, TypeOK
  <2> QED
    BY <2>1, TabsKeptSafe
<1>6. CASE End
  <2>1. TabsKept /\ file' = file /\ opened' = opened
    BY <1>6 DEF End, AtForm, TabsKept
  <2> QED
    BY <2>1, TabsKeptSafe
<1>7. CASE UNCHANGED <<wizard, file, opened>>
  BY <1>7, TabsKeptSafe DEF TabsKept
<1>8. \/ UNCHANGED <<wizard, file, opened>>
      \/ End
      \/ \E t \in Tabs : Complete(t) \/ \E n \in Names, d \in Databases : Submit(t, n, d)
  BY DEF Next, vars, Start, StartWizard, ConfigFails, ConnectFails, StartFails, SeedFails,
         StartNormal, Kill, LeaveSetup, SignalSetupDone, CreateUser, UpdateUser, DeleteUser,
         UsersFrame
<1> QED
  BY <1>1, <1>2, <1>3, <1>4, <1>5, <1>6, <1>7, <1>8 DEF Complete

(* What a tab was told stays true: the file is what its DSN reads as, the   *)
(* chosen database if the DSN is plain, and its administrator's row is in   *)
(* that database, for any number of tabs of which one has opened the file,  *)
(* and however often the process ends and starts.                           *)
THEOREM AnswerIsKept == Spec => []AnsweredSurvives
<1>1. Init => ConfigInv /\ AnswerInv
  <2>1. Init => ConfigInv
    BY InitConfigInv
  <2>2. Init => AnswerInv
    BY DEF Init, AtForm, AnswerInv, OpenedTabs, AloneInFile, OneWriter
  <2> QED
    BY <2>1, <2>2
<1>2. ConfigInv /\ AnswerInv /\ TypeOK' /\ [Next]_vars => (ConfigInv /\ AnswerInv)'
  BY NextKeepsConfigInv, NextKeepsAnswerInv DEF ConfigInv
<1>3. ConfigInv /\ AnswerInv => AnsweredSurvives
  BY DEF ConfigInv, TabRows, OwnRow, AnswerInv, AloneInFile, AnsweredSurvives
<1> QED
  BY <1>1, <1>2, <1>3, TypeCorrect, PTL DEF Spec
-----------------------------------------------------------------------------
(* The default administrator: a start adds it to the database that the file *)
(* names only when that holds no administrator, and once it has, the wizard *)
(* never runs again, since the file is there.                               *)
WizardRows ==
  \A d \in Databases, n \in Names :
    users[d][n].origin = "wizard" /\ ~users[d][n].changed =>
      users[d][n].life = "live" /\ users[d][n].role = "admin"

Seeded(d) == users[d][DefaultAdmin].origin = "start"

AllChanged(d) == \A n \in Names : users[d][n].origin = "wizard" => users[d][n].changed

(* Handlers of the wizard run in its mode only. *)
TabsRest == mode # "setup" => \A t \in Tabs : wizard[t].at \in {"form", "login"}

SeedInv ==
  /\ WizardRows
  /\ TabsRest
  /\ env.dsn = NoDatabase =>
       \A d \in Databases : Seeded(d) =>
         file # "none" /\ mode # "setup" /\ (d = file => AllChanged(d))

(* Without a database in the environment a process that finds the file goes *)
(* on in the normal mode, where neither the file nor an origin changes.     *)
LEMMA OutsideWizard ==
  ASSUME TypeOK, TabsRest, [Next]_vars, env.dsn = NoDatabase, mode # "setup", file # "none"
  PROVE  /\ file' = file /\ mode' # "setup"
         /\ \A d \in Databases, n \in Names :
              users'[d][n].origin = "wizard" => users[d][n].origin = "wizard"
<1>1. file' = file /\ mode' # "setup"
  <2>1. \A t \in Tabs : ~Complete(t) /\ \A n \in Names, d \in Databases : ~Submit(t, n, d)
    BY DEF Complete, CreateAdmin, OpenConfig, FillConfig, WizardFails, Answer, Submit, At, TabsRest
  <2>2. CASE Start
    BY <2>2
       DEF Start, StartWizard, ConfigFails, ConnectFails, StartFails, SeedFails, StartNormal,
           IsWebSetupNeeded
  <2>3. CASE ~Start
    BY <2>1, <2>3
       DEF Next, vars, Kill, LeaveSetup, End, SignalSetupDone, CreateUser, UpdateUser,
           DeleteUser, UsersFrame
  <2> QED
    BY <2>2, <2>3
<1>2. ASSUME NEW d \in Databases, NEW n \in Names,
             users'[d][n].origin = "wizard", users[d][n].origin # "wizard"
      PROVE  FALSE
  <2>1. \/ \E e \in Databases : StartNormal(e)
        \/ \E k \in Names, role \in {"admin", "user"} :
             CreateUser(k, role) \/ UpdateUser(k, role) \/ DeleteUser(k)
    BY <1>2
       DEF Next, vars, Start, StartWizard, ConfigFails, ConnectFails, StartFails, SeedFails,
           Kill, LeaveSetup, End, SignalSetupDone, Complete, CreateAdmin, OpenConfig,
           FillConfig, WizardFails, Answer, Submit, WizardFrame, At
  <2>2. users[d][n] \in Rows
    BY DEF TypeOK
  <2>3. ASSUME NEW e \in Databases, NEW k \in Names, NEW row \in Rows,
               users' = WithRow(e, k, row)
        PROVE  e = d /\ k = n /\ users'[d][n] = row
    <3>1. users' # users => users'[e][k] = row
      BY <2>3, WithRowFacts DEF TypeOK
    <3>2. ~(d = e /\ n = k) => users'[d][n] = users[d][n]
      BY <2>3, WithRowFacts DEF TypeOK
    <3> QED
      BY <1>2, <3>1, <3>2
  <2>4. ASSUME NEW e \in Databases, StartNormal(e) PROVE FALSE
    <3>1. PICK origin \in {"start", "blind"} :
            users' = users \/ users' = WithRow(e, DefaultAdmin, NewRow("admin", origin))
      BY <2>4 DEF StartNormal
    <3>2. NewRow("admin", origin) \in Rows
      BY NewRowType
    <3> QED
      BY <1>2, <2>3, <3>1, <3>2, SetupAssumption DEF NewRow
  <2>5. ASSUME NEW k \in Names, NEW role \in {"admin", "user"},
               CreateUser(k, role) \/ UpdateUser(k, role) \/ DeleteUser(k)
        PROVE  FALSE
    <3>1. serving \in Databases /\ users[serving][k] \in Rows
      BY <2>5 DEF TypeOK, CreateUser, UpdateUser, DeleteUser
    <3>2. CASE CreateUser(k, role)
      <4>1. users' = WithRow(serving, k, NewRow(role, "handler")) /\ NewRow(role, "handler") \in Rows
        BY <3>2, NewRowType DEF CreateUser
      <4>2. users'[d][n] = NewRow(role, "handler")
        BY <2>3, <3>1, <4>1
      <4> QED
        BY <1>2, <4>2 DEF NewRow
    <3>3. CASE UpdateUser(k, role)
      <4> DEFINE row == [users[serving][k] EXCEPT !.role = role,
                           !.changed = users[serving][k].changed \/ role = "user"]
      <4>1. users' = WithRow(serving, k, row)
        BY <3>3 DEF UpdateUser
      <4>2. row \in Rows /\ row.origin = users[serving][k].origin
        BY <3>1 DEF Rows
      <4> HIDE DEF row
      <4> QED
        BY <1>2, <2>3, <3>1, <4>1, <4>2
    <3>4. CASE DeleteUser(k)
      <4> DEFINE row == [users[serving][k] EXCEPT !.life = "deleted", !.changed = TRUE]
      <4>1. users' = WithRow(serving, k, row)
        BY <3>4 DEF DeleteUser
      <4>2. row \in Rows /\ row.origin = users[serving][k].origin
        BY <3>1 DEF Rows
      <4> HIDE DEF row
      <4> QED
        BY <1>2, <2>3, <3>1, <4>1, <4>2
    <3> QED
      BY <2>5, <3>2, <3>3, <3>4
  <2> QED
    BY <2>1, <2>4, <2>5
<1> QED
  BY <1>1, <1>2

(* Only a start adds a row of that origin: to its own database, ...         *)
LEMMA SeededByStart ==
  ASSUME TypeOK, [Next]_vars, NEW d \in Databases, Seeded(d)', ~Seeded(d)
  PROVE  StartNormal(d) /\ ~HasAdmin(d) /\ users' = WithRow(d, DefaultAdmin, NewRow("admin", "start"))
<1> USE SetupAssumption
<1>1. users[d][DefaultAdmin] \in Rows
  BY DEF TypeOK
<1>2. ASSUME NEW e \in Databases, NEW k \in Names, NEW row \in Rows, users' = WithRow(e, k, row)
      PROVE  e = d /\ k = DefaultAdmin /\ row.origin = "start"
  <2>1. users'[e][k] = row
    BY <1>2, WithRowFacts DEF TypeOK
  <2>2. ~(d = e /\ DefaultAdmin = k) => users'[d][DefaultAdmin] = users[d][DefaultAdmin]
    BY <1>2, WithRowFacts DEF TypeOK
  <2> QED
    BY <2>1, <2>2 DEF Seeded
<1>3. ASSUME NEW e \in Databases, StartNormal(e)
      PROVE  StartNormal(d) /\ ~HasAdmin(d) /\ users' = WithRow(d, DefaultAdmin, NewRow("admin", "start"))
  <2> DEFINE origin == IF HasAdmin(e) THEN "blind" ELSE "start"
  <2>1. users' = WithRow(e, DefaultAdmin, NewRow("admin", origin))
    BY <1>3 DEF StartNormal, Seeded
  <2>2. NewRow("admin", origin) \in Rows
    BY NewRowType
  <2>3. e = d /\ NewRow("admin", origin).origin = "start"
    BY <1>2, <2>1, <2>2
  <2>4. origin = "start"
    BY <2>3 DEF NewRow
  <2> QED
    BY <1>3, <2>1, <2>3, <2>4
<1>4. ASSUME NEW t \in Tabs, CreateAdmin(t) PROVE FALSE
  <2>1. wizard[t].name \in Names /\ wizard[t].db \in Databases
    BY DEF TypeOK, TabStates
  <2>2. users' = users \/ users' = WithRow(wizard[t].db, wizard[t].name, NewRow("admin", "wizard"))
    BY <1>4 DEF CreateAdmin
  <2>3. NewRow("admin", "wizard") \in Rows /\ NewRow("admin", "wizard").origin = "wizard"
    BY NewRowType DEF NewRow
  <2> QED
    BY <1>2, <2>1, <2>2, <2>3 DEF Seeded
<1>5. ASSUME NEW k \in Names, NEW role \in {"admin", "user"},
             CreateUser(k, role) \/ UpdateUser(k, role) \/ DeleteUser(k)
      PROVE  FALSE
  <2>1. serving \in Databases /\ users[serving][k] \in Rows
    BY <1>5 DEF TypeOK, CreateUser, UpdateUser, DeleteUser
  <2>2. CASE CreateUser(k, role)
    <3>1. users' = WithRow(serving, k, NewRow(role, "handler")) /\ NewRow(role, "handler") \in Rows
      BY <2>2, NewRowType DEF CreateUser
    <3> QED
      BY <1>2, <2>1, <3>1 DEF NewRow
  <2>3. CASE UpdateUser(k, role)
    <3> DEFINE row == [users[serving][k] EXCEPT !.role = role,
                         !.changed = users[serving][k].changed \/ role = "user"]
    <3>1. users' = WithRow(serving, k, row)
      BY <2>3 DEF UpdateUser
    <3>2. row \in Rows /\ row.origin = users[serving][k].origin
      BY <2>1 DEF Rows
    <3> HIDE DEF row
    <3> QED
      BY <1>2, <2>1, <3>1, <3>2 DEF Seeded
  <2>4. CASE DeleteUser(k)
    <3> DEFINE row == [users[serving][k] EXCEPT !.life = "deleted", !.changed = TRUE]
    <3>1. users' = WithRow(serving, k, row)
      BY <2>4 DEF DeleteUser
    <3>2. row \in Rows /\ row.origin = users[serving][k].origin
      BY <2>1 DEF Rows
    <3> HIDE DEF row
    <3> QED
      BY <1>2, <2>1, <3>1, <3>2 DEF Seeded
  <2> QED
    BY <1>5, <2>2, <2>3, <2>4
<1>6. users' # users
  BY DEF Seeded
<1> QED
  BY <1>3, <1>4, <1>5, <1>6
     DEF Next, vars, Start, StartWizard, ConfigFails, ConnectFails, StartFails, SeedFails,
         Kill, End, Complete, OpenConfig, FillConfig, WizardFails, Answer, Submit,
         SignalSetupDone, LeaveSetup, WizardFrame

LEMMA NextKeepsSeedInv == ConfigInv /\ SeedInv /\ [Next]_vars => SeedInv'
<1> SUFFICES ASSUME ConfigInv, SeedInv, [Next]_vars PROVE SeedInv'
  OBVIOUS
<1> USE SetupAssumption
<1>1. TypeOK /\ AbsentRows /\ RowSteps
  BY NextRows DEF ConfigInv
<1>2. env' = env
  BY DEF Next, vars, Start, StartWizard, ConfigFails, ConnectFails, StartFails, SeedFails,
         StartNormal, Kill, LeaveSetup, End, SignalSetupDone, Complete, CreateAdmin, OpenConfig,
         FillConfig, WizardFails, Answer, Submit, WizardFrame, CreateUser, UpdateUser,
         DeleteUser, UsersFrame
<1>3. WizardRows'
  <2> SUFFICES ASSUME NEW d \in Databases, NEW n \in Names,
                      users'[d][n].origin = "wizard", ~users'[d][n].changed
               PROVE  users'[d][n].life = "live" /\ users'[d][n].role = "admin"
    BY DEF WizardRows
  <2>1. RowStep(users[d][n], users'[d][n])
    BY <1>1 DEF RowSteps
  <2> QED
    BY <2>1 DEF RowStep, SeedInv, WizardRows
<1>a. TabsRest'
  <2>1. CASE mode' = "setup"
    BY <2>1 DEF TabsRest
  <2>2. CASE mode = "setup" /\ mode' # "setup"
    <3>1. End
      BY <2>2
         DEF Next, vars, Start, StartWizard, ConfigFails, ConnectFails, StartFails, SeedFails,
             StartNormal, Kill, LeaveSetup, SignalSetupDone, Complete, CreateAdmin, OpenConfig,
             FillConfig, WizardFails, Answer, Submit, WizardFrame, CreateUser, UpdateUser,
             DeleteUser, UsersFrame
    <3> QED
      BY <3>1 DEF End, AtForm, TabsRest
  <2>3. CASE mode # "setup"
    <3>1. \A t \in Tabs : ~Complete(t) /\ \A n \in Names, d \in Databases : ~Submit(t, n, d)
      BY <2>3
         DEF Complete, CreateAdmin, OpenConfig, FillConfig, WizardFails, Answer, Submit, At,
             SeedInv, TabsRest
    <3>2. wizard' = wizard \/ End
      BY <3>1
         DEF Next, vars, Start, StartWizard, ConfigFails, ConnectFails, StartFails, SeedFails,
             StartNormal, Kill, LeaveSetup, SignalSetupDone, CreateUser, UpdateUser,
             DeleteUser, UsersFrame
    <3> QED
      BY <2>3, <3>2 DEF End, AtForm, SeedInv, TabsRest
  <2> QED
    BY <2>1, <2>2, <2>3
<1>4. ASSUME env.dsn = NoDatabase, NEW d \in Databases, Seeded(d)'
      PROVE  file' # "none" /\ mode' # "setup" /\ (d = file' => AllChanged(d)')
  <2>1. CASE Seeded(d)
    <3>1. file # "none" /\ mode # "setup" /\ (d = file => AllChanged(d))
      BY <1>4, <2>1 DEF SeedInv
    <3>2. /\ file' = file /\ mode' # "setup"
          /\ \A n \in Names : users'[d][n].origin = "wizard" => users[d][n].origin = "wizard"
      BY <1>1, <1>4, <3>1, OutsideWizard DEF SeedInv
    <3>3. ASSUME NEW n \in Names, d = file, users'[d][n].origin = "wizard"
          PROVE  users'[d][n].changed
      <4>1. users[d][n].origin = "wizard" /\ users[d][n].changed
        BY <3>1, <3>2, <3>3 DEF AllChanged
      <4>2. RowStep(users[d][n], users'[d][n]) /\ users[d][n].life # "absent"
        BY <1>1, <4>1 DEF RowSteps, AbsentRows
      <4> QED
        BY <4>1, <4>2 DEF RowStep
    <3> QED
      BY <3>1, <3>2, <3>3 DEF AllChanged
  <2>2. CASE ~Seeded(d)
    <3>1. /\ StartNormal(d) /\ ~HasAdmin(d)
          /\ users' = WithRow(d, DefaultAdmin, NewRow("admin", "start"))
      BY <1>1, <1>4, <2>2, SeededByStart
    <3>2. file' = file /\ file # "none" /\ mode' = "normal"
      BY <1>4, <3>1 DEF StartNormal, IsWebSetupNeeded
    <3>3. ASSUME NEW n \in Names, users'[d][n].origin = "wizard" PROVE users'[d][n].changed
      <4>1. n # DefaultAdmin
        BY <1>4, <3>3 DEF Seeded
      <4>2. users'[d][n] = users[d][n]
        BY <1>1, <3>1, <4>1, WithRowFacts, NewRowType DEF TypeOK
      <4>3. ~(users[d][n].life = "live" /\ users[d][n].role = "admin")
        BY <3>1 DEF HasAdmin
      <4>4. users[d][n] \in Rows
        BY <1>1 DEF TypeOK
      <4> QED
        BY <3>3, <4>2, <4>3, <4>4 DEF SeedInv, WizardRows, Rows
    <3> QED
      BY <3>2, <3>3 DEF AllChanged
  <2> QED
    BY <2>1, <2>2
<1> QED
  BY <1>2, <1>3, <1>a, <1>4 DEF SeedInv

(* The default administrator never joins one of the wizard's that still has *)
(* its row and role: not after a crash in any step of the wizard, nor with  *)
(* several tabs, nor when statements of the start fail.                     *)
THEOREM DefaultAdminIsLast == Spec => []DefaultOnlyAfterRemoval
<1>1. Init => ConfigInv /\ SeedInv
  <2>1. Init => ConfigInv
    BY InitConfigInv
  <2>2. Init => SeedInv
    BY SetupAssumption DEF Init, SeedInv, WizardRows, TabsRest, Seeded, NoRow, AtForm
  <2> QED
    BY <2>1, <2>2
<1>2. ConfigInv /\ SeedInv /\ TypeOK' /\ [Next]_vars => (ConfigInv /\ SeedInv)'
  BY NextKeepsConfigInv, NextKeepsSeedInv
<1>3. ConfigInv /\ SeedInv => DefaultOnlyAfterRemoval
  BY SetupAssumption DEF SeedInv, Seeded, AllChanged, DefaultOnlyAfterRemoval
<1> QED
  BY <1>1, <1>2, <1>3, TypeCorrect, PTL DEF Spec
-----------------------------------------------------------------------------
(* A start that no statement fails ends without an administrator only after *)
(* handlers took the role or the row of every administrator that a wizard   *)
(* or a start has added.                                                    *)
First(row) == row.origin \in {"wizard", "start"}

FirstRows ==
  \A d \in Databases, n \in Names :
    First(users[d][n]) /\ ~users[d][n].changed =>
      users[d][n].life = "live" /\ users[d][n].role = "admin"

HasFirst(d) == \E n \in Names : First(users[d][n])

(* The first row of a table is one of them: no handler runs before.         *)
Founded ==
  /\ \A d \in Databases, n \in Names : users[d][n].life # "absent" => HasFirst(d)
  /\ mode = "normal" => HasFirst(serving)

FirstInv == TypeOK /\ AbsentRows /\ FirstRows /\ Founded

RemovedAll(d) ==
  HasFirst(d) /\ \A n \in Names : First(users[d][n]) => users[d][n].changed

LEMMA FirstStays ==
  ASSUME TypeOK, AbsentRows, RowSteps, NEW d \in Databases, HasFirst(d)
  PROVE  HasFirst(d)'
<1>1. PICK n \in Names : First(users[d][n])
  BY DEF HasFirst
<1>2. RowStep(users[d][n], users'[d][n]) /\ users[d][n].life # "absent"
  BY <1>1 DEF RowSteps, AbsentRows, First
<1>3. First(users'[d][n])
  BY <1>1, <1>2 DEF RowStep, First
<1> QED
  BY <1>3 DEF HasFirst

(* What a start that finds no administrator inserts is one of them.         *)
LEMMA StartFirst ==
  ASSUME FirstInv, RowSteps, "db" \notin Faults, NEW d \in Databases, StartNormal(d)
  PROVE  FirstRows' /\ HasFirst(d)'
<1> USE SetupAssumption DEF FirstInv
<1>1. CASE HasAdmin(d)
  <2>1. users' = users
    BY <1>1 DEF StartNormal, Counted
  <2>2. HasFirst(d)
    BY <1>1 DEF HasAdmin, Founded
  <2> QED
    BY <2>1, <2>2 DEF HasFirst, FirstRows
<1>2. CASE ~HasAdmin(d)
  <2>1. users' = WithRow(d, DefaultAdmin, NewRow("admin", "start"))
    BY <1>2 DEF StartNormal, Counted
  <2>2. NewRow("admin", "start") \in Rows
    BY NewRowType
  <2>3. /\ users'[d][DefaultAdmin] = NewRow("admin", "start")
        /\ \A e \in Databases, k \in Names :
             ~(e = d /\ k = DefaultAdmin) => users'[e][k] = users[e][k]
    BY <2>1, <2>2, WithRowFacts DEF TypeOK
  <2>4. HasFirst(d)'
    BY <2>3 DEF HasFirst, First, NewRow
  <2>5. FirstRows'
    BY <2>3 DEF FirstRows, First, NewRow
  <2> QED
    BY <2>4, <2>5
<1> QED
  BY <1>1, <1>2

(* A row that a step other than a start inserts, and whose mode it is.      *)
LEMMA NewRowOf ==
  ASSUME TypeOK, [Next]_vars, NEW d \in Databases, NEW n \in Names,
         users[d][n].life = "absent", users'[d][n].life # "absent",
         \A e \in Databases : ~StartNormal(e)
  PROVE  \/ First(users'[d][n]) /\ users'[d][n].role = "admin"
         \/ mode = "normal" /\ serving = d /\ ~First(users'[d][n])
<1>1. ASSUME NEW e \in Databases, NEW k \in Names, NEW row \in Rows, users' = WithRow(e, k, row)
      PROVE  e = d /\ k = n /\ users'[d][n] = row
  <2>1. users'[e][k] = row
    BY <1>1, WithRowFacts DEF TypeOK
  <2>2. ~(d = e /\ n = k) => users'[d][n] = users[d][n]
    BY <1>1, WithRowFacts DEF TypeOK
  <2> QED
    BY <2>1, <2>2
<1>2. ASSUME NEW t \in Tabs, CreateAdmin(t)
      PROVE  First(users'[d][n]) /\ users'[d][n].role = "admin"
  <2>1. wizard[t].name \in Names /\ wizard[t].db \in Databases
    BY DEF TypeOK, TabStates
  <2>2. users' = WithRow(wizard[t].db, wizard[t].name, NewRow("admin", "wizard"))
    BY <1>2 DEF CreateAdmin
  <2>3. NewRow("admin", "wizard") \in Rows
    BY NewRowType
  <2>4. users'[d][n] = NewRow("admin", "wizard")
    BY <1>1, <2>1, <2>2, <2>3
  <2> QED
    BY <2>4 DEF NewRow, First
<1>3. ASSUME NEW k \in Names, NEW role \in {"admin", "user"},
             CreateUser(k, role) \/ UpdateUser(k, role) \/ DeleteUser(k)
      PROVE  mode = "normal" /\ serving = d /\ ~First(users'[d][n])
  <2>1. mode = "normal" /\ serving \in Databases /\ users[serving][k] \in Rows
    BY <1>3 DEF TypeOK, CreateUser, UpdateUser, DeleteUser
  <2>2. CASE CreateUser(k, role)
    <3>1. users' = WithRow(serving, k, NewRow(role, "handler")) /\ NewRow(role, "handler") \in Rows
      BY <2>2, NewRowType DEF CreateUser
    <3>2. serving = d /\ users'[d][n] = NewRow(role, "handler")
      BY <1>1, <2>1, <3>1
    <3> QED
      BY <2>1, <3>2 DEF NewRow, First
  <2>3. ASSUME NEW row \in Rows, users' = WithRow(serving, k, row) PROVE users[serving][k].life = "absent"
    BY <1>1, <2>1, <2>3
  <2>4. CASE UpdateUser(k, role)
    <3>1. [users[serving][k] EXCEPT !.role = role,
             !.changed = users[serving][k].changed \/ role = "user"] \in Rows
      BY <2>1 DEF Rows
    <3> QED
      BY <2>3, <2>4, <3>1 DEF UpdateUser
  <2>5. CASE DeleteUser(k)
    <3>1. [users[serving][k] EXCEPT !.life = "deleted", !.changed = TRUE] \in Rows
      BY <2>1 DEF Rows
    <3> QED
      BY <2>3, <2>5, <3>1 DEF DeleteUser
  <2> QED
    BY <1>3, <2>2, <2>4, <2>5
<1>4. users' # users
  OBVIOUS
<1> QED
  BY <1>2, <1>3, <1>4
     DEF Next, vars, Start, StartWizard, ConfigFails, ConnectFails, StartFails, SeedFails,
         Kill, End, Complete, OpenConfig, FillConfig, WizardFails, Answer, Submit,
         SignalSetupDone, LeaveSetup, WizardFrame

LEMMA NextKeepsFirstInv ==
  ASSUME FirstInv, TypeOK', [Next]_vars, "db" \notin Faults
  PROVE  FirstInv'
<1> USE DEF FirstInv
<1>1. RowSteps
  BY NextRows
<1>2. AbsentRows'
  BY <1>1, OriginsStay
<1>3. ASSUME NEW d \in Databases, StartNormal(d) PROVE FirstRows' /\ Founded'
  <2>1. FirstRows' /\ HasFirst(d)'
    BY <1>1, <1>3, StartFirst
  <2>2. mode' = "normal" /\ serving' = d
    BY <1>3 DEF StartNormal
  <2>3. ASSUME NEW e \in Databases, NEW n \in Names, users'[e][n].life # "absent"
        PROVE  HasFirst(e)'
    <3>1. CASE e = d
      BY <2>1, <3>1
    <3>2. CASE e # d
      <4>1. users'[e] = users[e]
        BY <1>3, <3>2 DEF StartNormal, WithRow, TypeOK
      <4>2. HasFirst(e)
        BY <2>3, <4>1 DEF Founded
      <4> QED
        BY <1>1, <4>2, FirstStays
    <3> QED
      BY <3>1, <3>2
  <2> QED
    BY <2>1, <2>2, <2>3 DEF Founded
<1>4. ASSUME \A d \in Databases : ~StartNormal(d) PROVE FirstRows' /\ Founded'
  <2>1. ASSUME NEW d \in Databases, NEW n \in Names
        PROVE  /\ users'[d][n].life # "absent" => HasFirst(d)'
               /\ First(users'[d][n]) /\ ~users'[d][n].changed =>
                    users'[d][n].life = "live" /\ users'[d][n].role = "admin"
    <3>1. RowStep(users[d][n], users'[d][n])
      BY <1>1 DEF RowSteps
    <3>2. CASE users[d][n].life = "absent" /\ users'[d][n].life # "absent"
      <4>1. \/ First(users'[d][n]) /\ users'[d][n].role = "admin"
            \/ mode = "normal" /\ serving = d /\ ~First(users'[d][n])
        BY <1>4, <3>2, NewRowOf
      <4>2. CASE First(users'[d][n]) /\ users'[d][n].role = "admin"
        BY <3>1, <3>2, <4>2 DEF HasFirst, RowStep
      <4>3. CASE mode = "normal" /\ serving = d /\ ~First(users'[d][n])
        BY <1>1, <4>3, FirstStays DEF Founded
      <4> QED
        BY <4>1, <4>2, <4>3
    <3>3. CASE ~(users[d][n].life = "absent" /\ users'[d][n].life # "absent")
      BY <1>1, <3>1, <3>3, FirstStays DEF Founded, RowStep, FirstRows, AbsentRows, First
    <3> QED
      BY <3>2, <3>3
  <2>2. mode' = "normal" => mode = "normal" /\ serving' = serving
    <3>1. CASE Start
      BY <1>4, <3>1
         DEF Start, StartWizard, ConfigFails, ConnectFails, StartFails, SeedFails
    <3>2. ASSUME NEW t \in Tabs, Complete(t) PROVE mode' = mode /\ serving' = serving
      BY <3>2 DEF Complete, CreateAdmin, OpenConfig, FillConfig, WizardFails, Answer, WizardFrame
    <3>3. ASSUME NEW n \in Names, NEW role \in {"admin", "user"},
                 CreateUser(n, role) \/ UpdateUser(n, role) \/ DeleteUser(n)
          PROVE  mode' = mode /\ serving' = serving
      BY <3>3, Zenon DEF CreateUser, UpdateUser, DeleteUser, UsersFrame
    <3> QED
      BY <3>1, <3>2, <3>3
         DEF Next, vars, Kill, LeaveSetup, End, SignalSetupDone, Submit, WizardFrame
  <2>3. mode' = "normal" => HasFirst(serving)'
    BY <1>1, <2>2, FirstStays, SetupAssumption DEF Founded, TypeOK
  <2> QED
    BY <2>1, <2>3 DEF FirstRows, Founded
<1> QED
  BY <1>2, <1>3, <1>4

(* The start that finds a table without an administrator in which the       *)
(* default name is taken ends the process, and so does every later one      *)
(* (main.go:60); it takes a removal of every administrator there to get     *)
(* to such a table: no crash of the wizard and no overlap of tabs does.     *)
THEOREM LockoutNeedsRemoval ==
  ASSUME "db" \notin Faults
  PROVE  Spec => [][\A d \in Databases : SeedFails(d) => RemovedAll(d)]_vars
<1>1. Init => FirstInv
  <2>1. Init => TypeOK
    BY InitType
  <2> QED
    BY <2>1, SetupAssumption DEF Init, FirstInv, AbsentRows, FirstRows, Founded, First, NoRow
<1>2. FirstInv /\ TypeOK' /\ [Next]_vars => FirstInv'
  BY NextKeepsFirstInv
<1>3. FirstInv => [\A d \in Databases : SeedFails(d) => RemovedAll(d)]_vars
  <2> SUFFICES ASSUME FirstInv, NEW d \in Databases, SeedFails(d) PROVE RemovedAll(d)
    OBVIOUS
  <2>1. ~HasAdmin(d) /\ users[d][DefaultAdmin].life # "absent"
    BY DEF SeedFails, Counted
  <2>2. HasFirst(d)
    BY <2>1, SetupAssumption DEF FirstInv, Founded
  <2>3. \A n \in Names : First(users[d][n]) => users[d][n].changed
    BY <2>1 DEF FirstInv, FirstRows, HasAdmin
  <2> QED
    BY <2>2, <2>3 DEF RemovedAll
<1> QED
  BY <1>1, <1>2, <1>3, TypeCorrect, PTL DEF Spec
=============================================================================
