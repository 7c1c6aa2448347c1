------------------------------- MODULE Setup -------------------------------
(***************************************************************************)
(* The life of a deployment around one process: main chooses the setup     *)
(* wizard or the normal start by looking at data/config.yaml and the       *)
(* environment; the wizard creates an administrator and then writes that   *)
(* file, in separate steps, and ends the process; a supervisor starts it   *)
(* again; the normal start loads the file and makes sure that there is an  *)
(* administrator, whom the user handlers may remove later on.              *)
(*                                                                         *)
(* internal/setup/setup.go, main.go, config/config.go, internal/api/users.go *)
(***************************************************************************)
EXTENDS Naturals

CONSTANTS
  Tabs,             \* browser tabs that show the wizard
  Names,            \* user names, each with its e-mail address: both columns are unique
  DefaultAdmin,     \* STATUSY_ADMIN_USERNAME, or "admin"
  Databases,        \* what a type and a DSN may name
  Quoted,           \* those whose DSN holds a quote or a backslash
  DefaultDatabase,  \* the DSN of a configuration that names none
  NoDatabase,
  Faults            \* "crash", and "db": a statement, a connection or a file operation fails

ASSUME SetupAssumption ==
  /\ DefaultAdmin \in Names
  /\ DefaultDatabase \in Databases
  /\ NoDatabase \notin Databases
  /\ Quoted \subseteq Databases
  /\ Databases \cap {"none", "partial", "garbled"} = {}

VARIABLES
  env,      \* STATUSY_DATABASE_DSN and STATUSY_AUTH_JWT_SECRET
  mode,     \* "off", "setup", "normal"
  failed,   \* why the last start ended, "no" after one that did not
  serving,  \* the database of the normal mode
  file,     \* data/config.yaml: "none", cut short, not YAML, or the database it names
  users,    \* the users table of every database, soft-deleted rows included
  wizard,   \* POST /api/setup/complete of every tab
  written,  \* a handler has started signalSetupDone
  done,     \* setupDoneCh is closed
  opened    \* ghost: the tabs for which the file was opened

vars == <<env, mode, failed, serving, file, users, wizard, written, done, opened>>
-----------------------------------------------------------------------------
Environments == [dsn : Databases \cup {NoDatabase}, secret : BOOLEAN]

(* origin tells who inserted the row, changed whether a handler has taken   *)
(* the role or the row away; neither is stored.                             *)
Rows ==
  [life : {"absent", "live", "deleted"}, role : {"admin", "user"},
   origin : {"none", "wizard", "start", "blind", "handler"}, changed : BOOLEAN]

NoRow == [life |-> "absent", role |-> "user", origin |-> "none", changed |-> FALSE]

NewRow(role, origin) ==
  [life |-> "live", role |-> role, origin |-> origin, changed |-> FALSE]

(* A tab: filling the form, in one of the steps of handleSetupComplete, or  *)
(* sent to the login page.  overlapped: another handler has opened the file *)
(* or written to it while this one fills it.                                *)
TabStates ==
  [at : {"form", "create", "config", "fill", "answer", "login"},
   name : Names, db : Databases, overlapped : BOOLEAN]

AtForm == [at |-> "form", name |-> DefaultAdmin, db |-> DefaultDatabase, overlapped |-> FALSE]

IsWebSetupNeeded == file = "none" /\ ~(env.dsn # NoDatabase /\ env.secret)

(* The template puts the DSN as it is between double quotes: one with a      *)
(* quote or a backslash may read as another, or not as YAML at all.         *)
Readings(d) == IF d \in Quoted THEN Databases \cup {"garbled"} ELSE {d}

(* config.Load: a file that is not YAML never loads, one that was cut short *)
(* has no secret, and may not even parse; the environment goes before it.   *)
Loads(d) ==
  /\ file # "garbled"
  /\ file \in Databases \/ env.secret
  /\ d = IF env.dsn # NoDatabase THEN env.dsn
         ELSE IF file \in Databases THEN file ELSE DefaultDatabase

LoadFails == file \in {"partial", "garbled"} \/ (file = "none" /\ ~env.secret)

HasAdmin(d) == \E n \in Names : users[d][n].life = "live" /\ users[d][n].role = "admin"

WithRow(d, n, row) == [users EXCEPT ![d][n] = row]
-----------------------------------------------------------------------------
Init ==
  /\ env \in Environments
  /\ mode = "off"
  /\ failed = "no"
  /\ serving = NoDatabase
  /\ file = "none"
  /\ users = [d \in Databases |-> [n \in Names |-> NoRow]]
  /\ wizard = [t \in Tabs |-> AtForm]
  /\ written = FALSE
  /\ done = FALSE
  /\ opened = {}

(* main without a configuration. *)
StartWizard ==
  /\ mode = "off"
  /\ IsWebSetupNeeded
  /\ mode' = "setup"
  /\ failed' = "no"
  /\ UNCHANGED <<env, serving, file, users, wizard, written, done, opened>>

(* main ends with an error: the configuration does not load, ...            *)
StartFails(why) ==
  /\ mode = "off"
  /\ ~IsWebSetupNeeded
  /\ failed' = why
  /\ UNCHANGED <<env, mode, serving, file, users, wizard, written, done, opened>>

ConfigFails == LoadFails /\ StartFails("config")

(* ... or the database does not open or migrate.                            *)
ConnectFails == "db" \in Faults /\ (\E d \in Databases : Loads(d)) /\ StartFails("db")

(* What EnsureAdminExists counts: the error of the query is dropped.        *)
Counted(d) == {HasAdmin(d)} \cup (IF "db" \in Faults THEN {FALSE} ELSE {})

(* The normal start, with an administrator or with the default one added.   *)
StartNormal(d) ==
  /\ mode = "off"
  /\ ~IsWebSetupNeeded
  /\ Loads(d)
  /\ \E found \in Counted(d) :
       IF found
         THEN users' = users
         ELSE /\ users[d][DefaultAdmin].life = "absent"
              /\ users' = WithRow(d, DefaultAdmin,
                            NewRow("admin", IF HasAdmin(d) THEN "blind" ELSE "start"))
  /\ mode' = "normal"
  /\ serving' = d
  /\ failed' = "no"
  /\ UNCHANGED <<env, file, wizard, written, done, opened>>

(* The insert fails: a row of that name exists, perhaps a soft-deleted one. *)
SeedFails(d) ==
  /\ Loads(d)
  /\ FALSE \in Counted(d)
  /\ users[d][DefaultAdmin].life # "absent"
  /\ StartFails("admin")

(* The process ends, by a signal or by itself; what it had in memory is     *)
(* gone, and a tab that was waiting for an answer shows the form again.     *)
End ==
  /\ mode' = "off"
  /\ serving' = NoDatabase
  /\ wizard' = [t \in Tabs |-> IF wizard[t].at = "login" THEN wizard[t] ELSE AtForm]
  /\ written' = FALSE
  /\ done' = FALSE
  /\ UNCHANGED <<env, failed, file, users, opened>>

Kill == "crash" \in Faults /\ mode # "off" /\ End
-----------------------------------------------------------------------------
(* The wizard *)

At(t, place) == mode = "setup" /\ wizard[t].at = place

Goes(t, place) == wizard' = [wizard EXCEPT ![t].at = place]

(* The same of a step that opens the file or writes to it. *)
GoesInFile(t, place) ==
  wizard' = [u \in Tabs |->
    IF u = t THEN [wizard[u] EXCEPT !.at = place]
    ELSE IF wizard[u].at = "fill" THEN [wizard[u] EXCEPT !.overlapped = TRUE]
    ELSE wizard[u]]

WizardFrame == UNCHANGED <<env, mode, failed, serving, done, opened>>

(* A form that validates arrives, its database opens and is migrated.       *)
Submit(t, n, d) ==
  /\ At(t, "form")
  /\ wizard' = [wizard EXCEPT ![t] = [at |-> "create", name |-> n, db |-> d,
                                      overlapped |-> FALSE]]
  /\ WizardFrame
  /\ UNCHANGED <<file, users, written>>

(* Mutants: the error of the insert is dropped; the role is left out and    *)
(* the column's default taken.                                              *)
CreateAdminUnchecked(t) ==
  /\ At(t, "create")
  /\ LET n == wizard[t].name  d == wizard[t].db IN
       \/ users[d][n].life = "absent" /\ users' = WithRow(d, n, NewRow("admin", "wizard"))
       \/ users' = users
  /\ Goes(t, "config")
  /\ WizardFrame
  /\ UNCHANGED <<file, written>>

CreateAdminNoRole(t) ==
  /\ At(t, "create")
  /\ users[wizard[t].db][wizard[t].name].life = "absent"
  /\ users' = WithRow(wizard[t].db, wizard[t].name, NewRow("user", "wizard"))
  /\ Goes(t, "config")
  /\ WizardFrame
  /\ UNCHANGED <<file, written>>

(* The administrator is inserted; with a name that is taken the handler     *)
(* answers 500.                                                             *)
CreateAdmin(t) ==
  /\ At(t, "create")
  /\ LET n == wizard[t].name  d == wizard[t].db IN
       IF users[d][n].life = "absent"
         THEN users' = WithRow(d, n, NewRow("admin", "wizard")) /\ Goes(t, "config")
         ELSE users' = users /\ Goes(t, "form")
  /\ WizardFrame
  /\ UNCHANGED <<file, written>>

(* writeConfig: os.Create truncates the file ... *)
OpenConfig(t) ==
  /\ At(t, "config")
  /\ file' = "partial"
  /\ GoesInFile(t, "fill")
  /\ opened' = opened \cup {t}
  /\ UNCHANGED <<env, mode, failed, serving, users, written, done>>

(* Mutant: the DSN is taken from the environment, set or not. *)
FillFromEnvironment(t) ==
  /\ At(t, "fill")
  /\ file' = env.dsn
  /\ Goes(t, "answer")
  /\ written' = TRUE
  /\ WizardFrame
  /\ UNCHANGED users

(* ... and the template is written into it, piece by piece: what another    *)
(* handler has truncated or written meanwhile may spoil it.                 *)
FillConfig(t) ==
  /\ At(t, "fill")
  /\ \/ file' \in Readings(wizard[t].db)
     \/ wizard[t].overlapped /\ file' = "partial"
  /\ GoesInFile(t, "answer")
  /\ written' = TRUE
  /\ WizardFrame
  /\ UNCHANGED users

(* Mutant: the error of the template's execution is dropped. *)
WizardFailsSilently(t) ==
  /\ "db" \in Faults
  /\ wizard[t].at \in {"create", "config", "fill"}
  /\ Goes(t, IF wizard[t].at = "fill" THEN "answer" ELSE "form")
  /\ WizardFrame
  /\ UNCHANGED <<file, users, written>>

(* One of the steps fails and the handler answers 500; what the earlier     *)
(* steps did stays, and some pieces of the template.                        *)
WizardFails(t) ==
  /\ "db" \in Faults
  /\ \/ wizard[t].at \in {"create", "config"} /\ Goes(t, "form") /\ file' = file
     \/ /\ wizard[t].at = "fill"
        /\ GoesInFile(t, "form")
        /\ file' = file \/ (wizard[t].overlapped /\ file' = "partial")
  /\ WizardFrame
  /\ UNCHANGED <<users, written>>

(* The answer of a completed setup reaches the tab, which goes to the login. *)
Answer(t) ==
  /\ At(t, "answer")
  /\ Goes(t, "login")
  /\ WizardFrame
  /\ UNCHANGED <<file, users, written>>

(* Mutant: the signal is given only while the handler is still running. *)
SignalBeforeAnswer ==
  /\ mode = "setup"
  /\ \E t \in Tabs : At(t, "answer")
  /\ ~done
  /\ done' = TRUE
  /\ UNCHANGED <<env, mode, failed, serving, file, users, wizard, written, opened>>

(* signalSetupDone runs in a goroutine of its own, beside the answer; the   *)
(* callback that shuts the server down is another one.                      *)
SignalSetupDone ==
  /\ mode = "setup"
  /\ written
  /\ ~done
  /\ done' = TRUE
  /\ UNCHANGED <<env, mode, failed, serving, file, users, wizard, written, opened>>

(* The select of runSetupMode takes SetupDone and main returns: it waits    *)
(* neither for the shutdown nor for a handler.                              *)
LeaveSetup == mode = "setup" /\ done /\ End
-----------------------------------------------------------------------------
(* The handlers of internal/api/users.go that change roles and rows *)

UsersFrame == UNCHANGED <<env, mode, failed, serving, file, wizard, written, done, opened>>

CreateUser(n, role) ==
  /\ mode = "normal"
  /\ users[serving][n].life = "absent"
  /\ users' = WithRow(serving, n, NewRow(role, "handler"))
  /\ UsersFrame

UpdateUser(n, role) ==
  /\ mode = "normal"
  /\ users[serving][n].life = "live"
  /\ users' = WithRow(serving, n,
       [users[serving][n] EXCEPT !.role = role, !.changed = @ \/ role = "user"])
  /\ UsersFrame

DeleteUser(n) ==
  /\ mode = "normal"
  /\ users[serving][n].life = "live"
  /\ users' = WithRow(serving, n, [users[serving][n] EXCEPT !.life = "deleted", !.changed = TRUE])
  /\ UsersFrame
-----------------------------------------------------------------------------
Start ==
  \/ StartWizard
  \/ ConfigFails
  \/ ConnectFails
  \/ \E d \in Databases : StartNormal(d) \/ SeedFails(d)

Complete(t) ==
  CreateAdmin(t) \/ OpenConfig(t) \/ FillConfig(t) \/ WizardFails(t) \/ Answer(t)

Next ==
  \/ Start
  \/ Kill
  \/ \E t \in Tabs : Complete(t) \/ \E n \in Names, d \in Databases : Submit(t, n, d)
  \/ SignalSetupDone
  \/ LeaveSetup
  \/ \E n \in Names :
       \/ \E role \in {"admin", "user"} : CreateUser(n, role) \/ UpdateUser(n, role)
       \/ DeleteUser(n)

Spec == Init /\ [][Next]_vars

(* Handlers and goroutines run; the supervisor starts the process again.    *)
Fairness ==
  /\ WF_vars(Start)
  /\ \A t \in Tabs : WF_vars(Complete(t))
  /\ WF_vars(SignalSetupDone)
  /\ WF_vars(LeaveSetup)

FairSpec == Spec /\ Fairness
-----------------------------------------------------------------------------
(* Properties *)

(* Every variable keeps its type. *)
TypeOK ==
  /\ env \in Environments
  /\ mode \in {"off", "setup", "normal"}
  /\ failed \in {"no", "config", "db", "admin"}
  /\ serving \in Databases \cup {NoDatabase}
  /\ (mode = "normal") = (serving # NoDatabase)
  /\ file \in Databases \cup {"none", "partial", "garbled"}
  /\ users \in [Databases -> [Names -> Rows]]
  /\ wizard \in [Tabs -> TabStates]
  /\ written \in BOOLEAN
  /\ done \in BOOLEAN
  /\ opened \subseteq Tabs

(* The configuration never comes from a DSN whose database no wizard has    *)
(* given an administrator, wherever the process was killed, a step failed   *)
(* or two tabs overlapped: the file is written last (setup.go:221-239).  A  *)
(* plain DSN is the only one that reads as itself and nothing else.         *)
ConfigIsSetUp ==
  file \in Databases =>
    \E d \in Databases, n \in Names : file \in Readings(d) /\ users[d][n].origin = "wizard"

(* A system that the wizard has set up is never given the default           *)
(* administrator while the wizard's still has its row and role              *)
(* (setup.go:302-307).  A start whose count failed is left out: it adds one *)
(* whatever the table holds.                                                *)
DefaultOnlyAfterRemoval ==
  \A d \in Databases :
    users[d][DefaultAdmin].origin = "start" /\ env.dsn = NoDatabase /\ d = file =>
      \A n \in Names : users[d][n].origin = "wizard" => users[d][n].changed

(* The handler of only one tab has got as far as the file. *)
OneWriter == \A t, u \in opened : t = u

(* Once a tab has been told that the setup is complete, the file is for     *)
(* good what its DSN reads as, which is that database for a plain DSN only, *)
(* and its administrator's row is there for good, unless another tab's      *)
(* handler has opened the file, too (setup.go:206-248).                     *)
AnsweredSurvives ==
  \A t \in Tabs :
    wizard[t].at = "login" /\ OneWriter =>
      /\ file \in Readings(wizard[t].db)
      /\ users[wizard[t].db][wizard[t].name].origin = "wizard"

(* setup.go:298-299: EnsureAdminExists "checks if any admin user exists in  *)
(* the DB.  If not, it creates one", so that a start with a database that   *)
(* works does not end there.                                                *)
AdminEnsured == failed # "admin"

(* No tab that fills the file has chosen a DSN that may read as another.    *)
PlainWriters == \A t \in Tabs : wizard[t].at = "fill" => wizard[t].db \notin Quoted

Disturbance == Kill \/ ConnectFails \/ \E d \in Databases : SeedFails(d)

(* Once a handler has written the configuration the process leaves the      *)
(* wizard and comes up in normal mode, whether or not the tab was answered, *)
(* if crashes and faults end, no other handler opens the file and the DSN   *)
(* is a plain one (setup.go:84-94, main.go:146-154).                        *)
SetupCompletes ==
  <>[][~Disturbance]_vars /\ []OneWriter /\ []PlainWriters => (written ~> mode = "normal")
=============================================================================
