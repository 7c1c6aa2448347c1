# Statusy in TLA+

Statusy is an uptime monitor: one Go process with a database, a web client
embedded in it, and one goroutine per monitor. This directory holds TLA+ models
of its parts, TLC configurations that check them on small instances, and proofs
that TLAPS checks for every value of the constants. Paths below are relative to
`src/`.

## 1. The system

### Parts, their state and operations

| part | code | state | operations |
|---|---|---|---|
| store | `internal/models`, `internal/monitors/handlers.go`, gorm | tables `monitors`, `notifications`, `monitor_notifications`, `check_results` | REST handlers: create, update, delete, pause, resume, set channels; create, update, delete, test a channel |
| engine | `internal/monitors/engine.go` | `workers` (registry), `stopCh`, `certNotifiedOn`, one goroutine per worker with the row it read | `Start`/`reload` every 30 s, `Stop`/`stopAll`, a worker's tick, check, writes, alerts, certificate reminder |
| checkers | `internal/monitors/checkers.go` | none | ten check types, each a verdict and a message |
| dispatcher | `internal/notifications/dispatcher.go` | a channel of 256 alerts, `stopCh` | `Send`, `Run`, `Stop`, `dispatch` |
| senders | `internal/notifications/{smtp,slack,telegram}.go` | none | one attempt per alert |
| metrics | `internal/metrics/prometheus.go` | gauges and counters per monitor | `UpdateMonitor`; `UpdateSSLDays` and `UpdateDomainDays`, which nothing calls |
| lifecycle | `main.go` | mode (setup or normal), signals | start, SIGTERM: engine.Stop, dispatcher.Stop, server shutdown |
| setup | `internal/setup/setup.go`, `config`, `internal/database` | `config.yaml`, the admin row, setup-done channel | decide the mode, complete the wizard, seed an admin |
| auth | `internal/auth` | token blacklist, users | login, logout, refresh, check a token, LDAP provisioning |
| access, users, status pages, integrations | `internal/api` | users, status pages and their two lists, one integration row | CRUD handlers, role check, private pages |
| web client: sessions | `frontend/src`: `App.tsx`, `api/client.ts`, `contexts/AuthContext.tsx`, `pages/Login.tsx` | two tokens in localStorage, shared by all tabs; a user per tab | restore, login, logout, token on every call, removal and reload on a 401, guards of the routes |
| web client: pages | `pages/{Dashboard,Monitors,Notifications,StatusPages,Users,StatusPageView}.tsx` | one cached query, dialogs, mutations under way | poll, open, save, delete, refetch after a change |
| web client: links | `pages/MonitorDetail.tsx`, the selectors of `pages/StatusPages.tsx` | a cached row, the ticks of an open selector | toggle a channel, save a selection |
| web client: forms | the forms of `Monitors`, `Notifications`, `StatusPages`, `Users`, `Login`, `Setup` | one object of inputs, a type, a step | edit, change the type, validate, send |
| web client: settings | `pages/Integrations.tsx` | a cached query and a form filled from it | edit, save |
| web client: figures | `Dashboard`, `MonitorDetail`, `StatusPageView`, `UptimeBars`, `MonitorCard` | none | percentages, counts, bars, banners |

### How they interact

* Handlers and engine share only the database. Handlers never call the engine:
  `StartMonitor` and `StopMonitor` have no caller. The engine sees what a
  handler did in its next reload, a worker in the next row it reads.
* Workers call `Dispatcher.Send`, which does not block; the dispatcher's own
  goroutine makes the network calls. The test handler calls `Send` too.
* `main` starts the dispatcher, the engine and the server, and on a signal
  closes the two stop channels without waiting for either goroutine.
* The client's queries and mutations meet the handlers; nothing is pushed to the
  client, which learns of the engine's and other people's writes by polling.
  Tabs share only localStorage, and do not listen to its changes.
* The wizard writes an admin and `config.yaml`, and the process exits so that
  its supervisor starts it again in normal mode.

### What is hard about it

* **Interleaving.** A check lasts up to its timeout; the row it started from is
  used after it. `reload` reads the active rows before it takes its lock. A
  monitor that is paused and resumed can have two goroutines for a while.
  gorm's `Replace` is two statements.
* **Failure.** Errors of a worker's statements are dropped; a failed read ends
  the worker, whose registry entry stays. A crash between two statements keeps
  the first.
* **Ordering.** `Run`'s select takes an alert or the stop signal when both are
  ready; senders go on sending during the drain and after it.
* **Stale views.** A page sends back lists that it computed from what it last
  fetched; fetches under way are cancelled, joined or overtaken by its own
  changes; a page that is left and opened again knows nothing of its calls under
  way; a 401 to an old call meets a new session.
* **Time.** A check that ignores its context outlasts the reload that cancelled
  it. Reminders are once per UTC day, kept in memory.

What makes each part correct: *store* — a list of channels is the last one
somebody asked for; *engine* — the registry and the goroutines agree, every
place that shows a monitor's state tells the same story, channels know the
current status, active monitors are checked for ever and the others not at all;
*dispatcher* — alerts are neither lost inside, repeated nor reordered, and Stop
drains; *setup* — after it completes, the process starts in normal mode with
exactly the admin that was asked for; *auth* — a revoked token opens nothing
and a refresh token is used once; *status pages* — a private page is shown to
the users on its list only; *sessions* — an accepted session is not lost to an
answer meant for another, an ended one is noticed in every tab, and a public
page needs none; *pages* — a change that was answered stays in sight, and a
polling page settles on what is stored; *links* — no click is lost, and the last
call decides; *forms* — what is sent has what its reader needs; *figures* — the
pages do not contradict each other.

## 2. Modules

| module | what it is |
|---|---|
| `Store` | the three tables and the handlers of `handlers.go`; one action per SQL statement |
| `Engine` | `EXTENDS Store`; the supervisor and the workers of `engine.go`, with the metrics gauge, the history, faults, crash and restart |
| `MCEngine` | values for `Engine`'s constants, views and symmetry |
| `Setup` | one deployment around `main`: mode choice, the wizard of `setup.go` step by step, the normal start, user handlers, restarts |
| `Certificates` | an HTTPS and an SSL monitor of one site over time: `checkHTTP`, `checkSSL`, and the reminders |
| `Outbox` | what callers of `Send` may count on: one bounded line of alerts |
| `Dispatcher` | `dispatcher.go`; implements `Outbox` with `line <- Line` |
| `Query` | operators on the record of one cached query (react-query) |
| `Session` | tabs with one local storage, their calls, and the server's view of tokens |
| `MCSession` | a value for a constant of `Session` |
| `ListPages` | the six pages that show a list, with dialogs and mutations |
| `Selection` | the links of one row: channel toggles and the selectors, against two-statement `Replace` |
| `Forms` | all forms, and what checkers, senders and setup read of them |
| `Settings` | the Prometheus settings page and its handlers |
| `Figures` | the numbers, bars and banners of the pages, over growing histories |
| `WebClient` | the six client modules side by side, for one run |
| `EngineProofs` (with `Store`'s lemmas), `DispatcherProofs`, `SetupProofs`, `CertificatesProofs`, `SessionProofs`, `FiguresProofs` | theorems and lemmas about one module each |
| `PagesProofs` | about `Selection`, `ListPages`, `Forms`, `Settings`, and about `WebClient` |
| `AgreementProofs` | on top of `EngineProofs`: what the row, the counter, the gauge, the channels and the registry say of one monitor |

Definitions named *Mutant* in a comment are faulty versions of the definition
after them. No specification uses them; they show, put in its place, that a
property can fail.

### Store

`monitor`, `channel` and `attached` are the tables; `requests` holds handlers
that are between two of their statements: `POST /api/monitors` inserts the row
(`CreateMonitor`), then attaches all channels (`AttachAll`), and `PUT
.../notifications` inserts the new join rows (`SetMonitorNotifications`) before
`Prune` deletes the others. `RequestFails` is a failing second statement; the
first is not undone, as in the code. Deletes are gorm's soft deletes: a deleted
row keeps its join rows, and no statement through a model finds it. `Updates`
with a struct skips zero fields, so a flag cannot be turned off by PUT, and a
default of true turns a false flag to true on insert (`NonZero`, `NewMonitor`,
`NewChannel`). Bodies hold the fields that steer the engine (`interval`,
`active`, the alert rules); a body that sets `Status` or the counter directly is
not something the client sends and is left out, and so are negative intervals.

### Engine

`ReloadLoad` is the query of `reload`, `ReloadSync` what it does under `e.mu`:
`Obsolete` workers are cancelled and their entries deleted, `Missing` ones are
started. `workers` maps a monitor to the goroutine that its entry can cancel,
and `go[m][s]` is goroutine `s` of monitor `m` with the program counter

    check -> message -> status -> load -> send -> cert -> certload -> certsend -> idle

one step per SQL statement or call of the dispatcher, in the order of
`runCheck` and `maybeSendCertExpiryNotification`. A goroutine carries the status
and the counter of the row it read (`Tick`), which `StatusChanged` and
`ConsecutiveFailures` use however the row has changed since; `StatusKept`
increments in the database instead. `Exit` and `Tick` are both enabled for a
cancelled worker whose ticker is ready, as in Go's select. `Stored` is whether a
statement whose error the code drops took effect. `certload` and `cert` happen
for https monitors; whether the message holds a warning is a free choice.

A check is one step with either verdict: this includes the DOWN that a check
reports because its context was cancelled in the middle.

Ghosts: `history` (the newest result and the length of its run of failures),
`said` (the last status alert handed over per linked channel) and `reminders`
(decided today, since the process started).

`SlowChecks` says whether a cancelled worker may still be busy when the next
reload reads the table, 30 s later. Most checks give up when they are
cancelled; a UDP check keeps its own deadline (`checkers.go:319-358`) and a
WHOIS query has none (`484-521`), so TRUE is the general case. With TRUE a
cancelled worker can write its verdict after the monitor's next worker has
written its own, and `DashboardAgrees`, `FailuresCounted` and `AlertsAgree` can
fail until the successor's next change; `StatusConverges` says that the status
recovers. Those three invariants are checked with FALSE.

### Dispatcher and Outbox

An alert is its number in the order of the calls of `Send`. `queue` is the
channel, `current` the alert in `dispatch`, `run` where `Run` is: its outer
select (`select`), its inner one (`drain`), in `dispatch` from either, or
`returned`. `Line` is `current` and `queue` together; with it for `line` the
dispatcher implements `Outbox`. The payload does not steer the dispatcher: every
type of channel gets one attempt, and an error is logged.

### Setup

One process at a time, in `mode` *off*, *setup* or *normal*, over one file and
the users tables of the databases that a wizard or the environment can name.
`StartWizard`, `ConfigFails`, `ConnectFails`, `StartNormal` and `SeedFails` are
the ways through the head of `main`. A tab's request takes the steps

    form -> create -> config -> fill -> answer -> login

(`Submit`, `CreateAdmin`, `OpenConfig`, `FillConfig`, `Answer`); `WizardFails`
is a failing one, after which the handler answers 500 and the form is shown
again. `os.Create` truncates before the template is written, so the file is
*partial* in between, which `config.Load` takes for a configuration without a
secret (or does not parse): the environment may still supply one. Two handlers
that have the file open can spoil it for each other: `overlapped` marks the one
that was disturbed, whose file may then be partial. `SignalSetupDone` is the
goroutine of `signalSetupDone`; `main` returns on it without waiting for
anything, so `LeaveSetup` may cut off any handler.

The template puts the DSN between double quotes as it is. Of a DSN with a quote or
a backslash, in a password or a path, YAML may make another one or nothing that
loads. `Quoted` are the databases with such a DSN and `Readings` what a file says
that was filled from one: any database, or *garbled*, which never loads. So
`ConfigIsSetUp` and `AnsweredSurvives` say of such a DSN only that the file is one
of its readings, and nothing of the database it then names: the wizard answers
*setup complete*, and later starts may fail or use another database.

The users tables hold what a start looks at: soft-deleted rows keep their place
in the unique indexes (`life`), the count of `EnsureAdminExists` is of live
administrators, and an error of that count reads as zero (`Counted`). `origin`
and `changed` are ghosts: who inserted a row, and whether a handler took its
role or the row away since. `opened` is a ghost, too.

### Certificates

Time in ticks, `TicksPerDay` to a day. `Days` is `int(d.Hours()/24)`, towards
zero. A client that verifies certificates does not get through to a site whose
certificate has expired, so `Handshake` comes before a new connection, and the
branch *expired* of both checkers is only reached in the last day
(`ExpiredMeansLastDay`, which is proved). `checkHTTP` sends its request through
the default transport, which may have `kept` a connection of an earlier check: a
request over it (`reused`) needs no handshake and is answered after the
certificate's end, too. The expiry is read over a connection of its own, whose
handshake then fails, and the code answers UP (*TLS cert check failed*). `Hidden`
is this case, the one exception of `OnlyRenewalRecovers`: the outage of the last day
may end without a renewal while the connection lives. The transport closes an
idle one after 90 s, so that this takes an interval shorter than that; the model
lets a connection be kept for ever or be lost at any check.

`RunHTTPS` includes the reminder that follows the check. The ghosts relate results
to the certificate that is installed: `watched`, `served`, `reminders`. The
replies are none, one that is accepted (204, beside which the list of accepted
statuses has an entry that counts as none) and one that is not (500).

### Query

A query is its data, whether a fetch is idle, asked or answered, the answer on
its way, and whether the last fetch failed. `Fetched` joins a fetch under way
(mount, focus, interval); `Invalidated` cancels it and begins again, except the
first fetch of all, which it joins; `Put` is `setQueryData`, which leaves a
fetch alone. Retries are part of one fetch. The library is not in the
repository, so that these operators are external: they say what version 5 of it
documents.

### Session

`store` is the access token in localStorage, `dead` the tokens that the server
no longer accepts, `path`, `checked`, `user` and `asks` what each tab has. A
call carries the token that was stored when it was sent (the request
interceptor), and may be accepted if that token was good then or is now, refused
if it is not. `BlacklistFails` is the other 401 of `Authenticate`, which answers
a failing query of the blacklist as it does a revoked token, so that such a
failure ends an accepted session. `Expel` is the response interceptor on a 401:
it removes whatever is stored and loads `/login` as a new document. `Visit` is a
load, which restores the session if a token is there (`Restoring`). The pages of
the app are one path. The role of a user, and with it `AdminRoute`, is left out:
a missing right is one of the failures of `PageFails`. Tokens are numbers in the
order of issue.

What the module also shows, and no document contradicts: a wrong password is a
401 like any other, so that the page is loaded again and its own message *Invalid
username or password* (`Login.tsx:22`) is not seen, and a session of another tab
is removed with it; a network error during a restore ends the session
(`AuthContext.tsx:27-31`); a logout removes a newer token of another tab. These
are the exceptions in `FreshSessionKept`.

### ListPages

`table` is the number of writes that the table has had, which is all a query has
to tell apart. The pages are data (`polls`, `head`, `row`, `direct`, `once`,
`found`, `errors`). A mutation is `Submit`, `Handle` (the server's write, a
refusal, or a lost answer), then `Succeed`, which invalidates and closes the
dialog of its operation, or `Fail`, which does nothing: no page has an
`onError`. `confirmed` is a ghost. Of a call whose answer is lost the client
does not learn which write was its own. The edit dialogs of `Monitors` and
`Users` are in the code, and nothing opens them.

### Selection

`links` is the join table of one row, `shown` the tab's query of it, `change` the
calls under way, each through the two statements of gorm's `Replace`
(`ReplaceInserts`, `ReplaceRemoves`). A call belongs to one of `Callers`: to the
component that is mounted (*tab*), to a dialog that was cancelled meanwhile
(*left*), to a page that was left (*gone*), or to *others*. Pending is state of
the component: what is mounted next has nothing under way, while the old call
goes on and its `onSuccess` still runs (`LeftStored` closes the dialog that is open
then, `GoneStored` fetches what a page shows). `VisitPage` finds the cache as it
was left, with a new fetch or without, or empty.

With `widget` *buttons* the mutation returns the invalidation and stays pending
until the fetch is over (`NotifsStored`, `Settled`); with *dialog* it does not wait
(`SelectionStored`). `meant` is what the clicks on the buttons ask for. `met` and
`alone` are ghosts for overlapping calls; after a failed statement or fetch
nothing more is begun, as nothing is claimed.

Two calls that overlap can leave fewer links than either asked for, also none;
the code has no transaction around `Replace`. `ListIsLastCall` says what remains
true. A selector opened before the fetch after the own last change is over starts
from the links before that change, and saving it takes the change back:
`SelectorStartsTrue` excepts it. The ghost `astray` marks that the page was left while a
change was not settled: the buttons of the next visit are enabled over the cached
list from before it, and the next click drops that change. `TogglesKept` and
`SelectorStartsTrue` are about the behaviours without it.

### Forms

`form` maps each input to one of a few values: *unset* (no such key), *empty*,
*low* (a number below what is of use, a short password, the unsupported record
type, a path that begins with `$.`), *preset*, *good*. `Inputs` are the inputs
that are rendered for the chosen type, with their HTML attributes; `Valid` is
the browser's constraint validation. `CheckReads` (what a checker needs),
`MayRead` (what it takes if it is there), `SenderReads` and `SetupReads` are
translated from the Go code that reads the row. All inputs of a monitor are in
one object, and a change of type hides inputs without emptying them. So
`SentFormsWork` also says that whatever a checker may read of a sent monitor is
blank or still on the screen. `KnownGap` lists the forms that are accepted and
then do not work:

* an email channel: the form writes `to`, the sender reads `recipients`;
* a DNS monitor whose record type was not touched is shown as A and stored
  empty; NS can be chosen and is not supported;
* the threshold of a response-time monitor is shown as 1000 and stored as 0
  unless it is edited; an emptied port becomes 0;
* the wizard keeps PostgreSQL's port when MySQL is chosen;
* an expected value typed for a JSON monitor is demanded of a UDP monitor's
  answer, and a status or a list of statuses typed for another type of an HTTP or a
  JSON monitor's (`LeftOver`);
* the path in the form's own placeholder, `$.status`, is not one that
  `jsonPathGet` follows.

Nothing reads the method and the expected status of a response-time monitor, both
of which its form shows.

### Settings

`row` is the stored setting, `cached` the query, `draft` the form. `Filled` is
the effect that copies the query's data into the form when they change, over
whatever has been typed meanwhile. `SaveAnswered` puts the answer into the query
and fetches nothing. The page can be left and visited again; a save that is under
way goes on (`left`), and the next visit can send another one.

`PutNameless` is the branch of the PUT handler for a read that failed with anything
but *not found*: it saves the empty row that the read left, with no name, and
answers as if it had written the settings. The name is unique, so that this is
possible once; later ones are refused, which `SaveLost` covers.

`SavedSettingsShown` has four exceptions, each a ghost: somebody else saved
(`foreign`), a fetch was under way when the answer came, whose older answer may be
put over it (`overlap`), two saves of the tab crossed (`crossed`), or the last one
went to the nameless row (`missed`).

### Figures

A monitor is its status, the first one has a history of at most `HistoryLimit`
results, the newest first, and a last message. The figures are operators over
this state: the Dashboard's counts and percentage, a monitor's uptime, average,
chart and table, the bars, the banner and the card of a status page, the
certificate's label. `Percent` is `Math.round`, halves up, as an integer
division.

### WebClient

The client's parts have no variable in common, so `WebClient` lets one of them
move (`scene`) while the others rest, and one run checks each in all its states.

## 3. Runs

| run | instance | what it shows |
|---|---|---|
| `engine_alerts` | 1 monitor (https), 1 channel, 1 goroutine at a time, all handlers, no faults, counter up to 3 | `DashboardAgrees`, `FailuresCounted`, `AlertsAgree`, `TypeOK` |
| `engine_workers` | 1 monitor, 2 goroutines, slow checks, failing statements, shutdown, crash, restart, 2 days | `NoStrayWorker`, `NoCancelledEntry`, `StoppedMeansCancelled`, `OneReminderPerDay` |
| `engine_live` | 1 monitor, 2 goroutines, slow checks, pause, resume, delete, shutdown, restart | `ActiveIsChecked`, `InactiveIsLeftAlone`, `StatusConverges`, `StopEndsAll`, `ReloadSyncs` |
| `dispatcher` | buffer of 2, 6 alerts, Stop at any moment | `Accounted`, `DrainedOnReturn`, `ImplementsOutbox`, `TakenIsServed`, `StopReturns`, `TypeOK` |
| `setup` | 2 tabs, 2 names, 2 databases, one with a DSN that may be misread, every environment, kills, failing steps | `ConfigIsSetUp`, `DefaultOnlyAfterRemoval`, `AnsweredSurvives`, `SetupCompletes`, `TypeOK` |
| `certificates` | 2 ticks a day, 33 days, certificates of 3 and 63 ticks, checks at least daily over fresh and kept connections, renewals, restarts | `RemindedInTime`, `SslWarnsFirst`, `OnlyRenewalRecovers`, `TypeOK` |
| `setup_seed` | 1 tab, user handlers, restarts | violated: after the last administrator is gone the process does not start |
| `engine_noise` | a channel with *after 2 failures* | violated: such a channel never hears of an outage |
| `engine_pause` | pause during a check | violated: MAINTENANCE is overwritten for good |
| `engine_dberror` | reads may fail | violated: the monitor is never checked again |
| `client_pages` | 2 tabs, one in the app and one on a status page, 2 tokens; 2 calls and 2 writes per list; 2 targets, 2 calls for the links, visits; 6 edits of a form; 2 settings, 2 saves, visits; 2 monitors, 4 results, 3 bars | `FreshSessionKept`, `SessionEndsEverywhere`, `OwnSavesShown`, `ShownConverges`, `TogglesKept`, `SelectorStartsTrue`, `ListIsLastCall`, `SentFormsWork`, `SavedSettingsShown`, `FiguresHonest`, `WebTypeOK` |
| `public_page` | 1 tab on a public status page, without a session | violated: the bars on it take the visitor to `/login` |

`setup_seed`, `engine_noise`, `engine_pause`, `engine_dberror` and `public_page`
are disagreements between the code and what its comments or its
specification say; `PROJECT.json` quotes both sides. In `public_page`, the
page is fetched without a token by a client that has no interceptors, which
`client.ts:16-18` explains; the uptime bars of its monitors use the other client,
whose first 401 leaves the page.

One disagreement has no run of its own. A certificate that is valid for less than
a day is called expired by the comment at `checkers.go:120` (*Cert is actually
expired*), by the message (*TLS certificate expired on*) and by the card
(`MonitorCard.tsx:93,110`, *Cert expired*, *Expired*), since the days that are left
are cut off to 0; one that has expired gets none of these texts.
`CertificatesProofs!ExpiredIsLastDay` proves both.

**Bounds.** Workers of different monitors share nothing but the registry, which
is a map with one entry for each, and the reminder map, likewise; so one monitor
is enough for the interleavings, and the proofs are for any number of them. Two
slots let a cancelled worker overlap its successor; a third would let two
cancelled ones overlap, which the registry does not tell apart (the proofs are
for any number of slots; when none is free `ReloadSync` waits, so a run covers
the behaviours with at most two at a time). `MaxFails` saturates the counter: 3
leaves room for a threshold to be met and passed. `MaxRequests = 1` allows one
handler between its statements, beside any number of whole ones. Two days are a
day and its change. A buffer of two distinguishes empty, partly filled and full;
six alerts fill it twice over.

Two tabs are a disturbed handler and the one that disturbs it; two names are the
default administrator's and another; two databases are a right and a wrong one.
One of them has a DSN that may be misread. A certificate of 63 ticks outlives
the 30 days of the SSL monitor's threshold by more than a day, one of 3 ticks is
warned about from its first check; 66 ticks let each run out and be renewed. Two
ticks a day separate *today again* from *a day later*.

Two tabs are one that ends a session and one that notices; two tokens a session
and the one after it. Two writes let an own one and a foreign one, or an older and
a newer answer, cross; two call slots a second mutation during the first. Two
targets tell *added* from *removed*, and two calls are the two that overlap; one
cancelled dialog and one left page with a call under way are enough for two calls. Six
edits type the inputs of a type, change it and type those of the next: a
UDP monitor that keeps the expected value of a JSON one takes six (the type, the
expected value, the type again, the name, host and port). Two settings are the stored
and the typed one.
A history of four results with windows of three is cut on both ends; two monitors
give every banner.

**Views.** `WorkerView` and `ReminderView` hide the messages, the history, the
gauge, the failure counter and the requests, in runs without channels. No guard
reads them (a created monitor's request only attaches channels, and there are
none) and no property of those runs does, so that states with the same view have
the same futures in the view. Of a deleted row they keep that it is deleted: no
statement finds it again, and what a goroutine still knows of it is in `go`.
Slots are interchangeable in `engine_workers`, which checks no liveness.

**Deadlock** is not checked: the bounded models stop (the last alert, a stopped
engine whose monitors are all deleted), and the program may. That nobody waits
for ever where it matters is what the liveness properties say.

**Fairness.** Weak fairness of the reload steps and of the steps of a check: the
goroutines are runnable and every check has a timeout. A worker's ticker fires
again and again (weak fairness of `Tick \/ TickFails`). Taking `stopCh` in the
supervisor's select, and `ctx.Done()` in a worker's, compete with a ticker that
may be ready each time; Go chooses among ready cases at random, hence strong
fairness of `StopAll` and `Exit`. Handlers, faults, Stop, Restart and midnight
have none. Weak fairness of the dispatcher's select, and of `Dispatched`: the
latter assumes that a network call comes back, which the senders leave to the
operating system, as they set no deadline.

`SetupCompletes` has weak fairness of a start (the supervisor: `restart:
unless-stopped` in `docker-compose.yml`), of the steps of a handler, of the
goroutine of `signalSetupDone` and of `main`'s select. It is about behaviours in
which kills and faults come to an end and one handler only has opened the file:
a second one that truncates it just before `main` returns leaves a file without
a secret, and no later start succeeds. And it is about wizards with a DSN that
reads as it was typed (`PlainWriters`).

In the client, `SessionFairness` is weak fairness of what a loaded page does by
itself (the guards, the answer to the restore) and of its polling interval, and
strong fairness of an answer to a call that is made again and again; nobody has to
click, and no token has to expire. A browser may suspend the interval of a hidden
tab: the property is about tabs that can be seen. `ListFairness` is the same for
the list: the interval comes round (weak), and of the fetches that are made again
and again some is served and some answer arrives (strong), however many are lost
or cancelled. Mutations, dialogs and other people's writes have none.

`ActiveIsChecked` and `StatusConverges` assume `[]NoZombie`, that is, no worker of
an existing row died of a failed read: `engine_dberror` shows what happens
otherwise, and `WorkersSurvive` proves the assumption when no statement fails. All the
liveness properties of single monitors are about behaviours in which handlers,
Stop and Restart come to an end (`Undisturbed`).

## 4. Proofs

| theorem | statement |
|---|---|
| `EngineProofs!TypeCorrect` | `Spec => []TypeOK` |
| `EngineProofs!OneLiveWorker` | `Spec => []NoStrayWorker` |
| `EngineProofs!EntriesAreCurrent` | `Spec => []NoCancelledEntry` |
| `EngineProofs!StopReachesAll` | `Spec => []StoppedMeansCancelled` |
| `EngineProofs!RemindedOnceADay` | `Spec => []OneReminderPerDay` |
| `AgreementProofs!ReloadAchieves` | `Spec => ReloadSyncs`, if no statement of the engine fails |
| `AgreementProofs!DashboardIsConsistent` | `Spec => []DashboardAgrees`, likewise, and with `SlowChecks = FALSE` |
| `AgreementProofs!FailuresAreCounted` | `Spec => []FailuresCounted`, as before, and in one life of the process (`NoRestart`) |
| `AgreementProofs!AlertsAreTold` | `Spec => []AlertsAgree`, as before, with channels of threshold 1 (`AtOnce`) |
| `AgreementProofs!RecoveryIsTold` | `Spec => []RecoveryTold`, as `FailuresAreCounted`: for every threshold, the end of an outage reaches each channel that was told of it |
| `AgreementProofs!AlertsAlternate` | `Spec => NoAlertTwice`, as `RecoveryIsTold`: no channel is told the same thing twice in a row, but after a reset of the row or below its threshold |
| `AgreementProofs!WorkersSurvive` | `Spec => []NoZombie`, if no statement of the engine fails |
| `AgreementProofs!PauseHolds` | `Spec => RestIsKept`: a pause that outlives the goroutine of its monitor is final |
| `DispatcherProofs!TypeCorrect` | `Spec => []TypeOK` |
| `DispatcherProofs!NothingLostInside` | `Spec => []Accounted` |
| `DispatcherProofs!DrainsBeforeReturn` | `Spec => []DrainedOnReturn` |
| `DispatcherProofs!Refinement` | `Spec => ImplementsOutbox` |
| `SetupProofs!TypeCorrect` | `Spec => []TypeOK` |
| `SetupProofs!ConfigSetUp` | `Spec => []ConfigIsSetUp` |
| `SetupProofs!AnswerIsKept` | `Spec => []AnsweredSurvives` |
| `SetupProofs!DefaultAdminIsLast` | `Spec => []DefaultOnlyAfterRemoval` |
| `SetupProofs!LockoutNeedsRemoval` | a start ends for want of an administrator only where every first one was removed, if no statement fails |
| `CertificatesProofs!TypeCorrect` | `Spec => []TypeOK` |
| `CertificatesProofs!ExpiredIsLastDay` | `Spec => []ExpiredMeansLastDay`: what is called expired is valid |
| `CertificatesProofs!SslWarnsEarlier` | `Spec => []SslWarnsFirst` |
| `CertificatesProofs!RenewalOnly` | `Spec => OnlyRenewalRecovers` |
| `CertificatesProofs!RemindersPrecedeOutage` | `Spec => []RemindedInTime`, if `Gap <= TicksPerDay` |
| `PagesProofs!SelectionTypeCorrect`, `ListTypeCorrect`, `SettingsTypeCorrect` | the type invariants of `Selection`, `ListPages`, `Settings` |
| `PagesProofs!LastCallWins` | `SelectionSpec => []ListIsLastCall` |
| `PagesProofs!ClicksCount` | `SelectionSpec => []TogglesKept` |
| `PagesProofs!DialogStartsTrue` | `SelectionSpec => []SelectorStartsTrue` |
| `PagesProofs!OwnSaves` | `ListSpec => []OwnSavesShown` |
| `PagesProofs!SavedIsShown` | `SettingsSpec => []SavedSettingsShown` |
| `PagesProofs!SentForms` | `FormSpec => []SentFormsWork` |
| `PagesProofs!WebTypeCorrect` | `WebSpec => []WebTypeOK` |
| `PagesProofs!ClientKeepsPromises` | `WebSpec` keeps `FreshSessionKept` and all of the above promises of its parts, if `MaxMonitors < 200` |
| `FiguresProofs!PercentIsHonest` | 100 % means all and 0 % means none, of up to 199 |
| `FiguresProofs!FiguresAgree` | `FigureSpec => []FiguresHonest`, if `MaxMonitors < 200` |
| `SessionProofs!SessionTypeCorrect` | `SessionSpec => []SessionTypeOK` |
| `SessionProofs!SessionKept` | `SessionSpec => FreshSessionKept` |

But for the hypotheses named in the table, they rest on the named assumptions of
the modules' constants only (`StoreAssumption`, `EngineAssumption`,
`DispatcherAssumption`, `SetupAssumption`, `CertificatesAssumption`,
`SessionAssumption`, `ListPagesAssumption`, `SelectionAssumption`,
`FormsAssumption`, `SettingsAssumption`, `FiguresAssumption`), and hold for any
sets of monitors, channels and slots, any operations and faults, slow checks or
not, any buffer and number of alerts, any number of tabs, names and databases,
any grain of time, lifetimes and status codes, any number of tokens, calls,
writes, targets and edits.

*Engine.* The inductive invariant is `TypeOK /\ RegistryOK`, where `RegistryOK`
adds to `NoStrayWorker` and `NoCancelledEntry` that a stopped engine has an
empty registry. The first two need each other: a cancelled entry would hide a
second goroutine, and a stray goroutine could be reused. Every worker step is
shown once to be a `WorkerStep` (it does not touch the registry, does not change
whether it is cancelled, and dies or stays alive), from which the registry
invariant follows for all of them together. The reminder theorem adds
`ReminderInv`: a reminder that was counted today left today's date in the map.

*Agreement.* The hypotheses are the ones under which the code keeps these
promises, and TLC finds each promise broken without them:

* a failed read ends a worker and leaves its entry (`engine_dberror`), so that a
  reload does not start another one, and a failed write is dropped
  (`"db" \notin Faults`);
* a cancelled check that outlasts the next reload writes after its successor
  (`SlowChecks`, see Engine above);
* a crash, or a shutdown, between the write of a status and the alerts loses the
  alerts, and one between the result and the counter leaves them apart
  (`NoRestart`; the dashboard does not need it);
* a channel with *after 2 failures* hears of no outage (`engine_noise`), so that
  `AlertsAgree` is about threshold 1 (`AtOnce`); `RecoveryTold` is the half of it
  that holds for all thresholds.

`KnownMonitors` (a row that was never inserted has no worker) and `NoZombie` (a
live row's entry is that of a running goroutine) make the registry the truth
about who is at work, which is what `ReloadSyncs` is about. `OneGoroutine` says
that a monitor has one goroutine at most, and that the rows `reload` has read are
used while no cancelled worker is left. On this `Base` the story of one monitor
is followed along the program counter of that goroutine: `StatusInv` says which of
the gauge, the newest result, the message and the status are already the new
ones at each statement; that a stale copy of the status in a goroutine, or in the
rows of a reload, differs from the row only where a handler has put PENDING or
MAINTENANCE there. `CountInv` does the same for the counter, `ToldInv` for
what each channel was last told. Of a worker's steps each invariant looks at
those that write what it speaks of; that the others keep it is shown once, from
what they leave alone (`StoryFrame`, `ToldFrame`).

`RepeatInv` adds to `ToldInv` what a check compares its verdict with: from the
moment a reload has read the row until the last alert of the check, each channel
that was told something that is due knows the status the goroutine holds, and
what is told differs from it. Two exceptions are in the code, and `NoAlertTwice`
names them: a pause, a resume and the insertion set the status that the check
compares with to neither UP nor DOWN, and a channel that waits for a second
failure is told of a recovery only.

Two theorems say what is left of promises that runs find broken. `PauseHolds`
has no hypothesis at all: `engine_pause` needs a goroutine that is at work, or
rows that a reload has read, at the moment of the pause, and without either the
status MAINTENANCE goes only by a handler. `WorkersSurvive` is the other side of
`engine_dberror`.

*Dispatcher.* `QueueInv` says where every pending alert is: numbers in the queue
increase, all are greater than the current one, and the pending numbers are
exactly these. `StopInv` ties the drain to `stopped`. The refinement shows
`Send` to be `Take` or `Refuse`, `Dispatched` to be `Serve`, and every other
step to leave `Line` alone.

*Setup.* A row keeps its origin once inserted (`NextRows`, `OriginsStay`), and a
tab that is past `create` has its own row (`TabRows`): so what `FillConfig`
writes comes from the DSN of a database with such a row. For `AnswerIsKept`,
`AnswerInv` adds that a tab past `config` is in `opened` and, while `opened` has one
member, that no tab is `overlapped` and the file is a reading of an answered tab's
DSN, which for a DSN that is not `Quoted` is the tab's database: any step
that touches the file is another tab's, and enlarges `opened`. For
`DefaultAdminIsLast`, `SeedInv`: where a start has inserted its administrator and
no database comes from the environment, there is a file, no wizard runs any
more, and in that database, if the file names it, every wizard row was changed. It needs
`WizardRows` (who has passed `create` has a row) and `TabsRest` (handlers of the
wizard run in its mode only): a wizard's row that came after a start's would be
the counterexample.

`LockoutNeedsRemoval` is the other side of `setup_seed`. `FirstInv` says that a
row of a wizard or of a start that no handler has demoted or removed is a live
administrator's, and that a table with any row has such a first one, changed or
not, because handlers of users run in the normal mode only, which a start enters
with an administrator or adds one. So a start that finds none, and the default
name taken, finds that all first ones were removed. Where the count itself may
fail it is false: such a start looks for the default name beside live
administrators.

*Certificates.* Three facts about truncated division carry the proofs: `Days` is
monotone, not positive for what is past, and positive days mean a day at least.
The invariants say of each result how many days were left when it was found
(`LastDay`, `Caused`, `FewDays`, `ManyDays`); that time only passes does the
rest. An HTTPS monitor that a certificate has put down can come up with that
certificate only after its end, where the dial for the certificate fails: so
`RenewalOnly` needs the exception `Hidden`, and no other.

`ReminderInv` says that the last check was at most `Gap` ticks ago, that the day
of the last reminder is not after it, and that each of the `WarnDays` days before
the end that the checks have reached has its reminder; a check on a new day adds
that day, and only days that the checks skip could be missed. So
`RemindersPrecedeOutage` has the hypothesis that a day does not pass without a
check, `Gap <= TicksPerDay`. The intervals of the form allow longer ones: with `Gap
= TicksPerDay + 1` TLC finds an outage with a day of no reminder before it.

*Pages.* `ReplaceInv`: a call that has met no other one is alone between its
statements with its whole list among the links. `SoleInv`, for one tab at work:
from a click to the end of its call the tab knows what is wanted (`meant`), the
links follow in two steps, and whatever answer is under way when no call is, is
the links; the buttons get there because the mutation waits for the fetch. A page
that is left while nothing is under way leaves a cache that is the links, so that
a visit keeps this; with something under way the behaviour is `astray`. A cancelled
dialog's call invalidates the list like any other, and until then nothing is
claimed (`TabQuiet`).
`SavesInv`: an answer that is on its way contains every own write that has been
answered, since each such answer restarts the fetch; the exception is the first
fetch, before which nothing counts. `SettingsInv`: between an answer and the next
write the row, the query and every answer under way agree, and unless saves
`crossed` at most one is under way.

`FormInv` says what a form may hold: its fields are those of its kind
(`FieldsOf`), each with a value that its rule allows (`Held`), the keys of other
channel types are unset, the database inputs of the wizard stay filled on the
second step, and what is sent has passed the validation. Rule and values of an
input follow from its name alone (`RuleOf`, `InputRules`), which is why no order
of edits and changes of type can leave a value that the reader does not expect;
the gaps in `KnownGap` are the values that `Held` allows and the reader does
not. What a checker may take besides is never written, or is an input of its own
type and so still shown, or is one of the pairs in `LeftOver`
(`SentMonitorTakes`). `WebInv` puts the inductive type invariants of the six
parts, `FormInv` among them, side by side.

*Session.* The stored token goes in six actions; in two of them (a 401 to a
query, and to the call after a login) the refused token is not the stored one, as
that one is accepted (`RefusalIsStale`); the others, a failing query of the
blacklist among them, are the exceptions that the property names.

*Figures.* `FiguresAgree` is for any history and fewer than 200 monitors (with 200,
199 of them up are shown as 100 %). The counts rest on the cardinalities of the
four disjoint sets of monitors by status (`NumberFacts`), the newest results on
the positions in the windows (`ReverseFacts`, `FirstFacts`); `CertificateInv` ties
the last message to the newest result. The average and the number of incidents
are folds, and what a fold computes for every sequence takes an induction. The
provers cannot instantiate the library's induction theorems, which take an
operator; `Induction` is the same said of a set of numbers, and follows from the
least element of its complement, that is from the order on the numbers being
well founded as a set of pairs. A fold expands to the choice of a function, whose
existence `FoldExists` shows by that induction over the size of a finite set.

*The client.* `WebClient` lets its parts take turns. `ClientKeepsPromises` puts
`PromiseInv`, the inductive invariants of the five parts that need one beside
`WebInv`, side by side: a step of one part is a stutter of the others.

Only model-checked: what is under fairness, that is every liveness property.

## 5. What is not modelled yet, and the plan

In order of what matters:

1. `Statusy`: `main`, composing `Engine`'s workers with `Dispatcher` and the
   shutdown; which alerts a clean shutdown and a crash lose; reminders over
   restarts.
2. `Access`: the refresh handler with its separate statements, accounts changed
   beside their tokens, private status pages; abstractly, *a refresh token is
   used once*. The client never calls refresh; it keeps the refresh token and
   removes it.
3. `Verdicts`: the pure parts of the other checkers against reference
   definitions.
4. Metrics: label sets over renames.
5. Proofs: the invariants of `Statusy` and `Access` when they are there.

Known and not stated as a property: the worker keeps the ticker of the interval
it was started with (`Engine`'s `period`), although `engine.go:51` says that the
reload picks up updated monitors; the toggles of a form cannot turn a stored
flag off (`Store`'s `NonZero`); the texts say *permanently delete* where rows
are deleted softly; a private status page asks for a token that `publicApi`
never sends, so that its listed users see it as little as others; nothing reads
the method and the expected status that the form of a response-time monitor
shows; the bars are labelled with the last 30 checks beside a percentage over up
to 100.

Left out for good, as none of it keeps state that something else reads: the LDAP
client, routing, static files, templates, styles, the theme, the menu and
`AdminRoute`, tooltips and the search field, the three seconds for which the test
button of a channel shows its result, and the layout of messages. The handlers of
users and status pages are modelled as writes only, their validation not at all.
