------------------------------ MODULE Settings ------------------------------
(***************************************************************************)
(* The Prometheus settings: a form that is filled from a query and filled  *)
(* again whenever the query's data change, and a save whose answer is put  *)
(* into the query without a new fetch.  A setting is one of a few values.  *)
(*                                                                         *)
(* frontend/src/pages/Integrations.tsx; internal/api/integrations.go       *)
(***************************************************************************)
EXTENDS Naturals, Query

CONSTANTS
  SettingValues,  \* the settings that are entered
  DefaultValue,   \* the answer while nothing is stored, and the first form
  MaxSaves        \* bounds the saves of all people together

ASSUME SettingsAssumption ==
  /\ DefaultValue \in SettingValues
  /\ NoData \notin SettingValues
  /\ MaxSaves \in Nat

VARIABLES
  row,       \* the stored settings
  nameless,  \* there is a row with an empty name
  open,      \* the tab is at the page
  cached,    \* the query
  draft,     \* the state of the form
  saving,    \* the saves under way: [at, value]
  saves,     \* the saves so far
  overlap,   \* ghost: the last save was answered while a fetch was under way
  crossed,   \* ghost: the last two saves of this tab were under way together
  missed,    \* ghost: the last save that was answered went to the nameless row
  foreign,   \* ghost: somebody else has saved
  saved      \* ghost: the last value answered to a save of this tab, or NoData

settingsVars ==
  <<row, nameless, open, cached, draft, saving, saves, overlap, crossed, missed, foreign, saved>>
rowVars == <<row, nameless>>
saveGhosts == <<overlap, crossed, missed, foreign, saved>>
-----------------------------------------------------------------------------
(* The save that the page waits for, and one of a page that was left. *)
SaveSlots == {"tab", "left"}

Savings == [at : {"none", "sent", "written", "missed", "failed"}, value : SettingValues]

NoSaving == [at |-> "none", value |-> DefaultValue]

Saving(s) == saving[s].at # "none"

(* The effect on data: it runs when the data of the query are others.  What *)
(* the library gets back with equal contents it keeps as the old object.    *)
Filled(old, new) == IF open /\ new # NoData /\ new # old THEN new ELSE draft

SettingsInit ==
  /\ row = DefaultValue
  /\ nameless = FALSE
  /\ open = TRUE
  /\ cached = Fetched(Unfetched)
  /\ draft = DefaultValue
  /\ saving = [s \in SaveSlots |-> NoSaving]
  /\ saves = 0
  /\ overlap = FALSE
  /\ crossed = FALSE
  /\ missed = FALSE
  /\ foreign = FALSE
  /\ saved = NoData

(* The form is not rendered during the first fetch. *)
FormShown == open /\ ~(cached.data = NoData /\ cached.fetch # "idle")

EditSetting(value) ==
  /\ FormShown
  /\ value # draft
  /\ draft' = value
  /\ UNCHANGED <<open, cached, saving, saves>> /\ UNCHANGED rowVars /\ UNCHANGED saveGhosts

SaveSettings ==
  /\ FormShown
  /\ ~Saving("tab")
  /\ saves < MaxSaves
  /\ saves' = saves + 1
  /\ saving' = [saving EXCEPT !["tab"] = [at |-> "sent", value |-> draft]]
  /\ crossed' = Saving("left")
  /\ UNCHANGED <<open, cached, draft, overlap, missed, foreign, saved>> /\ UNCHANGED rowVars

(* Another route: what was typed and what was pending are lost, and a save  *)
(* under way goes on.                                                       *)
LeaveSettings ==
  /\ open
  /\ Saving("tab") => ~Saving("left")  \* a bound
  /\ open' = FALSE
  /\ draft' = DefaultValue
  /\ saving' = IF Saving("tab")
               THEN [saving EXCEPT !["tab"] = NoSaving, !["left"] = saving["tab"]] ELSE saving
  /\ UNCHANGED <<cached, saves>> /\ UNCHANGED rowVars /\ UNCHANGED saveGhosts

(* The form is filled from the cache, which is fetched again unless it is   *)
(* young, or was dropped after five minutes in which nobody used it.        *)
VisitSettings ==
  /\ ~open
  /\ open' = TRUE
  /\ \/ cached' = Fetched(cached)
     \/ cached.data # NoData /\ cached' = cached
     \/ cached.fetch = "idle" /\ cached' = Fetched(Unfetched)
  /\ draft' = IF cached'.data = NoData THEN DefaultValue ELSE cached'.data
  /\ UNCHANGED <<saving, saves>> /\ UNCHANGED rowVars /\ UNCHANGED saveGhosts

(* The row is created or replaced as a whole, and returned. *)
PutSettings(s) ==
  /\ saving[s].at = "sent"
  /\ row' = saving[s].value
  /\ saving' = [saving EXCEPT ![s].at = "written"]
  /\ UNCHANGED <<nameless, open, cached, draft, saves>> /\ UNCHANGED saveGhosts

(* The row could not be read, for any reason but that there is none: the    *)
(* empty one that First leaves is saved, which inserts it.  The name is     *)
(* unique, so that this succeeds once.  The answer is the same.             *)
PutNameless(s) ==
  /\ saving[s].at = "sent"
  /\ ~nameless
  /\ nameless' = TRUE
  /\ saving' = [saving EXCEPT ![s].at = "missed"]
  /\ UNCHANGED <<row, open, cached, draft, saves>> /\ UNCHANGED saveGhosts

(* The handler, or its answer, fails: before or after the row was written. *)
SaveLost(s) ==
  /\ saving[s].at \in {"sent", "written", "missed"}
  /\ saving' = [saving EXCEPT ![s].at = "failed"]
  /\ UNCHANGED <<open, cached, draft, saves>> /\ UNCHANGED rowVars /\ UNCHANGED saveGhosts

(* A mutant of SaveAnswered: the query keeps its old data. *)
SaveAnsweredOnly(s) ==
  /\ saving[s].at \in {"written", "missed"}
  /\ saved' = saving[s].value
  /\ overlap' = (cached.fetch # "idle")
  /\ missed' = (saving[s].at = "missed")
  /\ saving' = [saving EXCEPT ![s] = NoSaving]
  /\ UNCHANGED <<open, cached, draft, saves, crossed, foreign>> /\ UNCHANGED rowVars

(* onSuccess: setQueryData, also for a page that was left, and the mark     *)
(* "Saved" for a while.  The effect then writes over what has been typed    *)
(* since.                                                                   *)
SaveAnswered(s) ==
  /\ saving[s].at \in {"written", "missed"}
  /\ cached' = Put(cached, saving[s].value)
  /\ draft' = Filled(cached.data, saving[s].value)
  /\ saved' = saving[s].value
  /\ overlap' = (cached.fetch # "idle")
  /\ missed' = (saving[s].at = "missed")
  /\ saving' = [saving EXCEPT ![s] = NoSaving]
  /\ UNCHANGED <<open, saves, crossed, foreign>> /\ UNCHANGED rowVars

(* There is no onError: nothing is shown. *)
SaveForgotten(s) ==
  /\ saving[s].at = "failed"
  /\ saving' = [saving EXCEPT ![s] = NoSaving]
  /\ saved' = NoData
  /\ UNCHANGED <<open, cached, draft, saves, overlap, crossed, missed, foreign>>
  /\ UNCHANGED rowVars

OthersSave(value) ==
  /\ saves < MaxSaves
  /\ saves' = saves + 1
  /\ row' = value
  /\ foreign' = TRUE
  /\ UNCHANGED <<nameless, open, cached, draft, saving, overlap, crossed, missed, saved>>

(* A focus. *)
FetchSettings ==
  /\ open
  /\ cached.fetch = "idle"
  /\ cached' = Fetched(cached)
  /\ UNCHANGED <<open, draft, saving, saves>> /\ UNCHANGED rowVars /\ UNCHANGED saveGhosts

ServeSettings ==
  /\ cached.fetch = "asked"
  /\ cached' = Served(cached, row)
  /\ UNCHANGED <<open, draft, saving, saves>> /\ UNCHANGED rowVars /\ UNCHANGED saveGhosts

ReceiveSettings ==
  /\ cached.fetch = "answered"
  /\ cached' = Received(cached)
  /\ draft' = Filled(cached.data, cached.answer)
  /\ UNCHANGED <<open, saving, saves>> /\ UNCHANGED rowVars /\ UNCHANGED saveGhosts

LoseSettings ==
  /\ cached.fetch # "idle"
  /\ cached' = Abandoned(cached)
  /\ UNCHANGED <<open, draft, saving, saves>> /\ UNCHANGED rowVars /\ UNCHANGED saveGhosts

SettingsNext ==
  \/ \E value \in SettingValues : EditSetting(value) \/ OthersSave(value)
  \/ SaveSettings \/ LeaveSettings \/ VisitSettings
  \/ \E s \in SaveSlots :
       PutSettings(s) \/ PutNameless(s) \/ SaveLost(s) \/ SaveAnswered(s) \/ SaveForgotten(s)
  \/ FetchSettings \/ ServeSettings \/ ReceiveSettings \/ LoseSettings

SettingsSpec == SettingsInit /\ [][SettingsNext]_settingsVars
-----------------------------------------------------------------------------
SettingsTypeOK ==
  /\ row \in SettingValues
  /\ nameless \in BOOLEAN
  /\ open \in BOOLEAN
  /\ cached \in Queries(SettingValues)
  /\ draft \in SettingValues
  /\ saving \in [SaveSlots -> Savings]
  /\ saves \in 0..MaxSaves
  /\ overlap \in BOOLEAN
  /\ crossed \in BOOLEAN
  /\ missed \in BOOLEAN
  /\ foreign \in BOOLEAN
  /\ saved \in SettingValues \cup {NoData}

(* With one person at work, what the page was told is saved is what is      *)
(* stored and what the page goes on to show, although no fetch follows a    *)
(* save and the page may be left and opened again at any time.  It need not *)
(* be so if a fetch was under way when the answer came, whose older answer  *)
(* may be put over it; if the page was left and a second save sent before   *)
(* the first was answered; and if the handler could not read the row, when  *)
(* it answers as if it had written it.                                      *)
SavedSettingsShown ==
  /\ ~foreign /\ ~overlap /\ ~crossed /\ ~missed
  /\ \A s \in SaveSlots : ~Saving(s)
  /\ saved # NoData
  => /\ row = saved
     /\ cached.data \in {saved, NoData}  \* NoData: dropped, and fetched again
=============================================================================
