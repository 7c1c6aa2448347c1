----------------------------- MODULE Selection -----------------------------
(***************************************************************************)
(* The links of one row: the channels of a monitor, which its page toggles *)
(* one by one, or the monitors and the users of a status page, which a     *)
(* dialog chooses.  A page sends the whole list that it wants, computed    *)
(* from what it last fetched; the server inserts what is new and removes   *)
(* the rest in two statements.  One tab is modelled in full; what it meets *)
(* of other tabs and people is a call with any list at any time.           *)
(*                                                                         *)
(* frontend/src/pages/MonitorDetail.tsx, StatusPages.tsx; internal/        *)
(* monitors/handlers.go, internal/api/statuspages.go                       *)
(***************************************************************************)
EXTENDS Naturals, Query

CONSTANTS
  Targets,  \* what may be linked
  Widgets,  \* how the tab edits: some of "buttons" and "dialog"
  MaxSends  \* bounds the calls of all together

ASSUME SelectionAssumption ==
  /\ Widgets \subseteq {"buttons", "dialog"}
  /\ MaxSends \in Nat
  /\ \A list \in SUBSET Targets : list # NoData

VARIABLES
  widget,      \* what the page of the tab shows
  here,        \* the tab is at that page
  links,       \* the join table
  shown,       \* the tab's query of the row
  start,       \* the list that the open dialog began with, or NoData
  atRest,      \* ghost: nothing was being fetched when the dialog was opened
  change,      \* the calls under way, by whoever waits for them
  last,        \* ghost: the list of the last call that removed the others
  alone,       \* ghost: that call met no other between its two statements
  spoiled,     \* ghost: a statement or a fetch has failed
  interfered,  \* ghost: somebody else has sent a call
  sends,       \* the calls so far
  meant,       \* ghost: the links that the clicks on the buttons so far ask for
  astray       \* ghost: the page was left while a change was not settled

selectionVars ==
  <<widget, here, links, shown, start, atRest, change, last, alone, spoiled, interfered, sends,
    meant, astray>>
visitVars == <<widget, here, astray>>
dialogVars == <<start, atRest>>
tableVars == <<links, last, alone>>
-----------------------------------------------------------------------------
(* A call under way belongs to the component that is mounted ("tab"), to a  *)
(* dialog that was cancelled ("left"), to a page that was left ("gone"), or *)
(* to somebody else.  What is mounted next knows nothing of it.             *)
Callers == {"tab", "left", "gone", "others"}

Lists == SUBSET Targets

(* at: no call, sent, between the two statements, answered, failed, and     *)
(* waiting for the fetch that onSuccess returned.  met: ghost, another call *)
(* was between its statements when this one was.                            *)
Changes ==
  [at : {"none", "sent", "inserted", "stored", "failed", "settling"}, list : Lists, met : BOOLEAN]

NoChange == [at |-> "none", list |-> {}, met |-> FALSE]

(* What a page takes for linked: nothing while there are no data. *)
LinkedIds == IF shown.data = NoData THEN {} ELSE shown.data

(* Pending: while this is so of "tab", the buttons and Save are disabled. *)
Busy(c) == change[c].at # "none"

(* Every call of this tab has been answered. *)
TabQuiet == ~Busy("tab") /\ ~Busy("left") /\ ~Busy("gone")

Toggled(S, x) == IF x \in S THEN S \ {x} ELSE S \cup {x}

(* A bound: after a failure, of which nothing is claimed, nothing is begun. *)
Begins == ~spoiled

Sent(c, wanted) ==
  /\ ~Busy(c)
  /\ Begins /\ sends < MaxSends
  /\ sends' = sends + 1
  /\ change' = [change EXCEPT ![c] = [at |-> "sent", list |-> wanted, met |-> FALSE]]
-----------------------------------------------------------------------------
SelectionInit ==
  /\ widget \in Widgets
  /\ here = TRUE
  /\ links = {}
  /\ shown = Fetched(Unfetched)
  /\ start = NoData
  /\ atRest = FALSE
  /\ change = [c \in Callers |-> NoChange]
  /\ last = links
  /\ alone = TRUE
  /\ spoiled = FALSE
  /\ interfered = FALSE
  /\ sends = 0
  /\ meant = links
  /\ astray = FALSE

(* A button of the monitor's page: none is there before the first fetch. *)
ToggleNotif(x) ==
  /\ here /\ widget = "buttons"
  /\ shown.data # NoData
  /\ Sent("tab", Toggled(LinkedIds, x))
  /\ meant' = Toggled(meant, x)
  /\ UNCHANGED visitVars /\ UNCHANGED <<shown, spoiled, interfered>> /\ UNCHANGED dialogVars
  /\ UNCHANGED tableVars

(* The dialog starts from the links that the list of pages showed when it   *)
(* was opened; a later list does not change what is ticked in it.           *)
OpenSelector ==
  /\ here /\ widget = "dialog"
  /\ shown.data # NoData
  /\ start = NoData
  /\ start' = LinkedIds
  /\ atRest' = (shown.fetch = "idle")
  /\ UNCHANGED visitVars /\ UNCHANGED <<shown, change, spoiled, interfered, sends, meant>>
  /\ UNCHANGED tableVars

(* The component that waited for the call goes, and the call goes on. *)
Moved(c, d) == [change EXCEPT ![c] = NoChange, ![d] = change[c]]

(* Cancel leaves a call under way; the next dialog can send another one.    *)
CloseSelector ==
  /\ start # NoData
  /\ Busy("tab") => ~Busy("left")  \* a bound
  /\ start' = NoData
  /\ atRest' = FALSE
  /\ change' = IF Busy("tab") THEN Moved("tab", "left") ELSE change
  /\ UNCHANGED visitVars /\ UNCHANGED <<shown, spoiled, interfered, sends, meant>>
  /\ UNCHANGED tableVars

(* Save, after any ticks. *)
SaveSelection(wanted) ==
  /\ start # NoData
  /\ Sent("tab", wanted)
  /\ UNCHANGED visitVars /\ UNCHANGED <<shown, spoiled, interfered, meant>> /\ UNCHANGED dialogVars
  /\ UNCHANGED tableVars

(* Another route: the dialog and all that was pending are gone with the     *)
(* page, while a fetch and a call under way go on.  Of a mutation that      *)
(* waited for its fetch nothing is left.                                    *)
LeavePage ==
  /\ here /\ Begins
  /\ here' = FALSE
  /\ start' = NoData
  /\ atRest' = FALSE
  /\ \/ ~Busy("tab") /\ ~Busy("left") /\ UNCHANGED change
     \/ change["tab"].at = "settling" /\ change' = [change EXCEPT !["tab"] = NoChange]
     \/ \E c \in {"tab", "left"} :
          /\ Busy(c) /\ change[c].at # "settling"
          /\ \A d \in {"tab", "left", "gone"} \ {c} : ~Busy(d)  \* a bound
          /\ change' = Moved(c, "gone")
  /\ astray' = (astray \/ ~TabQuiet)
  /\ UNCHANGED <<widget, shown, spoiled, interfered, sends, meant>> /\ UNCHANGED tableVars

(* Back again.  The cache still has the list: it is fetched unless it is    *)
(* young, or it was dropped, after five minutes in which nobody used it.    *)
VisitPage ==
  /\ ~here /\ Begins
  /\ here' = TRUE
  /\ \/ shown' = Fetched(shown)
     \/ shown.data # NoData /\ shown' = shown
     \/ shown.fetch = "idle" /\ shown' = Fetched(Unfetched)
  /\ UNCHANGED <<widget, change, spoiled, interfered, sends, meant, astray>>
  /\ UNCHANGED dialogVars /\ UNCHANGED tableVars

(* Another tab, or another person. *)
OthersSend(wanted) ==
  /\ Sent("others", wanted)
  /\ interfered' = TRUE
  /\ UNCHANGED visitVars /\ UNCHANGED <<shown, spoiled, meant>> /\ UNCHANGED dialogVars
  /\ UNCHANGED tableVars

Storing(c) == change[c].at = "inserted"

(* The list of a call that has ended matters no more. *)
Ended(c, at) == [change EXCEPT ![c] = [at |-> at, list |-> {}, met |-> FALSE]]

(* Association.Replace: first the rows of the list are added, ...           *)
ReplaceInserts(c) ==
  /\ change[c].at = "sent"
  /\ links' = links \cup change[c].list
  /\ change' = [d \in Callers |->
       IF d = c THEN
         [at |-> "inserted", list |-> change[c].list, met |-> \E e \in Callers : Storing(e)]
       ELSE IF Storing(d) THEN [change[d] EXCEPT !.met = TRUE]
       ELSE change[d]]
  /\ UNCHANGED visitVars /\ UNCHANGED <<shown, last, alone, spoiled, interfered, sends, meant>>
  /\ UNCHANGED dialogVars

(* A mutant of ReplaceRemoves: Append in the place of Replace. *)
ReplaceKeepsOthers(c) ==
  /\ change[c].at = "inserted"
  /\ last' = change[c].list
  /\ alone' = ~change[c].met
  /\ change' = Ended(c, "stored")
  /\ UNCHANGED visitVars /\ UNCHANGED <<links, shown, spoiled, interfered, sends, meant>>
  /\ UNCHANGED dialogVars

(* ... then the rows that are not in it are removed.                        *)
ReplaceRemoves(c) ==
  /\ change[c].at = "inserted"
  /\ links' = links \cap change[c].list
  /\ last' = change[c].list
  /\ alone' = ~change[c].met
  /\ change' = Ended(c, "stored")
  /\ UNCHANGED visitVars /\ UNCHANGED <<shown, spoiled, interfered, sends, meant>>
  /\ UNCHANGED dialogVars

(* One of the two statements fails, and what the first one did stays. *)
ReplaceFails(c) ==
  /\ change[c].at \in {"sent", "inserted"}
  /\ change' = Ended(c, "failed")
  /\ spoiled' = TRUE
  /\ UNCHANGED visitVars /\ UNCHANGED <<shown, interfered, sends, meant>> /\ UNCHANGED dialogVars
  /\ UNCHANGED tableVars

(* A mutant of NotifsStored: the mutation does not wait for the fetch. *)
NotifsStoredAtOnce ==
  /\ widget = "buttons"
  /\ change["tab"].at = "stored"
  /\ shown' = Invalidated(shown)
  /\ change' = [change EXCEPT !["tab"] = NoChange]
  /\ UNCHANGED visitVars /\ UNCHANGED <<spoiled, interfered, sends, meant>> /\ UNCHANGED dialogVars
  /\ UNCHANGED tableVars

(* The monitor's page hands the invalidation back to the mutation, which    *)
(* stays pending until the row has been fetched again; ...                  *)
NotifsStored ==
  /\ widget = "buttons"
  /\ change["tab"].at = "stored"
  /\ shown' = Invalidated(shown)
  /\ change' = Ended("tab", "settling")
  /\ UNCHANGED visitVars /\ UNCHANGED <<spoiled, interfered, sends, meant>> /\ UNCHANGED dialogVars
  /\ UNCHANGED tableVars

(* A mutant of SelectionStored: the list of pages is not fetched again. *)
SelectionStoredSilently ==
  /\ widget = "dialog"
  /\ change["tab"].at = "stored"
  /\ start' = NoData
  /\ atRest' = FALSE
  /\ change' = [change EXCEPT !["tab"] = NoChange]
  /\ UNCHANGED visitVars /\ UNCHANGED <<shown, spoiled, interfered, sends, meant>>
  /\ UNCHANGED tableVars

(* ... the dialog closes and does not wait.                                 *)
SelectionStored ==
  /\ widget = "dialog"
  /\ change["tab"].at = "stored"
  /\ shown' = Invalidated(shown)
  /\ start' = NoData
  /\ atRest' = FALSE
  /\ change' = [change EXCEPT !["tab"] = NoChange]
  /\ UNCHANGED visitVars /\ UNCHANGED <<spoiled, interfered, sends, meant>> /\ UNCHANGED tableVars

(* The dialog of this call was cancelled: its onClose closes the next one,  *)
(* whose own call is then left in its turn.                                 *)
LeftStored ==
  /\ change["left"].at = "stored"
  /\ shown' = Invalidated(shown)
  /\ start' = NoData
  /\ atRest' = FALSE
  /\ change' = Moved("tab", "left")
  /\ UNCHANGED visitVars /\ UNCHANGED <<spoiled, interfered, sends, meant>> /\ UNCHANGED tableVars

(* The page of this call was left: the invalidation still runs, and fetches *)
(* again what a page shows.                                                 *)
GoneStored ==
  /\ change["gone"].at = "stored"
  /\ shown' = IF here THEN Invalidated(shown) ELSE shown
  /\ change' = [change EXCEPT !["gone"] = NoChange]
  /\ UNCHANGED visitVars /\ UNCHANGED <<spoiled, interfered, sends, meant>> /\ UNCHANGED dialogVars
  /\ UNCHANGED tableVars

OthersStored ==
  /\ change["others"].at = "stored"
  /\ change' = [change EXCEPT !["others"] = NoChange]
  /\ UNCHANGED visitVars /\ UNCHANGED <<shown, spoiled, interfered, sends, meant>>
  /\ UNCHANGED dialogVars /\ UNCHANGED tableVars

(* No onError anywhere: the dialog and what is shown stay. *)
ChangeFailed(c) ==
  /\ change[c].at = "failed"
  /\ change' = [change EXCEPT ![c] = NoChange]
  /\ UNCHANGED visitVars /\ UNCHANGED <<shown, spoiled, interfered, sends, meant>>
  /\ UNCHANGED dialogVars /\ UNCHANGED tableVars

(* The interval of the monitor's page, a focus. *)
FetchRow ==
  /\ here /\ Begins
  /\ shown.fetch = "idle"
  /\ shown' = Fetched(shown)
  /\ UNCHANGED visitVars /\ UNCHANGED <<change, spoiled, interfered, sends, meant>>
  /\ UNCHANGED dialogVars /\ UNCHANGED tableVars

ServeRow ==
  /\ shown.fetch = "asked"
  /\ shown' = Served(shown, links)
  /\ UNCHANGED visitVars /\ UNCHANGED <<change, spoiled, interfered, sends, meant>>
  /\ UNCHANGED dialogVars /\ UNCHANGED tableVars

(* The promise that the mutation waits for is the fetch's. *)
Settled ==
  IF change["tab"].at = "settling" THEN [change EXCEPT !["tab"] = NoChange] ELSE change

ReceiveRow ==
  /\ shown.fetch = "answered"
  /\ shown' = Received(shown)
  /\ change' = Settled
  /\ UNCHANGED visitVars /\ UNCHANGED <<spoiled, interfered, sends, meant>> /\ UNCHANGED dialogVars
  /\ UNCHANGED tableVars

LoseRow ==
  /\ shown.fetch # "idle"
  /\ shown' = Abandoned(shown)
  /\ change' = Settled
  /\ spoiled' = TRUE
  /\ UNCHANGED visitVars /\ UNCHANGED <<interfered, sends, meant>> /\ UNCHANGED dialogVars
  /\ UNCHANGED tableVars

SelectionNext ==
  \/ \E x \in Targets : ToggleNotif(x)
  \/ OpenSelector
  \/ CloseSelector
  \/ \E wanted \in Lists : SaveSelection(wanted) \/ OthersSend(wanted)
  \/ \E c \in Callers : ReplaceInserts(c) \/ ReplaceRemoves(c) \/ ReplaceFails(c) \/ ChangeFailed(c)
  \/ LeavePage
  \/ VisitPage
  \/ NotifsStored
  \/ SelectionStored
  \/ LeftStored
  \/ GoneStored
  \/ OthersStored
  \/ FetchRow
  \/ ServeRow
  \/ ReceiveRow
  \/ LoseRow

SelectionSpec == SelectionInit /\ [][SelectionNext]_selectionVars
-----------------------------------------------------------------------------
SelectionTypeOK ==
  /\ widget \in Widgets
  /\ here \in BOOLEAN
  /\ links \in Lists
  /\ shown \in Queries(Lists)
  /\ start \in Lists \cup {NoData}
  /\ atRest \in BOOLEAN
  /\ change \in [Callers -> Changes]
  /\ last \in Lists
  /\ alone \in BOOLEAN
  /\ spoiled \in BOOLEAN
  /\ interfered \in BOOLEAN
  /\ sends \in 0..MaxSends
  /\ meant \in Lists
  /\ astray \in BOOLEAN

(* With one tab at work and nothing failing, every click on a channel      *)
(* counts: when no change is under way the monitor has exactly the         *)
(* channels that the clicks ask for, however fast they came and however    *)
(* often the page was left and opened again, and once something was        *)
(* clicked the page shows them.  Only while a change settles must the page *)
(* not be left: opened again it takes clicks over the old list.            *)
TogglesKept ==
  widget = "buttons" /\ ~interfered /\ ~spoiled /\ ~astray /\ ~Busy("tab") =>
    /\ links = meant
    /\ shown.data # NoData /\ sends # 0 => shown.data = meant

(* A dialog opened while the list of pages was not being fetched starts    *)
(* from the stored links, if nobody else changes them and nothing fails:   *)
(* to save it untouched changes nothing, also after dialogs that were      *)
(* cancelled while their calls were under way.  (Opened while the own last *)
(* change is still being fetched it starts from the links before it, and   *)
(* so it may after the page was left during a call.)                       *)
SelectorStartsTrue ==
  atRest /\ ~interfered /\ ~spoiled /\ ~astray /\ TabQuiet => start = links

(* With no call between its statements, the links are those of the call    *)
(* that removed last: exactly its list if it met no other call, and never  *)
(* anything outside that list.                                             *)
ListIsLastCall ==
  ~spoiled /\ (\A c \in Callers : ~Storing(c)) =>
    /\ links \subseteq last
    /\ alone => links = last
=============================================================================
