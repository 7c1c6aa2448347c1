----------------------------- MODULE ListPages -----------------------------
(***************************************************************************)
(* A stay on one of the pages that show a list from the API and change it  *)
(* through dialogs and buttons: how the list, the dialogs and the calls    *)
(* that are under way meet the writes of other people and of the engine.   *)
(* The contents of a table are the number of writes it has had.            *)
(*                                                                         *)
(* frontend/src/pages: Dashboard, Monitors, Notifications, StatusPages,    *)
(* Users, StatusPageView; components/Modal, ConfirmDialog                  *)
(***************************************************************************)
EXTENDS Naturals, Query

CONSTANTS
  CallSlots,  \* bounds the calls that one page has under way
  MaxWrites   \* bounds the writes to the table

ASSUME ListPagesAssumption ==
  /\ MaxWrites \in Nat
  /\ NoData \notin Nat

VARIABLES
  page,      \* the page, one of Pages
  table,     \* the table in the database: the number of its writes
  list,      \* the query of the page
  dialog,    \* the dialog that is open, or "none"
  calls,     \* the mutations under way
  confirmed  \* ghost: the last own write answered while a list was there

listVars == <<page, table, list, dialog, calls, confirmed>>
-----------------------------------------------------------------------------
(***************************************************************************)
(* The pages as data.  polls: the query has a refetchInterval.  head, row: *)
(* the dialogs that a button above the list, or in a row, opens.  direct:  *)
(* the buttons of a row that send a call at once.  once: the operations    *)
(* whose button is disabled while one of them is pending.  found: dialogs  *)
(* about a row that is looked up in the list on every rendering.  errors:  *)
(* a failed fetch is shown.                                                *)
(***************************************************************************)
DashboardPage ==
  [polls |-> TRUE, head |-> {}, row |-> {}, direct |-> {}, once |-> {}, found |-> {},
   errors |-> FALSE]

(* editId is never set: the edit dialog of Monitors cannot be reached. *)
MonitorsPage ==
  [polls |-> TRUE, head |-> {"create"}, row |-> {"delete"}, direct |-> {"pause"},
   once |-> {"create"}, found |-> {}, errors |-> FALSE]

NotificationsPage ==
  [polls |-> FALSE, head |-> {"create"}, row |-> {"edit", "delete"}, direct |-> {},
   once |-> {"create", "edit"}, found |-> {"edit"}, errors |-> FALSE]

StatusPagesPage ==
  [polls |-> FALSE, head |-> {"create"}, row |-> {"edit", "delete"}, direct |-> {},
   once |-> {"create", "edit"}, found |-> {}, errors |-> FALSE]

(* As on Monitors, nothing opens the edit dialog. *)
UsersPage ==
  [polls |-> FALSE, head |-> {"create"}, row |-> {"delete"}, direct |-> {},
   once |-> {"create"}, found |-> {}, errors |-> FALSE]

StatusViewPage ==
  [polls |-> TRUE, head |-> {}, row |-> {}, direct |-> {}, once |-> {}, found |-> {},
   errors |-> TRUE]

Pages ==
  {DashboardPage, MonitorsPage, NotificationsPage, StatusPagesPage, UsersPage, StatusViewPage}

Operations == {"create", "edit", "delete", "pause"}

NoCall == [op |-> "none", at |-> "free", wrote |-> 0]

Calls ==
  [op : Operations \cup {"none"}, at : {"free", "sent", "written", "lost"}, wrote : 0..MaxWrites]

Pending(op) == \E s \in CallSlots : calls[s].op = op

(* What the page shows in place of the list.  Without data and without a   *)
(* fetch, a page that does not show errors shows an empty list.            *)
Shown ==
  IF list.data = NoData /\ list.fetch # "idle" THEN "loading"
  ELSE IF list.failed /\ page.errors THEN "error"
  ELSE IF list.data = NoData THEN "nothing"
  ELSE "rows"
-----------------------------------------------------------------------------
ListInit ==
  /\ page \in Pages
  /\ table = 0
  /\ list = Fetched(Unfetched)
  /\ dialog = "none"
  /\ calls = [s \in CallSlots |-> NoCall]
  /\ confirmed = 0

Open(op) ==
  /\ dialog = "none"
  /\ op \in page.head \/ (op \in page.row /\ Shown = "rows")
  /\ dialog' = op
  /\ UNCHANGED <<page, table, list, calls, confirmed>>

(* Cancel, Escape, the cross or the backdrop: what is under way stays so. *)
Close ==
  /\ dialog # "none"
  /\ dialog' = "none"
  /\ UNCHANGED <<page, table, list, calls, confirmed>>

(* Save, Delete, or a button of a row. *)
Submit(op, s) ==
  /\ dialog = op \/ (dialog = "none" /\ op \in page.direct /\ Shown = "rows")
  /\ op \in page.once => ~Pending(op)
  /\ calls[s] = NoCall
  /\ calls' = [calls EXCEPT ![s] = [op |-> op, at |-> "sent", wrote |-> 0]]
  /\ UNCHANGED <<page, table, list, dialog, confirmed>>

(* A handler of the server writes, or refuses, or its answer is lost. *)
Handle(s) ==
  /\ calls[s].at = "sent"
  /\ \/ /\ table < MaxWrites
        /\ table' = table + 1
        /\ \/ calls' = [calls EXCEPT ![s].at = "written", ![s].wrote = table + 1]
           \/ calls' = [calls EXCEPT ![s].at = "lost"]
     \/ /\ calls' = [calls EXCEPT ![s].at = "lost"]
        /\ UNCHANGED table
  /\ UNCHANGED <<page, list, dialog, confirmed>>

(* A mutant of Succeed: onSuccess only closes the dialog. *)
SucceedWithoutInvalidate(s) ==
  /\ calls[s].at = "written"
  /\ dialog' = IF dialog = calls[s].op THEN "none" ELSE dialog
  /\ confirmed' = IF list.data # NoData /\ calls[s].wrote > confirmed
                  THEN calls[s].wrote ELSE confirmed
  /\ calls' = [calls EXCEPT ![s] = NoCall]
  /\ UNCHANGED <<page, table, list>>

(* onSuccess: invalidate() and the closing of the dialog of that operation. *)
Succeed(s) ==
  /\ calls[s].at = "written"
  /\ list' = Invalidated(list)
  /\ dialog' = IF dialog = calls[s].op THEN "none" ELSE dialog
  /\ confirmed' = IF list.data # NoData /\ calls[s].wrote > confirmed
                  THEN calls[s].wrote ELSE confirmed
  /\ calls' = [calls EXCEPT ![s] = NoCall]
  /\ UNCHANGED <<page, table>>

(* There is no onError: the dialog stays, and nothing is fetched. *)
Fail(s) ==
  /\ calls[s].at = "lost"
  /\ calls' = [calls EXCEPT ![s] = NoCall]
  /\ UNCHANGED <<page, table, list, dialog, confirmed>>

OthersWrite ==
  /\ table < MaxWrites
  /\ table' = table + 1
  /\ UNCHANGED <<page, list, dialog, calls, confirmed>>

(* A mutant of Poll: an error ends the polling. *)
PollUntilError ==
  /\ page.polls
  /\ list.fetch = "idle" /\ ~list.failed
  /\ list' = Fetched(list)
  /\ UNCHANGED <<page, table, dialog, calls, confirmed>>

Poll ==
  /\ page.polls
  /\ list.fetch = "idle"
  /\ list' = Fetched(list)
  /\ UNCHANGED <<page, table, dialog, calls, confirmed>>

(* The window is focused, or the page mounted again, after staleTime. *)
Refocus ==
  /\ list.fetch = "idle"
  /\ list' = Fetched(list)
  /\ UNCHANGED <<page, table, dialog, calls, confirmed>>

ServeList ==
  /\ list.fetch = "asked"
  /\ list' = Served(list, table)
  /\ UNCHANGED <<page, table, dialog, calls, confirmed>>

LoseList ==
  /\ list.fetch # "idle"
  /\ list' = Abandoned(list)
  /\ UNCHANGED <<page, table, dialog, calls, confirmed>>

(* A row that is gone from the new list takes its dialog with it. *)
ReceiveList ==
  /\ list.fetch = "answered"
  /\ list' = Received(list)
  /\ \/ dialog' = dialog
     \/ dialog \in page.found /\ list.answer # list.data /\ dialog' = "none"
  /\ UNCHANGED <<page, table, calls, confirmed>>

UseList ==
  \/ \E op \in Operations : Open(op)
  \/ Close
  \/ \E op \in Operations, s \in CallSlots : Submit(op, s)
  \/ Refocus

ListNext ==
  \/ UseList
  \/ \E s \in CallSlots : Handle(s) \/ Succeed(s) \/ Fail(s)
  \/ OthersWrite
  \/ Poll
  \/ ServeList
  \/ LoseList
  \/ ReceiveList

ListSpec == ListInit /\ [][ListNext]_listVars

(* Timers run, and a fetch that is tried again and again gets through.  Nobody *)
(* has to use the page, and no call has to be answered.                        *)
ListFairness ==
  /\ WF_listVars(Poll)
  /\ SF_listVars(ServeList)
  /\ SF_listVars(ReceiveList)
-----------------------------------------------------------------------------
ListTypeOK ==
  /\ page \in Pages
  /\ table \in 0..MaxWrites
  /\ list \in Queries(0..MaxWrites)
  /\ dialog \in Operations \cup {"none"}
  /\ calls \in [CallSlots -> Calls]
  /\ confirmed \in 0..MaxWrites

(* Once a page has been told that its own change is stored, a list at rest *)
(* contains that change: no answer of an older fetch, a poll's or another  *)
(* change's, is put over it.  Excepted are a list whose last fetch failed, *)
(* and a change made before the first list came.                           *)
OwnSavesShown ==
  list.fetch = "idle" /\ ~list.failed /\ list.data # NoData => list.data >= confirmed

(* A page with a refetch interval ends up with what is stored, whatever it *)
(* and others wrote, and whichever fetches failed or were cancelled; after *)
(* an error the list comes back.                                           *)
ShownConverges ==
  page.polls => <>[](list.data = table) /\ []<>(Shown = "rows")
=============================================================================
