----------------------------- MODULE WebClient -----------------------------
(***************************************************************************)
(* The parts of the web client side by side: a behaviour is a stay in one  *)
(* of them, while the others rest.  They have no variable in common, so    *)
(* one run checks each of them in all its states.                          *)
(***************************************************************************)
EXTENDS TLC, Session, ListPages, Selection, Forms, Settings, Figures

CONSTANTS t1, t2  \* two browser tabs

VARIABLE scene  \* the part that moves

webVars ==
  <<scene, sessionVars, listVars, selectionVars, formVars, settingsVars, figureVars>>

Scenes == {"session", "list", "selection", "form", "settings", "figures"}

(* One tab begins in the app, the other one on a status page. *)
TabAddresses == (t1 :> {"app"}) @@ (t2 :> {"status"})
-----------------------------------------------------------------------------
(* Each part at rest: nobody signed in, nothing fetched or under way.      *)
SessionRests ==
  /\ store = 0 /\ issued = 1 /\ dead = {}
  /\ path = [t \in Tabs |-> "login"]
  /\ checked = [t \in Tabs |-> TRUE]
  /\ user = [t \in Tabs |-> FALSE]
  /\ asks = [t \in Tabs |-> Idle]

ListRests ==
  /\ page = UsersPage /\ table = 0 /\ list = Unfetched /\ dialog = "none"
  /\ calls = [s \in CallSlots |-> NoCall] /\ confirmed = 0

SelectionRests == SelectionInit /\ widget = "dialog"

FormRests == FormInit /\ kind = "login"

WebInit ==
  /\ scene \in Scenes
  /\ IF scene = "session" THEN SessionInit ELSE SessionRests
  /\ IF scene = "list" THEN ListInit ELSE ListRests
  /\ IF scene = "selection" THEN SelectionInit ELSE SelectionRests
  /\ IF scene = "form" THEN FormInit ELSE FormRests
  /\ SettingsInit
  /\ FigureInit

WebNext ==
  /\ UNCHANGED scene
  /\ \/ /\ scene = "session" /\ SessionNext
        /\ UNCHANGED <<listVars, selectionVars, formVars, settingsVars, figureVars>>
     \/ /\ scene = "list" /\ ListNext
        /\ UNCHANGED <<sessionVars, selectionVars, formVars, settingsVars, figureVars>>
     \/ /\ scene = "selection" /\ SelectionNext
        /\ UNCHANGED <<sessionVars, listVars, formVars, settingsVars, figureVars>>
     \/ /\ scene = "form" /\ FormNext
        /\ UNCHANGED <<sessionVars, listVars, selectionVars, settingsVars, figureVars>>
     \/ /\ scene = "settings" /\ SettingsNext
        /\ UNCHANGED <<sessionVars, listVars, selectionVars, formVars, figureVars>>
     \/ /\ scene = "figures" /\ FigureNext
        /\ UNCHANGED <<sessionVars, listVars, selectionVars, formVars, settingsVars>>

(* The fair actions of a part at rest are not enabled. *)
WebSpec == WebInit /\ [][WebNext]_webVars /\ SessionFairness /\ ListFairness
-----------------------------------------------------------------------------
(* The types of all parts. *)
WebTypeOK ==
  /\ scene \in Scenes
  /\ SessionTypeOK
  /\ ListTypeOK
  /\ SelectionTypeOK
  /\ FormTypeOK
  /\ SettingsTypeOK
  /\ FigureTypeOK
=============================================================================
