---------------------------- MODULE PagesProofs ----------------------------
(***************************************************************************)
(* What holds of the pages of the web client for any number of calls and   *)
(* writes, any links and any settings.                                     *)
(***************************************************************************)
EXTENDS Integers, WebClient, SessionProofs, FiguresProofs

(* What is done to a query leaves a query. *)
LEMMA QueryTypes ==
  ASSUME NEW Data, NEW q \in Queries(Data)
  PROVE  /\ Fetched(q) \in Queries(Data)
         /\ Invalidated(q) \in Queries(Data)
         /\ \A content \in Data : Served(q, content) \in Queries(Data)
         /\ \A content \in Data : Put(q, content) \in Queries(Data)
         /\ Received(q) \in Queries(Data)
         /\ Abandoned(q) \in Queries(Data)
BY DEF Queries, Restarted, Fetched, Invalidated, Served, Received, Abandoned, Put

LEMMA UnfetchedType ==
  ASSUME NEW Data
  PROVE  Unfetched \in Queries(Data)
BY DEF Queries, Unfetched
-----------------------------------------------------------------------------
(* The links of a row. *)
LEMMA NoChangeType == NoChange \in Changes
BY DEF NoChange, Changes, Lists

LEMMA SettledType ==
  ASSUME SelectionTypeOK
  PROVE  Settled \in [Callers -> Changes]
BY NoChangeType DEF SelectionTypeOK, Settled, Callers

LEMMA EndedFacts ==
  ASSUME SelectionTypeOK, NEW c \in Callers, NEW at \in {"stored", "failed", "settling"}
  PROVE  /\ Ended(c, at) \in [Callers -> Changes]
         /\ Ended(c, at)[c].at = at
         /\ \A d \in Callers : d # c => Ended(c, at)[d] = change[d]
<1>1. [at |-> at, list |-> {}, met |-> FALSE] \in Changes
  BY DEF Changes, Lists
<1> QED
  BY <1>1 DEF SelectionTypeOK, Ended

LEMMA ChangeTypes ==
  ASSUME SelectionTypeOK, NEW c \in Callers
  PROVE  /\ [change EXCEPT ![c] = NoChange] \in [Callers -> Changes]
         /\ \A d \in Callers : Moved(c, d) \in [Callers -> Changes]
         /\ \A wanted \in Lists :
              [change EXCEPT ![c] = [at |-> "sent", list |-> wanted, met |-> FALSE]]
                \in [Callers -> Changes]
BY NoChangeType DEF SelectionTypeOK, Changes, Moved

LEMMA SelectionTypeInit == SelectionInit => SelectionTypeOK
<1> SUFFICES ASSUME SelectionInit PROVE SelectionTypeOK
  OBVIOUS
<1>1. shown \in Queries(Lists)
  BY UnfetchedType, QueryTypes DEF SelectionInit
<1>2. change \in [Callers -> Changes]
  BY NoChangeType DEF SelectionInit
<1>3. {} \in Lists
  BY DEF Lists
<1>4. sends \in 0..MaxSends
  BY SelectionAssumption DEF SelectionInit
<1> QED
  BY <1>1, <1>2, <1>3, <1>4 DEF SelectionInit, SelectionTypeOK

LEMMA LinkedType == SelectionTypeOK => LinkedIds \in Lists
BY DEF SelectionTypeOK, Queries, LinkedIds, Lists

(* A call that is sent. *)
LEMMA SentType ==
  ASSUME SelectionTypeOK, NEW c \in Callers, NEW wanted \in Lists, Sent(c, wanted)
  PROVE  /\ change' \in [Callers -> Changes]
         /\ sends' \in 0..MaxSends
<1>1. change' \in [Callers -> Changes]
  BY ChangeTypes DEF Sent
<1>2. sends' \in 0..MaxSends
  BY SelectionAssumption DEF SelectionTypeOK, Sent
<1> QED
  BY <1>1, <1>2

LEMMA SelectionTypeNext == SelectionTypeOK /\ [SelectionNext]_selectionVars => SelectionTypeOK'
<1> SUFFICES ASSUME SelectionTypeOK, [SelectionNext]_selectionVars PROVE SelectionTypeOK'
  OBVIOUS
<1> USE DEF visitVars, dialogVars, tableVars
<1>l. {} \in Lists /\ LinkedIds \in Lists
  BY LinkedType DEF Lists
<1>c. {"tab", "left", "gone", "others"} \subseteq Callers
  BY DEF Callers
<1>1. ASSUME NEW x \in Targets, ToggleNotif(x) PROVE SelectionTypeOK'
  <2>1. Toggled(LinkedIds, x) \in Lists /\ Toggled(meant, x) \in Lists
    BY <1>l DEF SelectionTypeOK, Lists, Toggled
  <2> QED
    BY <1>1, <1>c, <2>1, SentType DEF ToggleNotif, SelectionTypeOK
<1>2. CASE OpenSelector
  BY <1>2, <1>l DEF OpenSelector, SelectionTypeOK
<1>3. CASE CloseSelector
  BY <1>3, <1>c, ChangeTypes DEF CloseSelector, SelectionTypeOK
<1>4. ASSUME NEW wanted \in Lists, SaveSelection(wanted) PROVE SelectionTypeOK'
  BY <1>4, <1>c, SentType DEF SaveSelection, SelectionTypeOK
<1>5. ASSUME NEW wanted \in Lists, OthersSend(wanted) PROVE SelectionTypeOK'
  BY <1>5, <1>c, SentType DEF OthersSend, SelectionTypeOK
<1>6. ASSUME NEW c \in Callers, ReplaceInserts(c) PROVE SelectionTypeOK'
  <2>1. change' \in [Callers -> Changes]
    BY <1>6 DEF ReplaceInserts, SelectionTypeOK, Changes
  <2>2. links' \in Lists
    BY <1>6 DEF ReplaceInserts, SelectionTypeOK, Changes, Lists
  <2> QED
    BY <1>6, <2>1, <2>2 DEF ReplaceInserts, SelectionTypeOK
<1>7. ASSUME NEW c \in Callers, ReplaceRemoves(c) PROVE SelectionTypeOK'
  <2>1. change[c].list \in Lists /\ change[c].met \in BOOLEAN
    BY DEF SelectionTypeOK, Changes
  <2>2. links' \in Lists
    BY <1>7 DEF ReplaceRemoves, SelectionTypeOK, Lists
  <2> QED
    BY <1>7, <2>1, <2>2, EndedFacts DEF ReplaceRemoves, SelectionTypeOK
<1>8. ASSUME NEW c \in Callers, ReplaceFails(c) PROVE SelectionTypeOK'
  BY <1>8, EndedFacts DEF ReplaceFails, SelectionTypeOK
<1>9. ASSUME NEW c \in Callers, ChangeFailed(c) PROVE SelectionTypeOK'
  BY <1>9, ChangeTypes DEF ChangeFailed, SelectionTypeOK
<1>10. CASE NotifsStored
  BY <1>10, <1>c, EndedFacts, QueryTypes DEF NotifsStored, SelectionTypeOK
<1>11. CASE SelectionStored
  BY <1>11, <1>c, ChangeTypes, QueryTypes DEF SelectionStored, SelectionTypeOK
<1>12. CASE OthersStored
  BY <1>12, <1>c, ChangeTypes DEF OthersStored, SelectionTypeOK
<1>13. CASE FetchRow
  BY <1>13, QueryTypes DEF FetchRow, SelectionTypeOK
<1>14. CASE ServeRow
  BY <1>14, QueryTypes DEF ServeRow, SelectionTypeOK
<1>15. CASE ReceiveRow
  BY <1>15, QueryTypes, SettledType DEF ReceiveRow, SelectionTypeOK
<1>16. CASE LoseRow
  BY <1>16, QueryTypes, SettledType DEF LoseRow, SelectionTypeOK
<1>17. CASE LeavePage
  <2>1. /\ [change EXCEPT !["tab"] = NoChange] \in [Callers -> Changes]
        /\ \A c \in {"tab", "left"} : Moved(c, "gone") \in [Callers -> Changes]
    BY <1>c, ChangeTypes
  <2>2. change' \in [Callers -> Changes]
    BY <1>17, <2>1 DEF LeavePage, SelectionTypeOK
  <2> QED
    BY <1>17, <2>2 DEF LeavePage, SelectionTypeOK
<1>18. CASE VisitPage
  BY <1>18, QueryTypes, UnfetchedType DEF VisitPage, SelectionTypeOK
<1>19. CASE LeftStored
  BY <1>19, <1>c, ChangeTypes, QueryTypes DEF LeftStored, SelectionTypeOK
<1>20. CASE GoneStored
  BY <1>20, <1>c, ChangeTypes, QueryTypes DEF GoneStored, SelectionTypeOK
<1>21. CASE UNCHANGED selectionVars
  BY <1>21 DEF selectionVars, SelectionTypeOK
<1> QED
  BY <1>1, <1>2, <1>3, <1>4, <1>5, <1>6, <1>7, <1>8, <1>9, <1>10, <1>11, <1>12, <1>13, <1>14,
     <1>15, <1>16, <1>17, <1>18, <1>19, <1>20, <1>21 DEF SelectionNext

(* The links of a row are well typed: everything that is linked, shown or   *)
(* sent is a list of targets, whoever interferes.                           *)
THEOREM SelectionTypeCorrect == SelectionSpec => []SelectionTypeOK
<1> QED
  BY SelectionTypeInit, SelectionTypeNext, PTL DEF SelectionSpec

(* A call that has met no other one has its list among the links while it   *)
(* is between its statements, and is alone there; without such a call the   *)
(* links are those of the last one.                                         *)
ReplaceInv ==
  ~spoiled =>
    /\ \A c \in Callers :
         Storing(c) /\ ~change[c].met =>
           /\ change[c].list \subseteq links
           /\ \A d \in Callers : Storing(d) => d = c
    /\ (\A c \in Callers : ~Storing(c)) =>
         /\ links \subseteq last
         /\ alone => links = last

(* Most steps leave the links and the calls between their statements alone. *)
LEMMA ReplaceUntouched ==
  ASSUME ReplaceInv, UNCHANGED tableVars, spoiled => spoiled',
         \A c \in Callers : /\ Storing(c)' <=> Storing(c)
                            /\ Storing(c) => change'[c] = change[c]
  PROVE  ReplaceInv'
<1> SUFFICES ASSUME ~spoiled' PROVE ReplaceInv'
  BY DEF ReplaceInv
<1>1. ~spoiled /\ links' = links /\ last' = last /\ alone' = alone
  BY DEF tableVars
<1>2. ASSUME NEW c \in Callers
      PROVE  /\ Storing(c)' <=> Storing(c)
             /\ Storing(c) => change'[c] = change[c]
  BY DEF Storing
<1>3. ASSUME NEW c \in Callers, Storing(c)', ~change'[c].met
      PROVE  /\ change'[c].list \subseteq links'
             /\ \A d \in Callers : Storing(d)' => d = c
  BY <1>1, <1>2, <1>3 DEF ReplaceInv
<1> QED
  BY <1>1, <1>2, <1>3 DEF ReplaceInv

(* A call may change hands between its statements. *)
LEMMA ReplaceMoved ==
  ASSUME SelectionTypeOK, ReplaceInv, UNCHANGED tableVars, spoiled' = spoiled,
         NEW c \in Callers, NEW d \in Callers, c # d, ~Storing(d), change' = Moved(c, d)
  PROVE  ReplaceInv'
<1> SUFFICES ASSUME ~spoiled' PROVE ReplaceInv'
  BY DEF ReplaceInv
<1>1. ~spoiled /\ links' = links /\ last' = last /\ alone' = alone
  BY DEF tableVars
<1>2. /\ change'[c] = NoChange /\ change'[d] = change[c]
      /\ \A e \in Callers : e # c /\ e # d => change'[e] = change[e]
  BY DEF SelectionTypeOK, Moved
<1>3. /\ ~Storing(c)'
      /\ Storing(d)' <=> Storing(c)
      /\ \A e \in Callers : e # c /\ e # d => (Storing(e)' <=> Storing(e))
  BY <1>2 DEF Storing, NoChange
<1>4. ASSUME NEW e \in Callers, Storing(e)', ~change'[e].met
      PROVE  /\ change'[e].list \subseteq links'
             /\ \A f \in Callers : Storing(f)' => f = e
  <2>1. CASE e = d
    <3>1. Storing(c) /\ ~change[c].met
      BY <1>2, <1>3, <1>4, <2>1
    <3>2. change[c].list \subseteq links /\ \A f \in Callers : Storing(f) => f = c
      BY <1>1, <3>1 DEF ReplaceInv
    <3> QED
      BY <1>1, <1>2, <1>3, <2>1, <3>2
  <2>2. CASE e # d
    <3>1. e # c /\ Storing(e) /\ ~change[e].met /\ change'[e] = change[e]
      BY <1>2, <1>3, <1>4, <2>2
    <3>2. change[e].list \subseteq links /\ \A f \in Callers : Storing(f) => f = e
      BY <1>1, <3>1 DEF ReplaceInv
    <3> QED
      BY <1>1, <1>3, <3>1, <3>2
  <2> QED
    BY <2>1, <2>2
<1>5. (\A e \in Callers : ~Storing(e)') => (\A e \in Callers : ~Storing(e))
  BY <1>3
<1> QED
  BY <1>1, <1>4, <1>5 DEF ReplaceInv

LEMMA ReplaceInsertsKeeps ==
  ASSUME SelectionTypeOK, ReplaceInv, NEW c \in Callers, ReplaceInserts(c)
  PROVE  ReplaceInv'
<1> SUFFICES ASSUME ~spoiled' PROVE ReplaceInv'
  BY DEF ReplaceInv
<1>1. ~spoiled /\ links' = links \cup change[c].list
  BY DEF ReplaceInserts
<1>2. \A d \in Callers : change[d] \in Changes
  BY DEF SelectionTypeOK
<1>3. /\ change'[c].at = "inserted" /\ change'[c].list = change[c].list
      /\ change'[c].met <=> \E e \in Callers : Storing(e)
  BY <1>2 DEF ReplaceInserts, Changes
<1>4. ASSUME NEW d \in Callers, d # c
      PROVE  /\ Storing(d)' <=> Storing(d)
             /\ Storing(d) => change'[d].met
  BY <1>2, <1>4 DEF ReplaceInserts, Changes, Storing
<1>5. ASSUME NEW d \in Callers, Storing(d)', ~change'[d].met
      PROVE  /\ change'[d].list \subseteq links'
             /\ \A e \in Callers : Storing(e)' => e = d
  <2>1. d = c
    BY <1>4, <1>5
  <2>2. \A e \in Callers : ~Storing(e)
    BY <1>3, <1>5, <2>1
  <2> QED
    BY <1>1, <1>3, <1>4, <2>1, <2>2
<1>6. Storing(c)'
  BY <1>3 DEF Storing
<1> QED
  BY <1>5, <1>6 DEF ReplaceInv

LEMMA ReplaceRemovesKeeps ==
  ASSUME SelectionTypeOK, ReplaceInv, NEW c \in Callers, ReplaceRemoves(c)
  PROVE  ReplaceInv'
<1> SUFFICES ASSUME ~spoiled' PROVE ReplaceInv'
  BY DEF ReplaceInv
<1>1. /\ ~spoiled /\ Storing(c)
      /\ links' = links \cap change[c].list
      /\ last' = change[c].list /\ alone' = ~change[c].met
  BY DEF ReplaceRemoves, Storing
<1>2. \A d \in Callers : change[d] \in Changes
  BY DEF SelectionTypeOK
<1>3. ~Storing(c)'
  BY EndedFacts DEF ReplaceRemoves, Storing
<1>4. \A d \in Callers : d # c => change'[d] = change[d]
  BY EndedFacts DEF ReplaceRemoves
<1>5. ASSUME NEW d \in Callers, Storing(d)' PROVE change'[d].met
  <2>1. d # c /\ Storing(d) /\ change'[d] = change[d]
    BY <1>3, <1>4, <1>5 DEF Storing
  <2> QED
    BY <1>1, <2>1 DEF ReplaceInv
<1>6. ~change[c].met => links' = last'
  BY <1>1 DEF ReplaceInv
<1> QED
  BY <1>1, <1>5, <1>6 DEF ReplaceInv

LEMMA ReplaceInvNext ==
  SelectionTypeOK /\ ReplaceInv /\ [SelectionNext]_selectionVars => ReplaceInv'
<1> SUFFICES ASSUME SelectionTypeOK, ReplaceInv, [SelectionNext]_selectionVars
    PROVE  ReplaceInv'
  OBVIOUS
<1>t. /\ \A c \in Callers : change[c] \in Changes
      /\ change \in [Callers -> Changes]
      /\ {"tab", "left", "gone", "others"} \subseteq Callers
  BY DEF SelectionTypeOK, Callers
<1>s. ASSUME NEW c \in Callers, NEW wanted, Sent(c, wanted)
      PROVE  \A d \in Callers : /\ Storing(d)' <=> Storing(d)
                                /\ Storing(d) => change'[d] = change[d]
  BY <1>s, <1>t DEF Sent, Busy, Storing
<1>n. ASSUME NEW c \in Callers, change[c].at # "inserted",
             \/ change' = [change EXCEPT ![c] = NoChange]
             \/ change' = [change EXCEPT ![c].at = "settling"]
      PROVE  \A d \in Callers : /\ Storing(d)' <=> Storing(d)
                                /\ Storing(d) => change'[d] = change[d]
  BY <1>n, <1>t DEF NoChange, Storing, Changes
<1>e. ASSUME change' = Settled
      PROVE  \A d \in Callers : /\ Storing(d)' <=> Storing(d)
                                /\ Storing(d) => change'[d] = change[d]
  BY <1>e, <1>n, <1>t DEF Settled, Storing
<1>1. ASSUME NEW x \in Targets, ToggleNotif(x) PROVE ReplaceInv'
  BY <1>1, <1>s, <1>t, ReplaceUntouched DEF ToggleNotif
<1>2. CASE OpenSelector
  BY <1>2, ReplaceUntouched DEF OpenSelector, Storing
<1>3. CASE CloseSelector
  <2>1. CASE Busy("tab")
    BY <1>3, <1>t, <2>1, ReplaceMoved DEF CloseSelector, Busy, Storing
  <2>2. CASE ~Busy("tab")
    BY <1>3, <2>2, ReplaceUntouched DEF CloseSelector, Storing
  <2> QED
    BY <2>1, <2>2
<1>4. ASSUME NEW wanted \in Lists, SaveSelection(wanted) PROVE ReplaceInv'
  BY <1>4, <1>s, <1>t, ReplaceUntouched DEF SaveSelection
<1>5. ASSUME NEW wanted \in Lists, OthersSend(wanted) PROVE ReplaceInv'
  BY <1>5, <1>s, <1>t, ReplaceUntouched DEF OthersSend
<1>6. ASSUME NEW c \in Callers, ReplaceInserts(c) PROVE ReplaceInv'
  BY <1>6, ReplaceInsertsKeeps
<1>7. ASSUME NEW c \in Callers, ReplaceRemoves(c) PROVE ReplaceInv'
  BY <1>7, ReplaceRemovesKeeps
<1>8. ASSUME NEW c \in Callers, ReplaceFails(c) PROVE ReplaceInv'
  BY <1>8 DEF ReplaceFails, ReplaceInv
<1>9. ASSUME NEW c \in Callers, ChangeFailed(c) PROVE ReplaceInv'
  BY <1>9, <1>n, ReplaceUntouched DEF ChangeFailed
<1>10. CASE NotifsStored
  <2>1. \A c \in Callers : /\ Storing(c)' <=> Storing(c)
                           /\ Storing(c) => change'[c] = change[c]
    <3>1. /\ change["tab"].at = "stored" /\ change'["tab"].at = "settling"
          /\ \A c \in Callers : c # "tab" => change'[c] = change[c]
      BY <1>10, <1>t DEF NotifsStored, Ended
    <3> QED
      BY <3>1 DEF Storing
  <2>2. UNCHANGED tableVars /\ spoiled' = spoiled
    BY <1>10 DEF NotifsStored
  <2> QED
    BY <2>1, <2>2, ReplaceUntouched
<1>11. CASE SelectionStored
  BY <1>11, <1>n, <1>t, ReplaceUntouched DEF SelectionStored
<1>12. CASE OthersStored
  BY <1>12, <1>n, <1>t, ReplaceUntouched DEF OthersStored
<1>13. CASE FetchRow
  BY <1>13, ReplaceUntouched DEF FetchRow, Storing
<1>14. CASE ServeRow
  BY <1>14, ReplaceUntouched DEF ServeRow, Storing
<1>15. CASE ReceiveRow
  BY <1>15, <1>e, ReplaceUntouched DEF ReceiveRow
<1>16. CASE LoseRow
  BY <1>16 DEF LoseRow, ReplaceInv
<1>17. CASE LeavePage
  <2>1. CASE UNCHANGED change
    BY <1>17, <2>1, ReplaceUntouched DEF LeavePage, Storing
  <2>2. CASE change["tab"].at = "settling" /\ change' = [change EXCEPT !["tab"] = NoChange]
    BY <1>17, <1>n, <1>t, <2>2, ReplaceUntouched DEF LeavePage
  <2>3. ASSUME NEW c \in {"tab", "left"}, ~Busy("gone"), change' = Moved(c, "gone")
        PROVE  ReplaceInv'
    BY <1>17, <1>t, <2>3, ReplaceMoved DEF LeavePage, Busy, Storing
  <2> QED
    BY <1>17, <2>1, <2>2, <2>3 DEF LeavePage
<1>18. CASE VisitPage
  BY <1>18, ReplaceUntouched DEF VisitPage, Storing
<1>19. CASE LeftStored
  BY <1>19, <1>t, ReplaceMoved DEF LeftStored, Storing
<1>20. CASE GoneStored
  BY <1>20, <1>n, <1>t, ReplaceUntouched DEF GoneStored
<1>21. CASE UNCHANGED selectionVars
  BY <1>21, ReplaceUntouched DEF selectionVars, tableVars, Storing
<1> QED
  BY <1>1, <1>2, <1>3, <1>4, <1>5, <1>6, <1>7, <1>8, <1>9, <1>10, <1>11, <1>12, <1>13, <1>14,
     <1>15, <1>16, <1>17, <1>18, <1>19, <1>20, <1>21 DEF SelectionNext

(* Of any calls that replace the links at the same time, the links end up   *)
(* within the list of the one that removed last, and are exactly that list  *)
(* if it met no other call.                                                 *)
THEOREM LastCallWins == SelectionSpec => []ListIsLastCall
<1>1. SelectionInit => ReplaceInv
  BY DEF SelectionInit, ReplaceInv, Storing, NoChange
<1>2. ReplaceInv => ListIsLastCall
  BY DEF ReplaceInv, ListIsLastCall
<1> QED
  BY <1>1, <1>2, ReplaceInvNext, SelectionTypeInit, SelectionTypeNext, PTL DEF SelectionSpec
(* One tab alone, with nothing failing, that does not leave the page while  *)
(* a change settles.  What it shows when no call of it is under way are the *)
(* links: at once with buttons, which wait for the fetch, otherwise at      *)
(* rest.  With buttons, what it sent is what its clicks ask for.            *)
SoleInv ==
  /\ shown.fetch = "answered" => shown.answer \in Lists
  /\ start # NoData \/ Busy("tab") \/ Busy("left") => here /\ shown.data # NoData
  /\ atRest => start # NoData
  /\ widget = "buttons" => start = NoData /\ ~Busy("left")
  /\ change["tab"].at = "settling" => widget = "buttons" /\ shown.fetch # "idle"
  /\ change["left"].at # "settling"
  /\ ~interfered /\ ~spoiled /\ ~astray =>
       /\ ~Busy("gone") /\ ~Busy("others")
       /\ change["tab"].at # "failed" /\ change["left"].at # "failed"
       /\ TabQuiet \/ change["tab"].at = "settling" =>
            (shown.fetch = "answered" => shown.answer = links)
       /\ TabQuiet /\ shown.data # NoData /\ (widget = "buttons" \/ shown.fetch = "idle") =>
            shown.data = links
       /\ TabQuiet /\ atRest => start = links
       /\ widget = "buttons" =>
            /\ change["tab"].at \in {"sent", "inserted"} => change["tab"].list = meant
            /\ change["tab"].at = "inserted" => meant \subseteq links
            /\ change["tab"].at \in {"none", "stored", "settling"} => links = meant

LEMMA SoleInvInit == SelectionInit => SoleInv
<1> SUFFICES ASSUME SelectionInit PROVE SoleInv
  OBVIOUS
<1>1. shown.fetch = "asked" /\ shown.data = NoData
  BY DEF SelectionInit, Fetched, Unfetched, Restarted
<1>2. \A c \in {"tab", "left", "gone", "others"} : change[c].at = "none"
  BY DEF SelectionInit, Callers, NoChange
<1> QED
  BY <1>1, <1>2 DEF SelectionInit, SoleInv, Busy, TabQuiet

LEMMA SoleInvNext == SelectionTypeOK /\ SoleInv /\ [SelectionNext]_selectionVars => SoleInv'
<1> SUFFICES ASSUME SelectionTypeOK, SoleInv, [SelectionNext]_selectionVars PROVE SoleInv'
  OBVIOUS
<1> USE DEF visitVars, dialogVars, tableVars
<1>t. /\ \A c \in Callers : change[c] \in Changes
      /\ change \in [Callers -> Changes]
      /\ {"tab", "left", "gone", "others"} = Callers
      /\ shown \in Queries(Lists)
      /\ links \in Lists /\ NoData \notin Lists
  BY SelectionAssumption DEF SelectionTypeOK, Callers, Lists
<1>1. ASSUME NEW x \in Targets, ToggleNotif(x) PROVE SoleInv'
  <2>1. change' = [change EXCEPT !["tab"] = [at |-> "sent", list |-> Toggled(LinkedIds, x), met |-> FALSE]]
    BY <1>1 DEF ToggleNotif, Sent
  <2>2. /\ change'["tab"].at = "sent" /\ change'["tab"].list = Toggled(LinkedIds, x)
        /\ \A c \in {"left", "gone", "others"} : change'[c] = change[c]
    BY <2>1, <1>t
  <2>3. ~interfered /\ ~spoiled /\ ~astray => LinkedIds = meant
    BY <1>1 DEF ToggleNotif, Sent, Busy, TabQuiet, SoleInv, LinkedIds
  <2> QED
    BY <1>1, <2>2, <2>3 DEF ToggleNotif, SoleInv, Busy, TabQuiet
<1>2. CASE OpenSelector
  BY <1>2 DEF OpenSelector, SoleInv, Busy, TabQuiet, LinkedIds
<1>3. CASE CloseSelector
  <2>1. CASE Busy("tab")
    <3>1. /\ change'["tab"].at = "none" /\ change'["left"] = change["tab"]
          /\ \A c \in {"gone", "others"} : change'[c] = change[c]
      BY <1>3, <1>t, <2>1 DEF CloseSelector, Moved, NoChange
    <3>2. widget = "dialog" /\ change["tab"].at # "settling"
      BY <1>3, SelectionAssumption DEF CloseSelector, SoleInv, SelectionTypeOK
    <3> QED
      BY <1>3, <2>1, <3>1, <3>2 DEF CloseSelector, SoleInv, Busy, TabQuiet
  <2>2. CASE ~Busy("tab")
    BY <1>3, <2>2 DEF CloseSelector, SoleInv, Busy, TabQuiet
  <2> QED
    BY <2>1, <2>2
<1>4. ASSUME NEW wanted \in Lists, SaveSelection(wanted) PROVE SoleInv'
  <2>1. change' = [change EXCEPT !["tab"] = [at |-> "sent", list |-> wanted, met |-> FALSE]]
    BY <1>4 DEF SaveSelection, Sent
  <2>2. /\ change'["tab"].at = "sent"
        /\ \A c \in {"left", "gone", "others"} : change'[c] = change[c]
    BY <2>1, <1>t
  <2> QED
    BY <1>4, <2>2 DEF SaveSelection, SoleInv, Busy, TabQuiet
<1>5. ASSUME NEW wanted \in Lists, OthersSend(wanted) PROVE SoleInv'
  <2>1. change'["tab"] = change["tab"] /\ change'["left"] = change["left"]
    BY <1>5, <1>t DEF OthersSend, Sent
  <2> QED
    BY <1>5, <2>1 DEF OthersSend, SoleInv, Busy
<1>6. ASSUME NEW c \in Callers, ReplaceInserts(c) PROVE SoleInv'
  <2>1. /\ change[c].at = "sent" /\ change'[c].at = "inserted" /\ change'[c].list = change[c].list
        /\ \A d \in Callers : d # c => change'[d].at = change[d].at
    BY <1>6, <1>t DEF ReplaceInserts, Changes
  <2>2. \A d \in Callers : Busy(d)' <=> Busy(d)
    BY <2>1 DEF Busy
  <2>3. ~interfered /\ ~spoiled /\ ~astray => c \in {"tab", "left"}
    BY <1>t, <2>1 DEF SoleInv, Busy
  <2>4. TabQuiet' <=> TabQuiet
    BY <1>t, <2>2 DEF TabQuiet
  <2>5. /\ change["tab"].at = "settling" <=> change'["tab"].at = "settling"
        /\ change'["left"].at # "settling"
        /\ change["left"].at # "failed" => change'["left"].at # "failed"
        /\ change["tab"].at # "failed" => change'["tab"].at # "failed"
    BY <1>t, <2>1 DEF SoleInv
  <2>6. ~interfered /\ ~spoiled /\ ~astray => ~TabQuiet /\ change["tab"].at # "settling"
    BY <1>t, <2>1, <2>3 DEF SoleInv, Busy, TabQuiet
  <2>7. ASSUME ~interfered, ~spoiled, ~astray, widget = "buttons"
        PROVE  /\ change'["tab"].at = "inserted" /\ change'["tab"].list = meant
               /\ meant \subseteq links'
    BY <1>6, <2>1, <2>3, <2>7 DEF ReplaceInserts, SoleInv, Busy
  <2> QED
    BY <1>6, <1>t, <2>2, <2>4, <2>5, <2>6, <2>7 DEF ReplaceInserts, SoleInv
<1>7. ASSUME NEW c \in Callers, ReplaceRemoves(c) PROVE SoleInv'
  <2>1. /\ change[c].at = "inserted" /\ change'[c].at = "stored"
        /\ \A d \in Callers : d # c => change'[d].at = change[d].at
    BY <1>7, EndedFacts DEF ReplaceRemoves
  <2>2. \A d \in Callers : Busy(d)' <=> Busy(d)
    BY <2>1 DEF Busy
  <2>3. ~interfered /\ ~spoiled /\ ~astray => c \in {"tab", "left"}
    BY <1>t, <2>1 DEF SoleInv, Busy
  <2>4. TabQuiet' <=> TabQuiet
    BY <1>t, <2>2 DEF TabQuiet
  <2>5. /\ change["tab"].at = "settling" <=> change'["tab"].at = "settling"
        /\ change'["left"].at # "settling"
        /\ change["left"].at # "failed" => change'["left"].at # "failed"
        /\ change["tab"].at # "failed" => change'["tab"].at # "failed"
    BY <1>t, <2>1 DEF SoleInv
  <2>6. ~interfered /\ ~spoiled /\ ~astray => ~TabQuiet /\ change["tab"].at # "settling"
    BY <1>t, <2>1, <2>3 DEF SoleInv, Busy, TabQuiet
  <2>7. ASSUME ~interfered, ~spoiled, ~astray, widget = "buttons"
        PROVE  change'["tab"].at = "stored" /\ links' = meant
    <3>1. c = "tab" /\ change["tab"].list = meant /\ meant \subseteq links
      BY <2>1, <2>3, <2>7 DEF SoleInv, Busy
    <3> QED
      BY <1>7, <2>1, <3>1 DEF ReplaceRemoves
  <2> QED
    BY <1>7, <1>t, <2>2, <2>4, <2>5, <2>6, <2>7 DEF ReplaceRemoves, SoleInv
<1>8. ASSUME NEW c \in Callers, ReplaceFails(c) PROVE SoleInv'
  <2>1. /\ \A d \in Callers : Busy(d)' <=> Busy(d)
        /\ \A d \in Callers : change'[d].at = "settling" => change[d].at = "settling"
    BY <1>8, <1>t DEF ReplaceFails, Busy, Ended
  <2> QED
    BY <1>8, <1>t, <2>1 DEF ReplaceFails, SoleInv
<1>9. ASSUME NEW c \in Callers, ChangeFailed(c) PROVE SoleInv'
  <2>1. /\ \A d \in Callers : Busy(d)' => Busy(d)
        /\ \A d \in Callers : change'[d].at = "settling" => change[d].at = "settling"
    BY <1>9, <1>t DEF ChangeFailed, NoChange, Busy
  <2>2. interfered \/ spoiled \/ astray
    BY <1>9, <1>t DEF ChangeFailed, SoleInv, Busy
  <2> QED
    BY <1>9, <1>t, <2>1, <2>2 DEF ChangeFailed, SoleInv
<1>10. CASE NotifsStored
  <2>1. /\ change'["tab"].at = "settling"
        /\ \A c \in {"left", "gone", "others"} : change'[c] = change[c]
    BY <1>10, <1>t DEF NotifsStored, Ended
  <2>2. shown.data # NoData
    BY <1>10 DEF NotifsStored, SoleInv, Busy
  <2>3. shown'.data = shown.data /\ shown'.fetch = "asked"
    BY <1>10, <1>t, <2>2 DEF NotifsStored, Invalidated, Restarted, Queries
  <2> QED
    BY <1>10, <2>1, <2>2, <2>3 DEF NotifsStored, SoleInv, Busy, TabQuiet
<1>11. CASE SelectionStored
  <2>1. /\ change'["tab"].at = "none"
        /\ \A c \in {"left", "gone", "others"} : change'[c] = change[c]
    BY <1>11, <1>t DEF SelectionStored, NoChange
  <2>2. shown.data # NoData
    BY <1>11 DEF SelectionStored, SoleInv, Busy
  <2>3. shown'.data = shown.data /\ shown'.fetch = "asked"
    BY <1>11, <1>t, <2>2 DEF SelectionStored, Invalidated, Restarted, Queries
  <2> QED
    BY <1>11, <2>1, <2>2, <2>3 DEF SelectionStored, SoleInv, Busy, TabQuiet
<1>12. CASE OthersStored
  <2>1. change'["tab"] = change["tab"] /\ change'["left"] = change["left"]
    BY <1>12, <1>t DEF OthersStored
  <2>2. interfered \/ spoiled \/ astray
    BY <1>12 DEF OthersStored, SoleInv, Busy
  <2> QED
    BY <1>12, <2>1, <2>2 DEF OthersStored, SoleInv, Busy
<1>13. CASE FetchRow
  <2>1. shown'.data = shown.data /\ shown'.fetch = "asked"
    BY <1>13, <1>t DEF FetchRow, Fetched, Restarted, Queries
  <2> QED
    BY <1>13, <2>1 DEF FetchRow, SoleInv, Busy, TabQuiet
<1>14. CASE ServeRow
  <2>1. shown'.data = shown.data /\ shown'.fetch = "answered" /\ shown'.answer = links
    BY <1>14, <1>t DEF ServeRow, Served, Queries
  <2> QED
    BY <1>14, <1>t, <2>1 DEF ServeRow, SoleInv, Busy, TabQuiet
<1>15. CASE ReceiveRow
  <2>1. shown'.data = shown.answer /\ shown'.fetch = "idle" /\ shown.answer \in Lists
    BY <1>15, <1>t DEF ReceiveRow, Received, Queries, SoleInv
  <2>2. CASE change["tab"].at = "settling"
    <3>1. /\ change'["tab"].at = "none"
          /\ \A c \in {"left", "gone", "others"} : change'[c] = change[c]
      BY <1>15, <1>t, <2>2 DEF ReceiveRow, Settled, NoChange
    <3>2. ~interfered /\ ~spoiled /\ ~astray => links = meant /\ shown.answer = links
      BY <1>15, <2>2 DEF ReceiveRow, SoleInv
    <3>3. widget = "buttons" /\ here
      BY <2>2 DEF SoleInv, Busy
    <3>4. shown'.data # NoData
      BY <1>t, <2>1
    <3> QED
      BY <1>15, <2>1, <3>1, <3>2, <3>3, <3>4 DEF ReceiveRow, SoleInv, Busy, TabQuiet
  <2>3. CASE change["tab"].at # "settling"
    <3>1. change' = change
      BY <1>15, <2>3 DEF ReceiveRow, Settled
    <3>2. shown'.data # NoData
      BY <1>t, <2>1
    <3>3. ~interfered /\ ~spoiled /\ ~astray /\ TabQuiet => shown'.data = links
      BY <1>15, <2>1 DEF ReceiveRow, SoleInv
    <3>4. /\ UNCHANGED <<widget, here, astray, links, start, atRest, spoiled, interfered, meant>>
          /\ shown'.fetch = "idle"
      BY <1>15, <2>1 DEF ReceiveRow
    <3> QED
      BY <2>3, <3>1, <3>2, <3>3, <3>4 DEF SoleInv, Busy, TabQuiet
  <2> QED
    BY <2>2, <2>3
<1>16. CASE LoseRow
  <2>1. shown'.data = shown.data /\ shown'.fetch = "idle"
    BY <1>16, <1>t DEF LoseRow, Abandoned, Queries
  <2>2. /\ Busy("tab")' => Busy("tab")
        /\ change'["tab"].at # "settling" /\ change'["left"] = change["left"]
    BY <1>16, <1>t DEF LoseRow, Settled, NoChange, Busy
  <2> QED
    BY <1>16, <2>1, <2>2 DEF LoseRow, SoleInv, Busy
<1>17. CASE LeavePage
  <2>1. CASE ~Busy("tab") /\ ~Busy("left") /\ UNCHANGED change
    BY <1>17, <2>1 DEF LeavePage, SoleInv, Busy, TabQuiet
  <2>2. CASE change["tab"].at = "settling" /\ change' = [change EXCEPT !["tab"] = NoChange]
    <3>1. change'["tab"].at = "none" /\ change'["left"] = change["left"]
      BY <1>t, <2>2 DEF NoChange
    <3>2. astray' /\ ~Busy("left")
      BY <1>17, <2>2 DEF LeavePage, SoleInv, Busy, TabQuiet
    <3> QED
      BY <1>17, <3>1, <3>2 DEF LeavePage, SoleInv, Busy
  <2>3. ASSUME NEW c \in {"tab", "left"}, Busy(c), change' = Moved(c, "gone"),
               \A d \in {"tab", "left", "gone"} \ {c} : ~Busy(d)
        PROVE  SoleInv'
    <3>1. change'["tab"].at = "none" /\ change'["left"].at = "none"
      BY <1>t, <2>3 DEF Moved, NoChange, Busy
    <3>2. astray'
      BY <1>17, <2>3 DEF LeavePage, TabQuiet
    <3> QED
      BY <1>17, <3>1, <3>2 DEF LeavePage, SoleInv, Busy
  <2> QED
    BY <1>17, <2>1, <2>2, <2>3 DEF LeavePage
<1>18. CASE VisitPage
  <2>1. ~Busy("tab") /\ ~Busy("left") /\ start = NoData /\ change["tab"].at # "settling"
    BY <1>18 DEF VisitPage, SoleInv, Busy
  <2>2. \/ shown'.data = shown.data /\ shown'.fetch = shown.fetch /\ shown'.answer = shown.answer
        \/ shown'.data \in {shown.data, NoData} /\ shown'.fetch = "asked"
    BY <1>18, <1>t DEF VisitPage, Fetched, Restarted, Unfetched, Queries
  <2> QED
    BY <1>18, <2>1, <2>2 DEF VisitPage, SoleInv, Busy, TabQuiet
<1>19. CASE LeftStored
  <2>1. /\ change'["tab"].at = "none" /\ change'["left"] = change["tab"]
        /\ \A c \in {"gone", "others"} : change'[c] = change[c]
    BY <1>19, <1>t DEF LeftStored, Moved, NoChange
  <2>2. shown.data # NoData /\ here /\ widget = "dialog" /\ change["tab"].at # "settling"
    BY <1>19, SelectionAssumption DEF LeftStored, SoleInv, SelectionTypeOK, Busy
  <2>3. shown'.data = shown.data /\ shown'.fetch = "asked"
    BY <1>19, <1>t, <2>2 DEF LeftStored, Invalidated, Restarted, Queries
  <2> QED
    BY <1>19, <2>1, <2>2, <2>3 DEF LeftStored, SoleInv, Busy, TabQuiet
<1>20. CASE GoneStored
  <2>1. \A c \in {"tab", "left"} : change'[c] = change[c]
    BY <1>20, <1>t DEF GoneStored
  <2>2. interfered \/ spoiled \/ astray
    BY <1>20 DEF GoneStored, SoleInv, Busy
  <2>3. /\ shown'.data = shown.data
        /\ shown'.fetch # shown.fetch => shown'.fetch = "asked"
        /\ shown'.fetch = "answered" => shown'.answer = shown.answer
    BY <1>20, <1>t DEF GoneStored, Invalidated, Fetched, Restarted, Queries
  <2> QED
    BY <1>20, <2>1, <2>2, <2>3 DEF GoneStored, SoleInv, Busy
<1>21. CASE UNCHANGED selectionVars
  BY <1>21 DEF selectionVars, SoleInv, Busy, TabQuiet
<1> QED
  BY <1>1, <1>2, <1>3, <1>4, <1>5, <1>6, <1>7, <1>8, <1>9, <1>10, <1>11, <1>12, <1>13, <1>14,
     <1>15, <1>16, <1>17, <1>18, <1>19, <1>20, <1>21 DEF SelectionNext

(* Every click on a channel counts, however many channels there are and     *)
(* however often the page fetches, is left and is opened again, if one tab  *)
(* is at work, nothing fails and no page is left while a change settles.    *)
THEOREM ClicksCount == SelectionSpec => []TogglesKept
<1>1. SoleInv => TogglesKept
  BY DEF SoleInv, TogglesKept, Busy, TabQuiet
<1> QED
  BY <1>1, SoleInvInit, SoleInvNext, SelectionTypeInit, SelectionTypeNext, PTL DEF SelectionSpec

(* A dialog opened at rest starts from the stored links: saved untouched,   *)
(* it changes nothing.                                                      *)
THEOREM DialogStartsTrue == SelectionSpec => []SelectorStartsTrue
<1>1. SoleInv => SelectorStartsTrue
  BY DEF SoleInv, SelectorStartsTrue
<1> QED
  BY <1>1, SoleInvInit, SoleInvNext, SelectionTypeInit, SelectionTypeNext, PTL DEF SelectionSpec
-----------------------------------------------------------------------------
(* The lists. *)
LEMMA ListTypeInit == ListInit => ListTypeOK
<1> SUFFICES ASSUME ListInit PROVE ListTypeOK
  OBVIOUS
<1>1. list \in Queries(0..MaxWrites)
  BY UnfetchedType, QueryTypes DEF ListInit
<1>2. calls \in [CallSlots -> Calls]
  BY ListPagesAssumption DEF ListInit, NoCall, Calls
<1>3. 0 \in 0..MaxWrites
  BY ListPagesAssumption
<1> QED
  BY <1>1, <1>2, <1>3 DEF ListInit, ListTypeOK

LEMMA NoCallType == NoCall \in Calls
BY ListPagesAssumption DEF NoCall, Calls

LEMMA ListTypeNext == ListTypeOK /\ [ListNext]_listVars => ListTypeOK'
<1> SUFFICES ASSUME ListTypeOK, [ListNext]_listVars PROVE ListTypeOK'
  OBVIOUS
<1>q. list.fetch = "answered" => list.answer \in 0..MaxWrites \cup {NoData}
  BY DEF ListTypeOK, Queries
<1>1. ASSUME NEW op \in Operations, Open(op) PROVE ListTypeOK'
  BY <1>1 DEF Open, ListTypeOK
<1>2. CASE Close
  BY <1>2 DEF Close, ListTypeOK
<1>3. ASSUME NEW op \in Operations, NEW s \in CallSlots, Submit(op, s) PROVE ListTypeOK'
  <2>1. [op |-> op, at |-> "sent", wrote |-> 0] \in Calls
    BY ListPagesAssumption DEF Calls
  <2> QED
    BY <1>3, <2>1 DEF Submit, ListTypeOK
<1>4. CASE Refocus
  BY <1>4, QueryTypes DEF Refocus, ListTypeOK
<1>5. ASSUME NEW s \in CallSlots, Handle(s) PROVE ListTypeOK'
  <2>1. table' \in 0..MaxWrites
    BY <1>5, ListPagesAssumption DEF Handle, ListTypeOK
  <2>2. calls[s] \in Calls
    BY DEF ListTypeOK
  <2>3. table < MaxWrites => table + 1 \in 0..MaxWrites
    BY ListPagesAssumption DEF ListTypeOK
  <2>4. calls' \in [CallSlots -> Calls]
    <3>1. CASE /\ table < MaxWrites
               /\ \E at \in {"written", "lost"} :
                    calls' = [calls EXCEPT ![s].at = at, ![s].wrote = table + 1]
      <4>1. PICK at \in {"written", "lost"} :
              calls' = [calls EXCEPT ![s].at = at, ![s].wrote = table + 1]
        BY <3>1
      <4>2. [op |-> calls[s].op, at |-> at, wrote |-> table + 1] \in Calls
        BY <2>2, <2>3, <3>1 DEF Calls
      <4> QED
        BY <4>1, <4>2 DEF ListTypeOK, Calls
    <3>2. CASE calls' = [calls EXCEPT ![s].at = "lost"]
      BY <2>2, <3>2 DEF ListTypeOK, Calls
    <3> QED
      BY <1>5, <3>1, <3>2 DEF Handle
  <2> QED
    BY <1>5, <2>1, <2>4 DEF Handle, ListTypeOK
<1>6. ASSUME NEW s \in CallSlots, Succeed(s) PROVE ListTypeOK'
  <2>1. calls[s].wrote \in 0..MaxWrites
    BY DEF ListTypeOK, Calls
  <2>2. confirmed' \in 0..MaxWrites
    BY <1>6, <2>1 DEF Succeed, ListTypeOK
  <2>3. calls' \in [CallSlots -> Calls]
    BY <1>6, NoCallType DEF Succeed, ListTypeOK
  <2> QED
    BY <1>6, <2>2, <2>3, QueryTypes DEF Succeed, ListTypeOK
<1>7. ASSUME NEW s \in CallSlots, Fail(s) PROVE ListTypeOK'
  BY <1>7, NoCallType DEF Fail, ListTypeOK
<1>8. CASE OthersWrite
  BY <1>8, ListPagesAssumption DEF OthersWrite, ListTypeOK
<1>9. CASE Poll
  BY <1>9, QueryTypes DEF Poll, ListTypeOK
<1>10. CASE ServeList
  BY <1>10, QueryTypes DEF ServeList, ListTypeOK
<1>11. CASE LoseList
  BY <1>11, QueryTypes DEF LoseList, ListTypeOK
<1>12. CASE ReceiveList
  <2>1. dialog' \in Operations \cup {"none"}
    BY <1>12 DEF ReceiveList, ListTypeOK
  <2> QED
    BY <1>12, <2>1, QueryTypes DEF ReceiveList, ListTypeOK
<1>13. CASE UNCHANGED listVars
  BY <1>13 DEF listVars, ListTypeOK
<1> QED
  BY <1>1, <1>2, <1>3, <1>4, <1>5, <1>6, <1>7, <1>8, <1>9, <1>10, <1>11, <1>12, <1>13
  DEF ListNext, UseList

(* A list page is well typed. *)
THEOREM ListTypeCorrect == ListSpec => []ListTypeOK
<1> QED
  BY ListTypeInit, ListTypeNext, PTL DEF ListSpec

(* An own write that has been answered is in the table; and it is in the   *)
(* list, or in the answer on its way, or that answer is not served yet, or *)
(* the last fetch has failed.                                              *)
SavesInv ==
  /\ confirmed <= table
  /\ \A s \in CallSlots : calls[s].at = "written" => calls[s].wrote <= table
  /\ list.data = NoData => confirmed = 0
  /\ list.fetch = "answered" => list.answer \in 0..MaxWrites /\ list.answer >= confirmed
  /\ OwnSavesShown

LEMMA SavesInvInit == ListInit => SavesInv
BY ListPagesAssumption
   DEF ListInit, SavesInv, OwnSavesShown, Fetched, Restarted, Unfetched, NoCall

(* A fetch that starts drops the answer that was under way. *)
LEMMA RestartKeeps ==
  ASSUME ListTypeOK, SavesInv, list' = Restarted(list),
         UNCHANGED <<table, confirmed>>, \A s \in CallSlots : calls'[s].at = "written" => calls'[s] = calls[s]
  PROVE  SavesInv'
<1>1. list'.data = list.data /\ list'.fetch = "asked"
  BY DEF Restarted, ListTypeOK, Queries
<1> QED
  BY <1>1 DEF SavesInv, OwnSavesShown

LEMMA SavesInvNext == ListTypeOK /\ SavesInv /\ [ListNext]_listVars => SavesInv'
<1> SUFFICES ASSUME ListTypeOK, SavesInv, [ListNext]_listVars PROVE SavesInv'
  OBVIOUS
<1>t. /\ table \in Nat /\ confirmed \in Nat /\ table \in 0..MaxWrites
      /\ list.data # NoData => list.data \in 0..MaxWrites
      /\ \A s \in CallSlots : calls[s] \in Calls
  BY ListPagesAssumption DEF ListTypeOK, Queries
<1>m. NoData \notin 0..MaxWrites /\ NoData # 0
  BY ListPagesAssumption
<1>1. ASSUME NEW op \in Operations, Open(op) PROVE SavesInv'
  BY <1>1 DEF Open, SavesInv, OwnSavesShown
<1>2. CASE Close
  BY <1>2 DEF Close, SavesInv, OwnSavesShown
<1>3. ASSUME NEW op \in Operations, NEW s \in CallSlots, Submit(op, s) PROVE SavesInv'
  <2>1. \A z \in CallSlots : calls'[z].at = "written" => calls'[z] = calls[z]
    BY <1>3 DEF Submit, ListTypeOK
  <2> QED
    BY <1>3, <2>1 DEF Submit, SavesInv, OwnSavesShown
<1>4. CASE Refocus
  BY <1>4, RestartKeeps DEF Refocus, Fetched
<1>5. ASSUME NEW s \in CallSlots, Handle(s) PROVE SavesInv'
  <2>1. table' \in Nat /\ table <= table'
    BY <1>5, <1>t DEF Handle
  <2>2. ASSUME NEW z \in CallSlots, calls'[z].at = "written" PROVE calls'[z].wrote <= table'
    <3>1. CASE z # s
      <4>1. calls'[z] = calls[z]
        BY <1>5, <3>1 DEF Handle, ListTypeOK
      <4>2. calls[z].wrote \in Nat /\ calls[z].wrote <= table
        BY <2>2, <4>1, <1>t DEF SavesInv, Calls
      <4> QED
        BY <2>1, <4>1, <4>2, <1>t
    <3>2. CASE z = s
      <4>1. calls[s] \in Calls /\ calls \in [CallSlots -> Calls]
        BY DEF ListTypeOK
      <4>2. table' = table + 1 /\ \E at \in {"written", "lost"} :
              calls' = [calls EXCEPT ![s].at = at, ![s].wrote = table + 1]
        <5>1. CASE calls' = [calls EXCEPT ![s].at = "lost"]
          BY <2>2, <3>2, <4>1, <5>1 DEF Calls
        <5> QED
          BY <1>5, <5>1 DEF Handle
      <4>3. calls'[s].wrote = table + 1
        BY <4>1, <4>2 DEF Calls
      <4> QED
        BY <3>2, <4>2, <4>3, <2>1
    <3> QED
      BY <3>1, <3>2
  <2> QED
    BY <1>5, <1>t, <2>1, <2>2 DEF Handle, SavesInv, OwnSavesShown
<1>6. ASSUME NEW s \in CallSlots, Succeed(s) PROVE SavesInv'
  <2>1. calls[s].wrote \in Nat /\ calls[s].wrote <= table
    BY <1>6, <1>t DEF Succeed, SavesInv, Calls
  <2>2. confirmed' <= table'
    BY <1>6, <2>1 DEF Succeed, SavesInv
  <2>3. list'.data = list.data /\ (list.data # NoData => list'.fetch = "asked")
    BY <1>6 DEF Succeed, Invalidated, Fetched, Restarted, ListTypeOK, Queries
  <2>4. list.data = NoData => /\ confirmed' = 0
                              /\ list'.fetch = "asked" \/ list' = list
    BY <1>6 DEF Succeed, SavesInv, Invalidated, Fetched, Restarted, ListTypeOK, Queries
  <2>5. \A z \in CallSlots : calls'[z].at = "written" => calls'[z] = calls[z]
    BY <1>6 DEF Succeed, ListTypeOK, NoCall
  <2> QED
    BY <1>6, <1>t, <2>2, <2>3, <2>4, <2>5 DEF Succeed, SavesInv, OwnSavesShown
<1>7. ASSUME NEW s \in CallSlots, Fail(s) PROVE SavesInv'
  <2>1. \A z \in CallSlots : calls'[z].at = "written" => calls'[z] = calls[z]
    BY <1>7 DEF Fail, ListTypeOK, NoCall
  <2> QED
    BY <1>7, <2>1 DEF Fail, SavesInv, OwnSavesShown
<1>8. CASE OthersWrite
  <2>1. \A z \in CallSlots : calls[z].wrote \in Nat
    BY <1>t DEF Calls
  <2> QED
    BY <1>8, <1>t, <2>1 DEF OthersWrite, SavesInv, OwnSavesShown
<1>9. CASE Poll
  BY <1>9, RestartKeeps DEF Poll, Fetched
<1>10. CASE ServeList
  <2>1. list'.data = list.data /\ list'.fetch = "answered" /\ list'.answer = table
    BY <1>10 DEF ServeList, Served, ListTypeOK, Queries
  <2> QED
    BY <1>10, <1>t, <2>1 DEF ServeList, SavesInv, OwnSavesShown
<1>11. CASE LoseList
  <2>1. list'.data = list.data /\ list'.fetch = "idle" /\ list'.failed
    BY <1>11 DEF LoseList, Abandoned, ListTypeOK, Queries
  <2> QED
    BY <1>11, <2>1 DEF LoseList, SavesInv, OwnSavesShown
<1>12. CASE ReceiveList
  <2>1. list'.data = list.answer /\ list'.fetch = "idle"
    BY <1>12 DEF ReceiveList, Received, ListTypeOK, Queries
  <2>2. list.answer \in 0..MaxWrites /\ list.answer >= confirmed /\ list.answer # NoData
    BY <1>12, <1>m DEF ReceiveList, SavesInv
  <2> QED
    BY <1>12, <2>1, <2>2 DEF ReceiveList, SavesInv, OwnSavesShown
<1>13. CASE UNCHANGED listVars
  BY <1>13 DEF listVars, SavesInv, OwnSavesShown
<1> QED
  BY <1>1, <1>2, <1>3, <1>4, <1>5, <1>6, <1>7, <1>8, <1>9, <1>10, <1>11, <1>12, <1>13
  DEF ListNext, UseList

(* A page's own change is in the list that it shows once it has been told  *)
(* that the change is stored: no fetch begun before the change, by a poll, *)
(* a focused window or another call, is put over it.                       *)
THEOREM OwnSaves == ListSpec => []OwnSavesShown
<1>1. SavesInv => OwnSavesShown
  BY DEF SavesInv
<1> QED
  BY <1>1, SavesInvInit, SavesInvNext, ListTypeInit, ListTypeNext, PTL DEF ListSpec
-----------------------------------------------------------------------------
(* The settings. *)
LEMMA FilledType ==
  ASSUME SettingsTypeOK, NEW old, NEW new \in SettingValues \cup {NoData}
  PROVE  Filled(old, new) \in SettingValues
BY DEF SettingsTypeOK, Filled

LEMMA NoSavingType == NoSaving \in Savings
BY SettingsAssumption DEF NoSaving, Savings

LEMMA SettingsTypeInit == SettingsInit => SettingsTypeOK
<1> SUFFICES ASSUME SettingsInit PROVE SettingsTypeOK
  OBVIOUS
<1>1. cached \in Queries(SettingValues)
  BY UnfetchedType, QueryTypes DEF SettingsInit
<1>2. saving \in [SaveSlots -> Savings]
  BY NoSavingType DEF SettingsInit
<1>3. saves \in 0..MaxSaves
  BY SettingsAssumption DEF SettingsInit
<1> QED
  BY <1>1, <1>2, <1>3, SettingsAssumption DEF SettingsInit, SettingsTypeOK

(* What is done to the saves leaves saves. *)
LEMMA SavingTypes ==
  ASSUME SettingsTypeOK, NEW s \in SaveSlots
  PROVE  /\ saving[s] \in Savings /\ saving[s].value \in SettingValues
         /\ \A at \in {"written", "missed", "failed"} :
              [saving EXCEPT ![s].at = at] \in [SaveSlots -> Savings]
         /\ \A new \in Savings : [saving EXCEPT ![s] = new] \in [SaveSlots -> Savings]
<1>1. saving[s] \in Savings
  BY DEF SettingsTypeOK
<1>2. saving[s].value \in SettingValues
  BY <1>1 DEF Savings
<1>3. ASSUME NEW at \in {"written", "missed", "failed"}
      PROVE  [saving EXCEPT ![s].at = at] \in [SaveSlots -> Savings]
  BY <1>1 DEF SettingsTypeOK, Savings
<1>4. ASSUME NEW new \in Savings PROVE [saving EXCEPT ![s] = new] \in [SaveSlots -> Savings]
  BY <1>4 DEF SettingsTypeOK
<1> QED
  BY <1>1, <1>2, <1>3, <1>4

LEMMA SettingsTypeNext == SettingsTypeOK /\ [SettingsNext]_settingsVars => SettingsTypeOK'
<1> SUFFICES ASSUME SettingsTypeOK, [SettingsNext]_settingsVars PROVE SettingsTypeOK'
  OBVIOUS
<1> USE DEF rowVars, saveGhosts
<1>s. /\ "tab" \in SaveSlots /\ "left" \in SaveSlots
      /\ \A value \in SettingValues : [at |-> "sent", value |-> value] \in Savings
      /\ saves < MaxSaves => saves + 1 \in 0..MaxSaves
      /\ cached.answer \in SettingValues \cup {NoData}
  BY SettingsAssumption DEF SettingsTypeOK, SaveSlots, Savings, Queries
<1>1. ASSUME NEW value \in SettingValues, EditSetting(value) PROVE SettingsTypeOK'
  BY <1>1 DEF EditSetting, SettingsTypeOK
<1>2. ASSUME NEW value \in SettingValues, OthersSave(value) PROVE SettingsTypeOK'
  BY <1>2, <1>s DEF OthersSave, SettingsTypeOK
<1>3. CASE SaveSettings
  <2>1. draft \in SettingValues
    BY DEF SettingsTypeOK
  <2>2. saving' \in [SaveSlots -> Savings]
    BY <1>3, <1>s, <2>1, SavingTypes DEF SaveSettings
  <2>3. crossed' \in BOOLEAN
    BY <1>3 DEF SaveSettings, Saving
  <2> QED
    BY <1>3, <1>s, <2>2, <2>3 DEF SaveSettings, SettingsTypeOK
<1>4. ASSUME NEW s \in SaveSlots, PutSettings(s) PROVE SettingsTypeOK'
  BY <1>4, SavingTypes DEF PutSettings, SettingsTypeOK
<1>5. ASSUME NEW s \in SaveSlots, PutNameless(s) PROVE SettingsTypeOK'
  BY <1>5, SavingTypes DEF PutNameless, SettingsTypeOK
<1>6. ASSUME NEW s \in SaveSlots, SaveLost(s) PROVE SettingsTypeOK'
  BY <1>6, SavingTypes DEF SaveLost, SettingsTypeOK
<1>7. ASSUME NEW s \in SaveSlots, SaveAnswered(s) PROVE SettingsTypeOK'
  <2>1. saving' \in [SaveSlots -> Savings]
    BY <1>7, NoSavingType, SavingTypes DEF SaveAnswered
  <2>2. cached' \in Queries(SettingValues) /\ draft' \in SettingValues
    BY <1>7, SavingTypes, QueryTypes, FilledType DEF SaveAnswered, SettingsTypeOK
  <2>3. overlap' \in BOOLEAN /\ missed' \in BOOLEAN
    BY <1>7 DEF SaveAnswered
  <2> QED
    BY <1>7, <2>1, <2>2, <2>3, SavingTypes DEF SaveAnswered, SettingsTypeOK
<1>8. ASSUME NEW s \in SaveSlots, SaveForgotten(s) PROVE SettingsTypeOK'
  BY <1>8, NoSavingType, SavingTypes DEF SaveForgotten, SettingsTypeOK
<1>9. CASE FetchSettings
  BY <1>9, QueryTypes DEF FetchSettings, SettingsTypeOK
<1>10. CASE ServeSettings
  BY <1>10, QueryTypes DEF ServeSettings, SettingsTypeOK
<1>11. CASE ReceiveSettings
  BY <1>11, <1>s, QueryTypes, FilledType DEF ReceiveSettings, SettingsTypeOK
<1>12. CASE LoseSettings
  BY <1>12, QueryTypes DEF LoseSettings, SettingsTypeOK
<1>13. CASE LeaveSettings
  <2>1. saving' \in [SaveSlots -> Savings]
    BY <1>13, <1>s, NoSavingType, SavingTypes DEF LeaveSettings, SettingsTypeOK
  <2> QED
    BY <1>13, <2>1, SettingsAssumption DEF LeaveSettings, SettingsTypeOK
<1>14. CASE VisitSettings
  <2>1. cached' \in Queries(SettingValues)
    BY <1>14, QueryTypes, UnfetchedType DEF VisitSettings, SettingsTypeOK
  <2>2. draft' \in SettingValues
    BY <1>14, <2>1, SettingsAssumption DEF VisitSettings, Queries
  <2> QED
    BY <1>14, <2>1, <2>2 DEF VisitSettings, SettingsTypeOK
<1>15. CASE UNCHANGED settingsVars
  BY <1>15 DEF settingsVars, SettingsTypeOK
<1> QED
  BY <1>1, <1>2, <1>3, <1>4, <1>5, <1>6, <1>7, <1>8, <1>9, <1>10, <1>11, <1>12, <1>13, <1>14,
     <1>15 DEF SettingsNext

(* The settings page is well typed: neither an answer nor an edit puts      *)
(* anything but a setting into the form or the row.                         *)
THEOREM SettingsTypeCorrect == SettingsSpec => []SettingsTypeOK
<1> QED
  BY SettingsTypeInit, SettingsTypeNext, PTL DEF SettingsSpec

(* With one person at work, whose saves are not under way together, a save  *)
(* that was written is in the row; and from its answer to the next save the *)
(* row, the page and every answer under way agree, if no fetch was under    *)
(* way when the answer came and the save was not the nameless one.          *)
SettingsInv ==
  /\ ~crossed => ~(Saving("tab") /\ Saving("left"))
  /\ ~foreign /\ ~crossed =>
       /\ \A s \in SaveSlots : saving[s].at = "written" => row = saving[s].value
       /\ ~overlap /\ ~missed /\ saved # NoData /\ (\A s \in SaveSlots : ~Saving(s)) =>
            /\ row = saved
            /\ cached.data \in {saved, NoData}
            /\ cached.fetch = "answered" => cached.answer = saved

(* Most steps neither move a save nor touch the row. *)
LEMMA SettingsUntouched ==
  ASSUME SettingsInv, UNCHANGED <<saving, rowVars, saveGhosts>>,
         cached'.data \in {cached.data, NoData}
           \/ (cached.fetch = "answered" /\ cached'.data = cached.answer),
         cached'.fetch = "answered" =>
           \/ cached.fetch = "answered" /\ cached'.answer = cached.answer
           \/ cached'.answer = row
  PROVE  SettingsInv'
BY DEF SettingsInv, Saving, rowVars, saveGhosts

LEMMA SettingsInvNext ==
  SettingsTypeOK /\ SettingsInv /\ [SettingsNext]_settingsVars => SettingsInv'
<1> SUFFICES ASSUME SettingsTypeOK, SettingsInv, [SettingsNext]_settingsVars
    PROVE  SettingsInv'
  OBVIOUS
<1>t. /\ cached \in Queries(SettingValues)
      /\ SaveSlots = {"tab", "left"}
      /\ saving \in [SaveSlots -> Savings]
      /\ \A s \in SaveSlots : saving[s] \in Savings
  BY DEF SettingsTypeOK, SaveSlots
<1>1. ASSUME NEW value \in SettingValues, EditSetting(value) PROVE SettingsInv'
  BY <1>1, SettingsUntouched DEF EditSetting
<1>2. ASSUME NEW value \in SettingValues, OthersSave(value) PROVE SettingsInv'
  BY <1>2 DEF OthersSave, SettingsInv, Saving
<1>3. CASE SaveSettings
  <2>1. saving'["tab"].at = "sent" /\ saving'["left"] = saving["left"] /\ ~Saving("tab")
    BY <1>3, <1>t DEF SaveSettings
  <2>2. ~crossed' => ~Saving("left")
    BY <1>3 DEF SaveSettings
  <2> QED
    BY <1>3, <1>t, <2>1, <2>2 DEF SaveSettings, SettingsInv, Saving
<1>4. ASSUME NEW s \in SaveSlots, PutSettings(s) PROVE SettingsInv'
  <2>1. /\ saving'[s].at = "written" /\ saving'[s].value = saving[s].value
        /\ \A u \in SaveSlots : u # s => saving'[u] = saving[u]
        /\ row' = saving[s].value
    BY <1>4, <1>t DEF PutSettings, Savings
  <2>2. \A u \in SaveSlots : Saving(u)' <=> Saving(u)
    BY <1>4, <2>1 DEF PutSettings, Saving
  <2>3. ~crossed => \A u \in SaveSlots : u # s => ~Saving(u)
    BY <1>4, <1>t DEF PutSettings, SettingsInv, Saving
  <2> QED
    BY <1>4, <1>t, <2>1, <2>2, <2>3 DEF PutSettings, SettingsInv, Saving, saveGhosts
<1>5. ASSUME NEW s \in SaveSlots, PutNameless(s) PROVE SettingsInv'
  <2>1. /\ saving'[s].at = "missed" /\ \A u \in SaveSlots : u # s => saving'[u] = saving[u]
    BY <1>5, <1>t DEF PutNameless, Savings
  <2>2. \A u \in SaveSlots : Saving(u)' <=> Saving(u)
    BY <1>5, <2>1 DEF PutNameless, Saving
  <2> QED
    BY <1>5, <1>t, <2>1, <2>2 DEF PutNameless, SettingsInv, saveGhosts
<1>6. ASSUME NEW s \in SaveSlots, SaveLost(s) PROVE SettingsInv'
  <2>1. /\ saving'[s].at = "failed" /\ \A u \in SaveSlots : u # s => saving'[u] = saving[u]
    BY <1>6, <1>t DEF SaveLost, Savings
  <2>2. \A u \in SaveSlots : Saving(u)' <=> Saving(u)
    BY <1>6, <2>1 DEF SaveLost, Saving
  <2> QED
    BY <1>6, <1>t, <2>1, <2>2 DEF SaveLost, SettingsInv, saveGhosts, rowVars
<1>7. ASSUME NEW s \in SaveSlots, SaveAnswered(s) PROVE SettingsInv'
  <2>1. cached'.data = saving[s].value /\ cached'.fetch = cached.fetch
    BY <1>7, <1>t DEF SaveAnswered, Put, Queries
  <2>2. saving'[s].at = "none" /\ \A u \in SaveSlots : u # s => saving'[u] = saving[u]
    BY <1>7, <1>t DEF SaveAnswered, NoSaving
  <2>3. \A u \in SaveSlots : Saving(u)' => Saving(u)
    BY <2>2 DEF Saving
  <2>4. ~foreign /\ ~crossed /\ ~missed' => row = saving[s].value
    BY <1>7 DEF SaveAnswered, SettingsInv
  <2>5. ~overlap' => cached'.fetch = "idle"
    BY <1>7, <2>1 DEF SaveAnswered
  <2> QED
    BY <1>7, <1>t, <2>1, <2>2, <2>3, <2>4, <2>5 DEF SaveAnswered, SettingsInv, rowVars
<1>8. ASSUME NEW s \in SaveSlots, SaveForgotten(s) PROVE SettingsInv'
  <2>1. saving'[s].at = "none" /\ \A u \in SaveSlots : u # s => saving'[u] = saving[u]
    BY <1>8, <1>t DEF SaveForgotten, NoSaving
  <2>2. \A u \in SaveSlots : Saving(u)' => Saving(u)
    BY <2>1 DEF Saving
  <2> QED
    BY <1>8, <1>t, <2>1, <2>2 DEF SaveForgotten, SettingsInv, rowVars
<1>9. CASE FetchSettings
  <2>1. cached'.data = cached.data /\ cached'.fetch = "asked"
    BY <1>9, <1>t DEF FetchSettings, Fetched, Restarted, Queries
  <2> QED
    BY <1>9, <2>1, SettingsUntouched DEF FetchSettings
<1>10. CASE ServeSettings
  <2>1. cached'.data = cached.data /\ cached'.answer = row
    BY <1>10, <1>t DEF ServeSettings, Served, Queries
  <2> QED
    BY <1>10, <2>1, SettingsUntouched DEF ServeSettings
<1>11. CASE ReceiveSettings
  <2>1. cached'.data = cached.answer /\ cached'.fetch = "idle"
    BY <1>11, <1>t DEF ReceiveSettings, Received, Queries
  <2> QED
    BY <1>11, <2>1, SettingsUntouched DEF ReceiveSettings
<1>12. CASE LoseSettings
  <2>1. cached'.data = cached.data /\ cached'.fetch = "idle"
    BY <1>12, <1>t DEF LoseSettings, Abandoned, Queries
  <2> QED
    BY <1>12, <2>1, SettingsUntouched DEF LoseSettings
<1>13. CASE LeaveSettings
  <2>1. CASE Saving("tab")
    <3>1. saving'["tab"].at = "none" /\ saving'["left"] = saving["tab"]
      BY <1>13, <1>t, <2>1 DEF LeaveSettings, NoSaving
    <3> QED
      BY <1>13, <1>t, <2>1, <3>1 DEF LeaveSettings, SettingsInv, Saving, rowVars, saveGhosts
  <2>2. CASE ~Saving("tab")
    BY <1>13, <2>2, SettingsUntouched DEF LeaveSettings
  <2> QED
    BY <2>1, <2>2
<1>14. CASE VisitSettings
  <2>1. \/ cached'.data = cached.data /\ cached'.fetch = "asked"
        \/ UNCHANGED cached
        \/ cached'.data = NoData /\ cached'.fetch = "asked"
    BY <1>14, <1>t DEF VisitSettings, Fetched, Restarted, Unfetched, Queries
  <2> QED
    BY <1>14, <2>1, SettingsUntouched DEF VisitSettings
<1>15. CASE UNCHANGED settingsVars
  BY <1>15, SettingsUntouched DEF settingsVars, rowVars, saveGhosts
<1> QED
  BY <1>1, <1>2, <1>3, <1>4, <1>5, <1>6, <1>7, <1>8, <1>9, <1>10, <1>11, <1>12, <1>13, <1>14,
     <1>15 DEF SettingsNext

(* A setting that was answered as saved is the stored one, and the one that *)
(* the page shows, although the page fetches nothing after a save and may   *)
(* be left during it: with the four exceptions that the property names.     *)
THEOREM SavedIsShown == SettingsSpec => []SavedSettingsShown
<1>1. SettingsInit => SettingsInv
  BY DEF SettingsInit, SettingsInv, NoSaving, Saving, SaveSlots
<1>2. SettingsInv => SavedSettingsShown
  BY DEF SettingsInv, SavedSettingsShown
<1> QED
  BY <1>1, <1>2, SettingsInvNext, SettingsTypeInit, SettingsTypeNext, PTL DEF SettingsSpec
-----------------------------------------------------------------------------
(* The forms.  Functions that are put together from pieces. *)
LEMMA AllFacts ==
  ASSUME NEW S, NEW v
  PROVE  DOMAIN All(S, v) = S /\ \A x \in S : All(S, v)[x] = v
BY DEF All

LEMMA OverFacts ==
  ASSUME NEW f, NEW g
  PROVE  /\ DOMAIN (f ++ g) = DOMAIN f \cup DOMAIN g
         /\ \A x \in DOMAIN f : (f ++ g)[x] = f[x]
         /\ \A x \in DOMAIN g : x \notin DOMAIN f => (f ++ g)[x] = g[x]
BY DEF ++

(* The rule of an input and what it may hold follow from its name alone.    *)
RuleOf(f) ==
  IF f \in {"IntervalSeconds", "TimeoutSeconds", "NotifyAfterFail"} THEN "minimum"
  ELSE IF f = "Port" THEN "number"
  ELSE IF f = "DNSRecordType" THEN "select"
  ELSE IF f \in {"MaxResponseTimeMs", "ExpectedStatus"} THEN "optional"
  ELSE IF f \in {"Method", "KeywordMode"} THEN "options"
  ELSE IF f \in {"AcceptedStatuses", "JSONPath", "JSONExpected", "DNSExpected"} THEN "text"
  ELSE IF f \in {"Headers", "Body", "WarnDaysExpiry"} THEN "hidden"
  ELSE "required"

Passwords == {"admin_password", "admin_password_confirm"}

Held(f) ==
  IF RuleOf(f) = "minimum" THEN {"low", "good"}
  ELSE IF RuleOf(f) = "hidden" THEN {"unset"}
  ELSE IF RuleOf(f) = "options" THEN {"unset", "preset", "good"}
  ELSE IF f = "JSONPath" THEN {"unset", "empty", "low", "good"}
  ELSE IF RuleOf(f) = "text" THEN {"unset", "empty", "good"}
  ELSE IF f = "ExpectedStatus" THEN {"preset", "low", "good"}
  ELSE IF RuleOf(f) # "required" THEN {"unset", "low", "good"}
  ELSE IF f \in Passwords THEN {"empty", "low", "good"}
  ELSE IF f = "db_port" THEN {"preset", "empty", "good"}
  ELSE IF f \in ConfigKeys \cup {"Keyword", "Host", "Domain", "DNSHost"} THEN {"unset", "empty", "good"}
  ELSE {"empty", "good"}

FieldsOf(k) ==
  IF k = "monitor" THEN
    {"Name", "URL", "Keyword", "Host", "Port", "Domain", "DNSHost", "DNSRecordType",
     "MaxResponseTimeMs", "IntervalSeconds", "TimeoutSeconds", "Method", "ExpectedStatus",
     "KeywordMode", "AcceptedStatuses", "JSONPath", "JSONExpected", "DNSExpected", "Headers",
     "Body", "WarnDaysExpiry"}
  ELSE IF k \in {"channel", "editChannel"} THEN {"Name", "NotifyAfterFail"} \cup ConfigKeys
  ELSE IF k \in {"statusPage", "editStatusPage"} THEN {"name", "slug"}
  ELSE IF k = "setup" THEN
    {"db_host", "db_port", "db_user", "db_name", "admin_username", "admin_email"} \cup Passwords
  ELSE {"username", "password"}

LEMMA HeldValues ==
  \A f : Held(f) \subseteq Values /\ (RuleOf(f) # "hidden" => "good" \in Held(f))
BY DEF Held, Values

LEMMA TypedHeld == \A f : RuleOf(f) # "hidden" => Typed(RuleOf(f), f) \subseteq Held(f)
BY DEF Typed, Held, RuleOf, Passwords

(* Inputs that follow the rules, all of them among the fields of a form. *)
Ruled(g, k) ==
  \A f \in DOMAIN g : f \in FieldsOf(k) /\ g[f] = RuleOf(f) /\ g[f] # "hidden"

LEMMA RuledAll ==
  ASSUME NEW S, NEW rule, NEW k, S \subseteq FieldsOf(k), \A f \in S : RuleOf(f) = rule,
         rule # "hidden"
  PROVE  Ruled(All(S, rule), k)
BY AllFacts DEF Ruled

LEMMA RuledOver ==
  ASSUME NEW f, NEW g, NEW k, Ruled(f, k), Ruled(g, k)
  PROVE  Ruled(f ++ g, k)
<1> SUFFICES ASSUME NEW x \in DOMAIN (f ++ g)
             PROVE  x \in FieldsOf(k) /\ (f ++ g)[x] = RuleOf(x) /\ (f ++ g)[x] # "hidden"
  BY DEF Ruled
<1>1. CASE x \in DOMAIN f
  <2>1. (f ++ g)[x] = f[x]
    BY <1>1 DEF ++
  <2> QED
    BY <1>1, <2>1 DEF Ruled
<1>2. CASE x \notin DOMAIN f
  <2>1. x \in DOMAIN g /\ (f ++ g)[x] = g[x]
    BY <1>2 DEF ++
  <2> QED
    BY <2>1 DEF Ruled
<1> QED
  BY <1>1, <1>2

LEMMA RuledNothing == \A k : Ruled(<<>>, k)
BY DEF Ruled

(* The inputs of a monitor's form. *)
LEMMA MonitorRules ==
  ASSUME NEW t \in MonitorTypes
  PROVE  /\ Ruled(MonitorInputs(t), "monitor")
         /\ {"Name", "IntervalSeconds", "TimeoutSeconds"} \subseteq DOMAIN MonitorInputs(t)
         /\ t \in NeedsURL => "URL" \in DOMAIN MonitorInputs(t)
         /\ t \in {"http", "response_time"} => "Method" \in DOMAIN MonitorInputs(t)
         /\ t = "http" => "AcceptedStatuses" \in DOMAIN MonitorInputs(t)
         /\ t = "keyword" => {"Keyword", "KeywordMode"} \subseteq DOMAIN MonitorInputs(t)
         /\ t = "json_api" => {"JSONPath", "JSONExpected"} \subseteq DOMAIN MonitorInputs(t)
         /\ t \in NeedsHost => "Host" \in DOMAIN MonitorInputs(t)
         /\ t \in NeedsHost /\ t # "ping" => "Port" \in DOMAIN MonitorInputs(t)
         /\ t \in NeedsDomain => "Domain" \in DOMAIN MonitorInputs(t)
         /\ t = "dns" => {"DNSHost", "DNSExpected"} \subseteq DOMAIN MonitorInputs(t)
<1> DEFINE R(g) == Ruled(g, "monitor")
<1>1. /\ R(All({"Name"}, "required")) /\ R(All({"URL"}, "required"))
      /\ R(All({"Keyword"}, "required")) /\ R(All({"Host"}, "required"))
      /\ R(All({"Domain"}, "required")) /\ R(All({"DNSHost"}, "required"))
      /\ R(All({"Port"}, "number")) /\ R(All({"DNSRecordType"}, "select"))
      /\ R(All({"MaxResponseTimeMs"}, "optional")) /\ R(All({"ExpectedStatus"}, "optional"))
      /\ R(All({"Method"}, "options")) /\ R(All({"KeywordMode"}, "options"))
      /\ R(All({"AcceptedStatuses"}, "text")) /\ R(All({"DNSExpected"}, "text"))
      /\ R(All({"JSONPath", "JSONExpected"}, "text"))
      /\ R(All({"IntervalSeconds", "TimeoutSeconds"}, "minimum"))
      /\ R(<<>>)
  BY RuledAll, RuledNothing DEF FieldsOf, RuleOf
<1>2. /\ R(All({"Host"}, "required") ++ All({"Port"}, "number"))
      /\ R(All({"Method"}, "options") ++ All({"AcceptedStatuses"}, "text"))
      /\ R(All({"Method"}, "options") ++ All({"ExpectedStatus"}, "optional"))
      /\ R(All({"Keyword"}, "required") ++ All({"KeywordMode"}, "options"))
  BY <1>1, RuledOver
<1>3. R((All({"DNSHost"}, "required") ++ All({"DNSRecordType"}, "select")) ++ All({"DNSExpected"}, "text"))
  <2>1. R(All({"DNSHost"}, "required") ++ All({"DNSRecordType"}, "select"))
    BY <1>1, RuledOver
  <2> QED
    BY <1>1, <2>1, RuledOver
<1>4. /\ R(URLInput(t)) /\ R(HTTPInputs(t)) /\ R(KeywordInputs(t)) /\ R(JSONInputs(t))
      /\ R(HostInputs(t)) /\ R(DomainInput(t)) /\ R(DNSInputs(t)) /\ R(ThresholdInput(t))
      /\ R(SchedulingInputs)
  <2> HIDE DEF R
  <2> QED
    BY <1>1, <1>2, <1>3
       DEF URLInput, HTTPInputs, KeywordInputs, JSONInputs, HostInputs, DomainInput, DNSInputs,
           ThresholdInput, SchedulingInputs
<1> HIDE DEF R
<1> DEFINE p1 == All({"Name"}, "required") ++ URLInput(t)
           p2 == p1 ++ HTTPInputs(t)
           p3 == p2 ++ KeywordInputs(t)
           p4 == p3 ++ JSONInputs(t)
           p5 == p4 ++ HostInputs(t)
           p6 == p5 ++ DomainInput(t)
           p7 == p6 ++ DNSInputs(t)
           p8 == p7 ++ ThresholdInput(t)
           p9 == p8 ++ SchedulingInputs
<1>5. R(p9)
  <2>0. \A f, g : R(f) /\ R(g) => R(f ++ g)
    BY RuledOver DEF R
  <2>1. R(p1)
    BY <2>0, <1>1, <1>4
  <2>2. R(p2)
    BY <2>0, <2>1, <1>4
  <2>3. R(p3)
    BY <2>0, <2>2, <1>4
  <2>4. R(p4)
    BY <2>0, <2>3, <1>4
  <2>5. R(p5)
    BY <2>0, <2>4, <1>4
  <2>6. R(p6)
    BY <2>0, <2>5, <1>4
  <2>7. R(p7)
    BY <2>0, <2>6, <1>4
  <2>8. R(p8)
    BY <2>0, <2>7, <1>4
  <2> QED
    BY <2>0, <2>8, <1>4
<1>6. DOMAIN p9 = {"Name"} \cup DOMAIN URLInput(t) \cup DOMAIN HTTPInputs(t)
                    \cup DOMAIN KeywordInputs(t) \cup DOMAIN JSONInputs(t) \cup DOMAIN HostInputs(t)
                    \cup DOMAIN DomainInput(t) \cup DOMAIN DNSInputs(t)
                    \cup DOMAIN ThresholdInput(t) \cup DOMAIN SchedulingInputs
  <2>1. DOMAIN All({"Name"}, "required") = {"Name"}
    BY AllFacts
  <2> HIDE DEF p1, p2, p3, p4, p5, p6, p7, p8, p9
  <2>2. DOMAIN p1 = DOMAIN All({"Name"}, "required") \cup DOMAIN URLInput(t)
    BY OverFacts DEF p1
  <2>3. DOMAIN p2 = DOMAIN p1 \cup DOMAIN HTTPInputs(t)
    BY OverFacts DEF p2
  <2>4. DOMAIN p3 = DOMAIN p2 \cup DOMAIN KeywordInputs(t)
    BY OverFacts DEF p3
  <2>5. DOMAIN p4 = DOMAIN p3 \cup DOMAIN JSONInputs(t)
    BY OverFacts DEF p4
  <2>6. DOMAIN p5 = DOMAIN p4 \cup DOMAIN HostInputs(t)
    BY OverFacts DEF p5
  <2>7. DOMAIN p6 = DOMAIN p5 \cup DOMAIN DomainInput(t)
    BY OverFacts DEF p6
  <2>8. DOMAIN p7 = DOMAIN p6 \cup DOMAIN DNSInputs(t)
    BY OverFacts DEF p7
  <2>9. DOMAIN p8 = DOMAIN p7 \cup DOMAIN ThresholdInput(t)
    BY OverFacts DEF p8
  <2>10. DOMAIN p9 = DOMAIN p8 \cup DOMAIN SchedulingInputs
    BY OverFacts DEF p9
  <2> QED
    BY <2>1, <2>2, <2>3, <2>4, <2>5, <2>6, <2>7, <2>8, <2>9, <2>10
<1>7. p9 = MonitorInputs(t)
  BY DEF MonitorInputs
<1> HIDE DEF p9
<1>8. /\ t \in NeedsURL => "URL" \in DOMAIN URLInput(t)
      /\ t = "json_api" => {"JSONPath", "JSONExpected"} \subseteq DOMAIN JSONInputs(t)
      /\ t \in NeedsDomain => "Domain" \in DOMAIN DomainInput(t)
      /\ {"IntervalSeconds", "TimeoutSeconds"} \subseteq DOMAIN SchedulingInputs
  BY AllFacts DEF URLInput, JSONInputs, DomainInput, SchedulingInputs
<1>9. /\ t \in NeedsHost => "Host" \in DOMAIN HostInputs(t)
      /\ t \in NeedsHost /\ t # "ping" => "Port" \in DOMAIN HostInputs(t)
  <2>1. "Host" \in DOMAIN All({"Host"}, "required") /\ "Port" \in DOMAIN All({"Port"}, "number")
    BY AllFacts
  <2>2. {"Host", "Port"} \subseteq DOMAIN (All({"Host"}, "required") ++ All({"Port"}, "number"))
    BY <2>1 DEF ++
  <2> QED
    BY <2>1, <2>2 DEF HostInputs
<1>10. t = "dns" => {"DNSHost", "DNSExpected"} \subseteq DOMAIN DNSInputs(t)
  <2>1. "DNSHost" \in DOMAIN All({"DNSHost"}, "required") /\ "DNSExpected" \in DOMAIN All({"DNSExpected"}, "text")
    BY AllFacts
  <2>2. "DNSHost" \in DOMAIN (All({"DNSHost"}, "required") ++ All({"DNSRecordType"}, "select"))
    BY <2>1, OverFacts
  <2>3. {"DNSHost", "DNSExpected"} \subseteq
          DOMAIN ((All({"DNSHost"}, "required") ++ All({"DNSRecordType"}, "select"))
                    ++ All({"DNSExpected"}, "text"))
    BY <2>1, <2>2 DEF ++
  <2> QED
    BY <2>3 DEF DNSInputs
<1>11. /\ t \in {"http", "response_time"} => "Method" \in DOMAIN HTTPInputs(t)
       /\ t = "http" => "AcceptedStatuses" \in DOMAIN HTTPInputs(t)
  <2>1. "Method" \in DOMAIN All({"Method"}, "options") /\ "AcceptedStatuses" \in DOMAIN All({"AcceptedStatuses"}, "text")
    BY AllFacts
  <2>2. /\ {"Method", "AcceptedStatuses"} \subseteq
              DOMAIN (All({"Method"}, "options") ++ All({"AcceptedStatuses"}, "text"))
        /\ "Method" \in DOMAIN (All({"Method"}, "options") ++ All({"ExpectedStatus"}, "optional"))
    BY <2>1 DEF ++
  <2> QED
    BY <2>2 DEF HTTPInputs
<1>12. t = "keyword" => {"Keyword", "KeywordMode"} \subseteq DOMAIN KeywordInputs(t)
  <2>1. "Keyword" \in DOMAIN All({"Keyword"}, "required") /\ "KeywordMode" \in DOMAIN All({"KeywordMode"}, "options")
    BY AllFacts
  <2>2. {"Keyword", "KeywordMode"} \subseteq
          DOMAIN (All({"Keyword"}, "required") ++ All({"KeywordMode"}, "options"))
    BY <2>1 DEF ++
  <2> QED
    BY <2>2 DEF KeywordInputs
<1> QED
  BY <1>5, <1>6, <1>7, <1>8, <1>9, <1>10, <1>11, <1>12 DEF R, NeedsURL

(* The inputs of the other forms. *)
LEMMA OtherRules ==
  /\ Ruled(StatusPageInputs, "statusPage") /\ DOMAIN StatusPageInputs = FieldsOf("statusPage")
  /\ Ruled(UserInputs, "user") /\ DOMAIN UserInputs = FieldsOf("user")
  /\ Ruled(LoginInputs, "login") /\ DOMAIN LoginInputs = FieldsOf("login")
  /\ Ruled(AdminInputs, "setup")
  /\ DOMAIN AdminInputs = {"admin_username", "admin_email"} \cup Passwords
  /\ \A t \in DatabaseTypes :
       /\ Ruled(DatabaseInputs(t), "setup")
       /\ DOMAIN DatabaseInputs(t) =
            IF t = "sqlite" THEN {} ELSE {"db_host", "db_port", "db_user", "db_name"}
  /\ \A t \in ChannelTypes :
       /\ Ruled(ChannelInputs(t), "channel")
       /\ DOMAIN ChannelInputs(t) = {"Name", "NotifyAfterFail"} \cup (KeysOf[t] \ {"recipients"})
<1>1. Ruled(StatusPageInputs, "statusPage") /\ DOMAIN StatusPageInputs = FieldsOf("statusPage")
  BY RuledAll, AllFacts DEF StatusPageInputs, FieldsOf, RuleOf
<1>2. /\ Ruled(UserInputs, "user") /\ DOMAIN UserInputs = FieldsOf("user")
      /\ Ruled(LoginInputs, "login") /\ DOMAIN LoginInputs = FieldsOf("login")
  BY RuledAll, AllFacts DEF UserInputs, LoginInputs, FieldsOf, RuleOf
<1>3. /\ Ruled(AdminInputs, "setup")
      /\ DOMAIN AdminInputs = {"admin_username", "admin_email"} \cup Passwords
  BY RuledAll, AllFacts DEF AdminInputs, FieldsOf, RuleOf, Passwords
<1>4. ASSUME NEW t \in DatabaseTypes
      PROVE  /\ Ruled(DatabaseInputs(t), "setup")
             /\ DOMAIN DatabaseInputs(t) =
                  IF t = "sqlite" THEN {} ELSE {"db_host", "db_port", "db_user", "db_name"}
  <2>1. Ruled(All({"db_host", "db_port", "db_user", "db_name"}, "required"), "setup")
    BY RuledAll DEF FieldsOf, RuleOf
  <2> QED
    BY <2>1, RuledNothing, AllFacts DEF DatabaseInputs
<1>5. ASSUME NEW t \in ChannelTypes
      PROVE  /\ Ruled(ChannelInputs(t), "channel")
             /\ DOMAIN ChannelInputs(t) = {"Name", "NotifyAfterFail"} \cup (KeysOf[t] \ {"recipients"})
  <2> DEFINE named == {"Name"} \cup (KeysOf[t] \ {"recipients"})
  <2>1. named \subseteq FieldsOf("channel") /\ \A f \in named : RuleOf(f) = "required"
    BY DEF KeysOf, ChannelTypes, FieldsOf, ConfigKeys, RuleOf
  <2> HIDE DEF named
  <2>2. Ruled(All(named, "required"), "channel")
    BY <2>1, RuledAll
  <2>3. Ruled(All({"NotifyAfterFail"}, "minimum"), "channel")
    BY RuledAll DEF FieldsOf, RuleOf
  <2>4. ChannelInputs(t) = All(named, "required") ++ All({"NotifyAfterFail"}, "minimum")
    BY DEF ChannelInputs, named
  <2>5. DOMAIN ChannelInputs(t) = named \cup {"NotifyAfterFail"}
    <3>1. DOMAIN All(named, "required") = named /\ DOMAIN All({"NotifyAfterFail"}, "minimum") = {"NotifyAfterFail"}
      BY AllFacts
    <3> QED
      BY <2>4, <3>1, OverFacts
  <2>6. Ruled(ChannelInputs(t), "channel")
    BY <2>2, <2>3, <2>4, RuledOver
  <2> QED
    BY <2>5, <2>6 DEF named
<1> QED
  BY <1>1, <1>2, <1>3, <1>4, <1>5

LEMMA ChoiceTypes ==
  /\ TypeOptions["monitor"] = MonitorTypes
  /\ TypeOptions["channel"] = ChannelTypes /\ TypeOptions["editChannel"] = ChannelTypes
  /\ TypeOptions["setup"] = DatabaseTypes
  /\ \A k \in {"statusPage", "editStatusPage", "user", "login"} : TypeOptions[k] = {"none"}
<1>1. TypeOptions["monitor"] = MonitorTypes
  BY DEF TypeOptions, FormKinds
<1>2. TypeOptions["channel"] = ChannelTypes
  BY DEF TypeOptions, FormKinds
<1>3. TypeOptions["editChannel"] = ChannelTypes
  BY DEF TypeOptions, FormKinds
<1>4. TypeOptions["setup"] = DatabaseTypes
  BY DEF TypeOptions, FormKinds
<1>5. ASSUME NEW k \in {"statusPage", "editStatusPage", "user", "login"} PROVE TypeOptions[k] = {"none"}
  BY DEF TypeOptions, FormKinds
<1> QED
  BY <1>1, <1>2, <1>3, <1>4, <1>5

(* The inputs that are shown are fields of the form and follow the rules.   *)
LEMMA InputRules ==
  ASSUME kind \in FormKinds, choice \in TypeOptions[kind]
  PROVE  Ruled(Inputs, kind)
<1>1. CASE kind = "monitor"
  <2>1. choice \in MonitorTypes
    BY <1>1, ChoiceTypes
  <2>2. Inputs = MonitorInputs(choice)
    BY <1>1 DEF Inputs
  <2> QED
    BY <1>1, <2>1, <2>2, MonitorRules
<1>2. CASE kind \in {"channel", "editChannel"}
  <2>1. choice \in ChannelTypes
    BY <1>2, ChoiceTypes
  <2>2. Inputs = ChannelInputs(choice) /\ FieldsOf(kind) = FieldsOf("channel")
    BY <1>2 DEF Inputs, FieldsOf
  <2> QED
    BY <2>1, <2>2, OtherRules DEF Ruled
<1>3. CASE kind \in {"statusPage", "editStatusPage"}
  BY <1>3, OtherRules DEF Inputs, Ruled, FieldsOf
<1>4. CASE kind \in {"user", "login"}
  BY <1>4, OtherRules DEF Inputs, Ruled, FieldsOf
<1>5. CASE kind = "setup"
  <2>1. choice \in DatabaseTypes
    BY <1>5, ChoiceTypes
  <2> QED
    BY <1>5, <2>1, OtherRules DEF Inputs
<1> QED
  BY <1>1, <1>2, <1>3, <1>4, <1>5 DEF FormKinds
-----------------------------------------------------------------------------
(* What the edits of a form keep: its fields and what each of them may      *)
(* hold; the keys of other types than a channel's are gone; on the second   *)
(* step of the wizard the inputs of the first one stay filled in; what is   *)
(* sent has passed the validation.                                          *)
FormHolds(g, k, c, s) ==
  /\ g \in [FieldsOf(k) -> Values]
  /\ \A f \in FieldsOf(k) : g[f] \in Held(f)
  /\ k \in {"channel", "editChannel"} => \A f \in ConfigKeys \ KeysOf[c] : g[f] = "unset"
  /\ k = "setup" /\ s = 2 => \A f \in DOMAIN DatabaseInputs(c) : g[f] \notin {"unset", "empty"}

FormInv ==
  /\ kind \in FormKinds /\ choice \in TypeOptions[kind]
  /\ step \in 1..2 /\ edits \in 0..MaxEdits /\ sent \in BOOLEAN
  /\ FormHolds(form, kind, choice, step)
  /\ sent => Valid /\ (kind = "setup" => step = 2 /\ PasswordsPass)

(* Functions that a form starts with. *)
Fits(g, k) == g \in [FieldsOf(k) -> Values] /\ \A f \in FieldsOf(k) : g[f] \in Held(f)

HeldIn(g) == \A f \in DOMAIN g : g[f] \in Held(f)

LEMMA HeldAll == ASSUME NEW S, NEW v, \A f \in S : v \in Held(f) PROVE HeldIn(All(S, v))
BY AllFacts DEF HeldIn

LEMMA HeldOver == ASSUME NEW f, NEW g, HeldIn(f), HeldIn(g) PROVE HeldIn(f ++ g)
<1> SUFFICES ASSUME NEW x \in DOMAIN (f ++ g) PROVE (f ++ g)[x] \in Held(x)
  BY DEF HeldIn
<1> QED
  BY DEF ++, HeldIn

LEMMA HeldFits ==
  ASSUME NEW f, NEW g, NEW k, HeldIn(f ++ g), DOMAIN f \cup DOMAIN g = FieldsOf(k)
  PROVE  Fits(f ++ g, k)
<1>1. /\ DOMAIN (f ++ g) = FieldsOf(k)
      /\ (f ++ g) = [x \in DOMAIN (f ++ g) |-> (f ++ g)[x]]
  BY DEF ++
<1>2. \A x \in FieldsOf(k) : (f ++ g)[x] \in Held(x)
  BY <1>1 DEF HeldIn
<1> DEFINE h == f ++ g
<1>3. \A x \in FieldsOf(k) : h[x] \in Values
  BY <1>2, HeldValues
<1> HIDE DEF h
<1>4. h \in [FieldsOf(k) -> Values]
  <2>1. DOMAIN h = FieldsOf(k) /\ h = [x \in FieldsOf(k) |-> h[x]]
    BY <1>1 DEF h
  <2> QED
    BY <1>3, <2>1
<1> QED
  BY <1>2, <1>4 DEF Fits, h

LEMMA FitsAll ==
  ASSUME NEW k, NEW v, \A f \in FieldsOf(k) : v \in Held(f)
  PROVE  Fits(All(FieldsOf(k), v), k)
BY HeldValues DEF All, Fits

LEMMA StartsFit ==
  ASSUME NEW k \in FormKinds, NEW t \in TypeOptions[k], NEW g \in Starts(k, t)
  PROVE  /\ Fits(g, k)
         /\ k \in {"channel", "editChannel"} => \A f \in ConfigKeys \ KeysOf[t] : g[f] = "unset"
<1>1. CASE k = "monitor"
  <2> DEFINE a == All({"Name", "URL"}, "empty")
             b == All({"Keyword", "Host", "Port", "Domain", "DNSHost", "DNSRecordType",
                       "MaxResponseTimeMs", "KeywordMode", "AcceptedStatuses", "JSONPath",
                       "JSONExpected", "DNSExpected", "Headers", "Body", "WarnDaysExpiry"}, "unset")
             d == All({"Method", "ExpectedStatus"}, "preset")
             c == All({"IntervalSeconds", "TimeoutSeconds"}, "good")
  <2>1. HeldIn(a) /\ HeldIn(b) /\ HeldIn(c) /\ HeldIn(d)
    BY HeldAll DEF Held, RuleOf, Passwords
  <2>2. /\ DOMAIN a = {"Name", "URL"} /\ DOMAIN c = {"IntervalSeconds", "TimeoutSeconds"}
        /\ DOMAIN b = {"Keyword", "Host", "Port", "Domain", "DNSHost", "DNSRecordType",
                       "MaxResponseTimeMs", "KeywordMode", "AcceptedStatuses", "JSONPath",
                       "JSONExpected", "DNSExpected", "Headers", "Body", "WarnDaysExpiry"}
        /\ DOMAIN d = {"Method", "ExpectedStatus"}
    BY AllFacts
  <2>3. g = ((a ++ b) ++ d) ++ c
    BY <1>1 DEF Starts, MonitorDefaults
  <2> HIDE DEF a, b, c, d
  <2>4. HeldIn(((a ++ b) ++ d) ++ c)
    <3>1. HeldIn((a ++ b) ++ d)
      BY <2>1, HeldOver
    <3> QED
      BY <2>1, <3>1, HeldOver
  <2>5. DOMAIN ((a ++ b) ++ d) \cup DOMAIN c = FieldsOf("monitor")
    <3>1. DOMAIN (a ++ b) = DOMAIN a \cup DOMAIN b
      BY OverFacts
    <3>2. DOMAIN ((a ++ b) ++ d) = DOMAIN (a ++ b) \cup DOMAIN d
      BY OverFacts
    <3> QED
      BY <2>2, <3>1, <3>2 DEF FieldsOf
  <2> QED
    BY <1>1, <2>3, <2>4, <2>5, HeldFits
<1>2. CASE k = "channel"
  <2> DEFINE a == All({"Name"}, "empty")
             b == All(ConfigKeys, "unset")
             c == All({"NotifyAfterFail"}, "good")
  <2>1. HeldIn(a) /\ HeldIn(b) /\ HeldIn(c)
    BY HeldAll DEF Held, RuleOf, Passwords, ConfigKeys
  <2>2. DOMAIN a = {"Name"} /\ DOMAIN b = ConfigKeys /\ DOMAIN c = {"NotifyAfterFail"}
    BY AllFacts
  <2>3. \A f \in ConfigKeys : b[f] = "unset" /\ f \notin DOMAIN a
    BY <2>2, AllFacts DEF ConfigKeys
  <2>4. g = (a ++ b) ++ c
    BY <1>2 DEF Starts, ChannelDefaults
  <2> HIDE DEF a, b, c
  <2>5. HeldIn((a ++ b) ++ c)
    BY <2>1, HeldOver
  <2>6. DOMAIN (a ++ b) \cup DOMAIN c = FieldsOf("channel")
    <3>1. DOMAIN (a ++ b) = DOMAIN a \cup DOMAIN b
      BY OverFacts
    <3> QED
      BY <2>2, <3>1 DEF FieldsOf
  <2>7. \A f \in ConfigKeys : g[f] = "unset"
    <3> SUFFICES ASSUME NEW f \in ConfigKeys PROVE g[f] = "unset"
      OBVIOUS
    <3>1. f \in DOMAIN (a ++ b) /\ (a ++ b)[f] = b[f]
      BY <2>2, <2>3 DEF ++
    <3> QED
      BY <2>3, <2>4, <3>1 DEF ++
  <2> QED
    BY <1>2, <2>4, <2>5, <2>6, <2>7, HeldFits
<1>3. CASE k = "editChannel"
  <2>1. PICK there \in SUBSET KeysOf[t] :
          g = (All({"Name", "NotifyAfterFail"}, "good") ++ All(there, "good")) ++ All(ConfigKeys, "unset")
    BY <1>3 DEF Starts
  <2>2. t \in ChannelTypes
    BY <1>3, ChoiceTypes
  <2>3. KeysOf[t] \subseteq ConfigKeys
    BY <2>2 DEF KeysOf, ConfigKeys, ChannelTypes
  <2> DEFINE a == All({"Name", "NotifyAfterFail"}, "good")
             b == All(there, "good")
             c == All(ConfigKeys, "unset")
  <2>4. HeldIn(a) /\ HeldIn(b) /\ HeldIn(c)
    BY <2>3, HeldAll, HeldValues DEF Held, RuleOf, Passwords, ConfigKeys
  <2>5. DOMAIN a = {"Name", "NotifyAfterFail"} /\ DOMAIN b = there /\ DOMAIN c = ConfigKeys
    BY AllFacts
  <2>6. \A f \in ConfigKeys : c[f] = "unset" /\ f \notin DOMAIN a
    BY <2>5, AllFacts DEF ConfigKeys
  <2>7. g = (a ++ b) ++ c
    BY <2>1
  <2> HIDE DEF a, b, c
  <2>8. HeldIn((a ++ b) ++ c)
    BY <2>4, HeldOver
  <2>9. DOMAIN (a ++ b) = DOMAIN a \cup DOMAIN b
    BY OverFacts
  <2>10. DOMAIN (a ++ b) \cup DOMAIN c = FieldsOf("editChannel")
    BY <2>3, <2>5, <2>9 DEF FieldsOf
  <2>11. ASSUME NEW f \in ConfigKeys \ KeysOf[t] PROVE g[f] = "unset"
    <3>1. f \notin DOMAIN (a ++ b)
      BY <2>5, <2>6, <2>9
    <3> QED
      BY <2>5, <2>6, <2>7, <3>1 DEF ++
  <2> QED
    BY <1>3, <2>7, <2>8, <2>10, <2>11, HeldFits
<1>4. CASE k \in {"statusPage", "editStatusPage", "user", "login"}
  <2>1. PICK v \in {"empty", "good"} : g = All(FieldsOf(k), v)
    BY <1>4 DEF Starts, FieldsOf, StatusPageDefaults, UserDefaults, LoginDefaults
  <2>2. \A f \in FieldsOf(k) : v \in Held(f)
    BY <1>4 DEF FieldsOf, Held, RuleOf, Passwords, ConfigKeys
  <2> QED
    BY <1>4, <2>1, <2>2, FitsAll
<1>5. CASE k = "setup"
  <2> DEFINE a == All({"db_host", "db_user", "db_name", "admin_username", "admin_email"}, "good")
             b == All({"db_port"}, "preset")
             c == All({"admin_password", "admin_password_confirm"}, "empty")
  <2>1. HeldIn(a) /\ HeldIn(b) /\ HeldIn(c)
    BY HeldAll DEF Held, RuleOf, Passwords, ConfigKeys
  <2>2. /\ DOMAIN a = {"db_host", "db_user", "db_name", "admin_username", "admin_email"}
        /\ DOMAIN b = {"db_port"} /\ DOMAIN c = {"admin_password", "admin_password_confirm"}
    BY AllFacts
  <2>3. g = (a ++ b) ++ c
    BY <1>5 DEF Starts, SetupDefaults
  <2> HIDE DEF a, b, c
  <2>4. HeldIn((a ++ b) ++ c)
    BY <2>1, HeldOver
  <2>5. DOMAIN (a ++ b) \cup DOMAIN c = FieldsOf("setup")
    <3>1. DOMAIN (a ++ b) = DOMAIN a \cup DOMAIN b
      BY OverFacts
    <3> QED
      BY <2>2, <3>1 DEF FieldsOf, Passwords
  <2> QED
    BY <1>5, <2>3, <2>4, <2>5, HeldFits
<1> QED
  BY <1>1, <1>2, <1>3, <1>4, <1>5 DEF FormKinds

LEMMA FormInvInit == FormInit => FormInv
<1> SUFFICES ASSUME FormInit PROVE FormInv
  OBVIOUS
<1>1. kind \in FormKinds /\ step = 1 /\ edits = 0 /\ sent = FALSE
  BY DEF FormInit
<1>2. choice \in TypeOptions[kind]
  <2>1. choice \in StartChoice[kind]
    BY DEF FormInit
  <2>2. CASE kind = "monitor"
    BY <2>1, <2>2, ChoiceTypes DEF StartChoice, FormKinds, MonitorTypes
  <2>3. CASE kind = "channel"
    BY <2>1, <2>3, ChoiceTypes DEF StartChoice, FormKinds, ChannelTypes
  <2>4. CASE kind = "setup"
    BY <2>1, <2>4, ChoiceTypes DEF StartChoice, FormKinds, DatabaseTypes
  <2>5. CASE kind \notin {"monitor", "channel", "setup"}
    BY <1>1, <2>1, <2>5 DEF StartChoice
  <2> QED
    BY <2>2, <2>3, <2>4, <2>5
<1>3. form \in Starts(kind, choice)
  BY DEF FormInit
<1>4. /\ Fits(form, kind)
      /\ kind \in {"channel", "editChannel"} => \A f \in ConfigKeys \ KeysOf[choice] : form[f] = "unset"
  BY <1>1, <1>2, <1>3, StartsFit
<1>5. FormHolds(form, kind, choice, step)
  BY <1>1, <1>4 DEF FormHolds, Fits
<1>6. step \in 1..2 /\ edits \in 0..MaxEdits
  BY <1>1, FormsAssumption
<1> QED
  BY <1>1, <1>2, <1>5, <1>6, Zenon DEF FormInv

(* An input that is shown belongs to the form; of a channel's keys only     *)
(* those of its type are shown, and on the second step of the wizard none   *)
(* of the first one's.                                                      *)
LEMMA ShownInputs ==
  ASSUME FormInv, NEW f \in DOMAIN Inputs
  PROVE  /\ f \in FieldsOf(kind) /\ Inputs[f] = RuleOf(f) /\ RuleOf(f) # "hidden"
         /\ kind \in {"channel", "editChannel"} => f \notin ConfigKeys \ KeysOf[choice]
         /\ kind = "setup" /\ step = 2 => f \notin DOMAIN DatabaseInputs(choice)
<1>1. f \in FieldsOf(kind) /\ Inputs[f] = RuleOf(f) /\ RuleOf(f) # "hidden"
  BY InputRules DEF FormInv, FormHolds, Ruled
<1>2. ASSUME kind \in {"channel", "editChannel"} PROVE f \notin ConfigKeys \ KeysOf[choice]
  <2>1. choice \in ChannelTypes /\ Inputs = ChannelInputs(choice)
    BY <1>2, ChoiceTypes DEF FormInv, FormHolds, Inputs
  <2> QED
    BY <2>1, OtherRules DEF ConfigKeys
<1>3. ASSUME kind = "setup", step = 2 PROVE f \notin DOMAIN DatabaseInputs(choice)
  <2>1. choice \in DatabaseTypes /\ Inputs = AdminInputs
    BY <1>3, ChoiceTypes DEF FormInv, FormHolds, Inputs
  <2> QED
    BY <2>1, OtherRules DEF Passwords
<1> QED
  BY <1>1, <1>2, <1>3

LEMMA EditsKeep ==
  ASSUME FormInv, Edits, choice' \in TypeOptions[kind], FormHolds(form', kind, choice', step)
  PROVE  FormInv'
<1>1. UNCHANGED <<kind, step, sent>> /\ sent = FALSE /\ edits' \in 0..MaxEdits
  BY FormsAssumption DEF FormInv, Edits
<1> QED
  BY <1>1 DEF FormInv

LEMMA FormInvNext == FormInv /\ [FormNext]_formVars => FormInv'
<1> SUFFICES ASSUME FormInv, [FormNext]_formVars PROVE FormInv'
  OBVIOUS
<1>1. CASE EditInput
  <2>1. PICK f \in DOMAIN Inputs, v \in Values :
          v \in Typed(Inputs[f], f) /\ form' = [form EXCEPT ![f] = v]
    BY <1>1 DEF EditInput, Typed, Values
  <2>2. /\ f \in FieldsOf(kind) /\ v \in Held(f)
        /\ kind \in {"channel", "editChannel"} => f \notin ConfigKeys \ KeysOf[choice]
        /\ kind = "setup" /\ step = 2 => f \notin DOMAIN DatabaseInputs(choice)
    BY <2>1, ShownInputs, TypedHeld
  <2>3. UNCHANGED choice /\ Edits
    BY <1>1 DEF EditInput
  <2>4. form' \in [FieldsOf(kind) -> Values]
    BY <2>1, <2>2 DEF FormInv, FormHolds
  <2>5. form'[f] = v /\ \A x \in FieldsOf(kind) : x # f => form'[x] = form[x]
    BY <2>1, <2>2 DEF FormInv, FormHolds
  <2>6. \A x \in FieldsOf(kind) : form'[x] \in Held(x)
    BY <2>2, <2>5 DEF FormInv, FormHolds
  <2>7. kind \in {"channel", "editChannel"} =>
          ConfigKeys \subseteq FieldsOf(kind) /\ \A x \in ConfigKeys \ KeysOf[choice] : form'[x] = "unset"
    BY <2>2, <2>5 DEF FormInv, FormHolds, FieldsOf
  <2>8. kind = "setup" /\ step = 2 =>
          \A x \in DOMAIN DatabaseInputs(choice) : form'[x] \notin {"unset", "empty"}
    <3> SUFFICES ASSUME kind = "setup", step = 2, NEW x \in DOMAIN DatabaseInputs(choice)
                 PROVE  form'[x] \notin {"unset", "empty"}
      OBVIOUS
    <3>1. x \in FieldsOf(kind)
      BY ChoiceTypes, OtherRules DEF FormInv, FormHolds, Ruled
    <3> QED
      BY <2>2, <2>5, <3>1 DEF FormInv, FormHolds
  <2>9. FormHolds(form', kind, choice, step)
    BY <2>4, <2>6, <2>7, <2>8 DEF FormHolds
  <2> QED
    BY <2>3, <2>9, EditsKeep DEF FormInv
<1>2. CASE EditName
  <2>1. UNCHANGED choice /\ Edits /\ kind \in {"statusPage", "editStatusPage"}
    BY <1>2 DEF EditName
  <2>2. FieldsOf(kind) = {"name", "slug"}
    BY <2>1 DEF FieldsOf
  <2>3. Held("name") = {"empty", "good"} /\ Held("slug") = {"empty", "good"}
    BY DEF Held, RuleOf, Passwords, ConfigKeys
  <2>4. form' \in [FieldsOf(kind) -> {"empty", "good"}]
    <3>1. PICK name \in {"empty", "good"}, slug \in {"empty", "good"} :
            form' = IF kind = "statusPage" THEN [name |-> name, slug |-> slug]
                    ELSE [form EXCEPT !.name = name]
      BY <1>2 DEF EditName
    <3>2. form \in [FieldsOf(kind) -> {"empty", "good"}]
      BY <2>2, <2>3 DEF FormInv, FormHolds
    <3> QED
      BY <2>2, <3>1, <3>2
  <2>5. form' \in [FieldsOf(kind) -> Values] /\ \A f \in FieldsOf(kind) : form'[f] \in Held(f)
    BY <2>2, <2>3, <2>4 DEF Values
  <2>6. FormHolds(form', kind, choice, step)
    BY <2>1, <2>5 DEF FormHolds
  <2> QED
    BY <2>1, <2>6, EditsKeep DEF FormInv
<1>3. CASE SetType
  <2>1. Edits /\ choice' \in TypeOptions[kind] /\ (kind = "setup" => step = 1)
    BY <1>3 DEF SetType
  <2>2. CASE kind \in {"channel", "editChannel"}
    <3> DEFINE fresh == All(ConfigKeys, "unset")
    <3>1. form' = fresh ++ form
      BY <1>3, <2>2 DEF SetType
    <3>2. DOMAIN fresh = ConfigKeys /\ \A f \in ConfigKeys : fresh[f] = "unset"
      BY AllFacts
    <3> HIDE DEF fresh
    <3>3. DOMAIN form = FieldsOf(kind) /\ ConfigKeys \subseteq FieldsOf(kind)
      BY <2>2 DEF FormInv, FormHolds, FieldsOf
    <3>4. /\ DOMAIN form' = FieldsOf(kind)
          /\ \A f \in FieldsOf(kind) : form'[f] = IF f \in ConfigKeys THEN "unset" ELSE form[f]
          /\ form' = [f \in FieldsOf(kind) |-> form'[f]]
      BY <3>1, <3>2, <3>3 DEF ++
    <3>5. \A f \in ConfigKeys : "unset" \in Held(f)
      BY DEF ConfigKeys, Held, RuleOf, Passwords
    <3>6. \A f \in FieldsOf(kind) : form'[f] \in Held(f)
      BY <3>4, <3>5 DEF FormInv, FormHolds
    <3>7. form' \in [FieldsOf(kind) -> Values]
      BY <3>4, <3>6, HeldValues
    <3>8. FormHolds(form', kind, choice', step)
      BY <2>2, <3>3, <3>4, <3>6, <3>7 DEF FormHolds
    <3> QED
      BY <2>1, <3>8, EditsKeep
  <2>3. CASE kind \notin {"channel", "editChannel"}
    <3>1. form' = form
      BY <1>3, <2>3 DEF SetType
    <3>2. FormHolds(form', kind, choice', step)
      <4>1. kind = "setup" => step = 1
        BY <2>1
      <4>2. form \in [FieldsOf(kind) -> Values] /\ \A f \in FieldsOf(kind) : form[f] \in Held(f)
        BY DEF FormInv, FormHolds
      <4> QED
        BY <2>3, <3>1, <4>1, <4>2 DEF FormHolds
    <3> QED
      BY <2>1, <3>2, EditsKeep
  <2> QED
    BY <2>2, <2>3
<1>4. CASE WizardStep
  <2>1. kind = "setup" /\ ~sent /\ UNCHANGED <<kind, choice, form, edits, sent>>
    BY <1>4 DEF WizardStep
  <2>2. step' \in 1..2
    BY <1>4 DEF WizardStep
  <2>3. ASSUME step' = 2, NEW f \in DOMAIN DatabaseInputs(choice)
        PROVE  form[f] \notin {"unset", "empty"}
    <3>1. step = 1 /\ Valid
      BY <1>4, <2>3 DEF WizardStep, FormInv, FormHolds
    <3>2. Inputs = DatabaseInputs(choice)
      BY <2>1, <3>1 DEF Inputs
    <3>3. Inputs[f] = "required"
      BY <2>1, <2>3, <3>2, ChoiceTypes, OtherRules, ShownInputs DEF FormInv, FormHolds, RuleOf
    <3> QED
      BY <2>3, <3>1, <3>2, <3>3 DEF Valid
  <2> QED
    BY <2>1, <2>2, <2>3 DEF FormInv, FormHolds, FieldsOf, Held, RuleOf, DatabaseInputs
<1>5. CASE SendForm
  <2>1. /\ Valid /\ (kind = "setup" => step = 2 /\ PasswordsPass) /\ sent' = TRUE
        /\ UNCHANGED <<kind, choice, form, step, edits>>
    BY <1>5 DEF SendForm
  <2>2. Valid' /\ (PasswordsPass => PasswordsPass')
    BY <2>1 DEF Valid, Inputs, PasswordsPass
  <2> QED
    BY <2>1, <2>2 DEF FormInv, FormHolds, FieldsOf, Held, RuleOf, DatabaseInputs
<1>6. CASE UNCHANGED formVars
  <2>1. UNCHANGED <<kind, choice, form, step, edits, sent>>
    BY <1>6 DEF formVars
  <2>2. (Valid => Valid') /\ (PasswordsPass => PasswordsPass')
    BY <2>1 DEF Valid, Inputs, PasswordsPass
  <2> QED
    BY <2>1, <2>2 DEF FormInv, FormHolds
<1> QED
  BY <1>1, <1>2, <1>3, <1>4, <1>5, <1>6 DEF FormNext

LEMMA FormTypes == FormInv => FormTypeOK
BY DEF FormInv, FormHolds, FormTypeOK

(* An input that must be filled in is, and holds something of use unless a  *)
(* low number or the preset port is possible.                               *)
LEMMA FilledIn ==
  ASSUME FormInv, sent, NEW f \in DOMAIN Inputs
  PROVE  /\ form[f] \in Held(f)
         /\ RuleOf(f) \in {"required", "number"} => form[f] \notin {"unset", "empty"}
         /\ RuleOf(f) = "minimum" => form[f] = "good"
<1>1. f \in FieldsOf(kind) /\ Inputs[f] = RuleOf(f)
  BY ShownInputs
<1>2. Valid
  BY DEF FormInv, FormHolds
<1>3. form[f] \in Held(f)
  BY <1>1 DEF FormInv, FormHolds
<1> QED
  BY <1>1, <1>2, <1>3 DEF Valid, Held

LEMMA SentMonitorWorks ==
  ASSUME FormInv, sent, kind = "monitor", NEW f \in CheckReads(choice)
  PROVE  Usable(f) \/ KnownGap(f)
<1>1. choice \in MonitorTypes /\ Inputs = MonitorInputs(choice)
  BY ChoiceTypes DEF FormInv, FormHolds, Inputs
<1>2. CASE f \in {"DNSRecordType", "MaxResponseTimeMs"}
  <2>1. form[f] \in Held(f)
    BY <1>2 DEF FormInv, FormHolds, FieldsOf
  <2> QED
    BY <1>2, <2>1 DEF Held, RuleOf, KnownGap, Usable
<1>3. CASE f \notin {"DNSRecordType", "MaxResponseTimeMs"}
  <2>1. f \in DOMAIN Inputs
    BY <1>1, <1>3, MonitorRules DEF CheckReads, MonitorTypes, NeedsURL, NeedsHost, NeedsDomain
  <2>2. f \in FieldsOf("monitor")
    BY <2>1, ShownInputs
  <2>3. f \in {"IntervalSeconds", "TimeoutSeconds", "URL", "Keyword", "Host", "Port", "DNSHost", "Domain"}
    BY <1>1, <1>3 DEF CheckReads, MonitorTypes
  <2>4. /\ f = "Port" \/ RuleOf(f) \in {"required", "minimum"}
        /\ RuleOf(f) \in {"required", "number"} => form[f] \notin {"unset", "empty"}
        /\ RuleOf(f) = "minimum" => form[f] = "good"
    BY <2>1, <2>3, FilledIn DEF RuleOf
  <2>5. form[f] \in Held(f)
    BY <2>1, FilledIn
  <2> QED
    BY <2>3, <2>4, <2>5 DEF Held, RuleOf, KnownGap, Usable, Passwords, ConfigKeys
<1> QED
  BY <1>2, <1>3

(* What a checker may read besides: it is shown, so that what is in it was  *)
(* typed there, or never written, or one of the left over ones.             *)
LEMMA SentMonitorTakes ==
  ASSUME FormInv, sent, kind = "monitor", NEW f \in MayRead(choice)
  PROVE  Blank(f) \/ AsTyped(f) \/ KnownGap(f)
<1>1. choice \in MonitorTypes /\ Inputs = MonitorInputs(choice)
  BY ChoiceTypes DEF FormInv, FormHolds, Inputs
<1>2. f \in {"Method", "Headers", "Body", "AcceptedStatuses", "ExpectedStatus", "JSONPath",
             "JSONExpected", "KeywordMode", "DNSExpected", "WarnDaysExpiry"}
  BY DEF MayRead
<1>3. form[f] \in Held(f)
  BY <1>2 DEF FormInv, FormHolds, FieldsOf
<1>4. CASE f \in {"Headers", "Body", "WarnDaysExpiry"}
  BY <1>3, <1>4 DEF Held, RuleOf, Blank
<1>5. CASE <<choice, f>> \in {<<"http", "ExpectedStatus">>, <<"json_api", "ExpectedStatus">>,
                              <<"json_api", "AcceptedStatuses">>, <<"udp", "JSONExpected">>}
  BY <1>5 DEF KnownGap, LeftOver
<1>6. CASE f \in DOMAIN Inputs /\ f # "ExpectedStatus"
  <2>1. form[f] \in {"unset", "empty", "preset", "good"} \/ (f = "JSONPath" /\ form[f] = "low")
    BY <1>2, <1>3, <1>6 DEF Held, RuleOf, Passwords
  <2> QED
    BY <1>6, <2>1 DEF Blank, AsTyped, KnownGap
<1>7. \/ f \in {"Headers", "Body", "WarnDaysExpiry"}
      \/ <<choice, f>> \in {<<"http", "ExpectedStatus">>, <<"json_api", "ExpectedStatus">>,
                             <<"json_api", "AcceptedStatuses">>, <<"udp", "JSONExpected">>}
      \/ f \in DOMAIN Inputs /\ f # "ExpectedStatus"
  <2>1. CASE choice = "http"
    BY <1>1, <2>1, MonitorRules DEF MayRead
  <2>2. CASE choice = "json_api"
    BY <1>1, <2>2, MonitorRules DEF MayRead
  <2>3. CASE choice = "keyword"
    BY <1>1, <2>3, MonitorRules DEF MayRead
  <2>4. CASE choice = "dns"
    BY <1>1, <2>4, MonitorRules DEF MayRead
  <2>5. CASE choice \in {"udp", "ssl", "domain_expiry"}
    BY <2>5 DEF MayRead
  <2>6. CASE choice \in {"port", "ping", "response_time"}
    BY <2>6 DEF MayRead
  <2> QED
    BY <1>1, <2>1, <2>2, <2>3, <2>4, <2>5, <2>6 DEF MonitorTypes
<1> QED
  BY <1>4, <1>5, <1>6, <1>7

LEMMA SentChannelWorks ==
  ASSUME FormInv, sent, kind \in {"channel", "editChannel"}, NEW f \in SenderReads(choice)
  PROVE  Usable(f) \/ KnownGap(f)
<1>1. choice \in ChannelTypes /\ Inputs = ChannelInputs(choice)
  BY ChoiceTypes DEF FormInv, FormHolds, Inputs
<1>2. CASE choice = "email"
  BY <1>2 DEF SenderReads, KnownGap
<1>3. CASE choice # "email"
  <2>1. f \in {"chat_id", "bot_token", "webhook_url"} /\ f \in KeysOf[choice]
    BY <1>1, <1>3 DEF SenderReads, KeysOf, ChannelTypes
  <2>2. f \in DOMAIN Inputs
    BY <1>1, <2>1, OtherRules
  <2> QED
    BY <2>1, <2>2, FilledIn DEF Held, RuleOf, Usable, Passwords, ConfigKeys
<1> QED
  BY <1>2, <1>3

LEMMA SentSetupWorks ==
  ASSUME FormInv, sent, kind = "setup", NEW f \in SetupReads(choice)
  PROVE  Usable(f) \/ KnownGap(f)
<1>1. choice \in DatabaseTypes /\ step = 2 /\ PasswordsPass /\ Inputs = AdminInputs
  BY ChoiceTypes DEF FormInv, FormHolds, Inputs
<1>2. CASE f \in {"admin_username", "admin_email", "admin_password"}
  <2>1. f \in DOMAIN Inputs
    BY <1>1, <1>2, OtherRules DEF Passwords
  <2> QED
    BY <1>1, <1>2, <2>1, FilledIn DEF Held, RuleOf, Usable, Passwords, ConfigKeys, PasswordsPass
<1>3. CASE f \in {"db_host", "db_port", "db_user", "db_name"} /\ choice # "sqlite"
  <2>1. f \in DOMAIN DatabaseInputs(choice)
    BY <1>1, <1>3, OtherRules
  <2>2. form[f] \notin {"unset", "empty"}
    BY <1>1, <2>1 DEF FormInv, FormHolds
  <2>3. form[f] \in Held(f)
    BY <1>3 DEF FormInv, FormHolds, FieldsOf
  <2> QED
    BY <1>1, <1>3, <2>2, <2>3
       DEF Held, RuleOf, Usable, KnownGap, Passwords, ConfigKeys, DatabaseTypes
<1> QED
  BY <1>2, <1>3 DEF SetupReads

LEMMA SentOthersWork ==
  ASSUME FormInv, sent, kind \in {"statusPage", "editStatusPage", "user", "login"},
         NEW f \in DOMAIN form
  PROVE  Usable(f)
<1>1. f \in FieldsOf(kind)
  BY DEF FormInv, FormHolds
<1>2. DOMAIN Inputs = FieldsOf(kind)
  BY OtherRules DEF Inputs, FieldsOf
<1> QED
  BY <1>1, <1>2, FilledIn DEF Held, RuleOf, Usable, FieldsOf, Passwords, ConfigKeys

LEMMA SentWorks == FormInv => SentFormsWork
<1> SUFFICES ASSUME FormInv, sent
             PROVE  /\ \A f \in Reads : Usable(f) \/ KnownGap(f)
                    /\ kind = "monitor" =>
                         \A f \in MayRead(choice) : Blank(f) \/ AsTyped(f) \/ KnownGap(f)
                    /\ kind \in {"channel", "editChannel"} =>
                         \A f \in ConfigKeys \ KeysOf[choice] : form[f] = "unset"
  BY DEF SentFormsWork
<1>1. ASSUME NEW f \in Reads PROVE Usable(f) \/ KnownGap(f)
  <2>1. CASE kind = "monitor"
    BY <1>1, <2>1, SentMonitorWorks DEF Reads
  <2>2. CASE kind \in {"channel", "editChannel"}
    BY <1>1, <2>2, SentChannelWorks DEF Reads
  <2>3. CASE kind = "setup"
    BY <1>1, <2>3, SentSetupWorks DEF Reads
  <2>4. CASE kind \in {"statusPage", "editStatusPage", "user", "login"}
    BY <1>1, <2>4, SentOthersWork DEF Reads
  <2> QED
    BY <2>1, <2>2, <2>3, <2>4 DEF FormInv, FormHolds, FormKinds
<1> QED
  BY <1>1, SentMonitorTakes DEF FormInv, FormHolds

(* Whatever is typed and however often the type is changed, a form that was *)
(* sent has in it what its reader needs, and of an input of another type    *)
(* nothing that its reader takes, but for the gaps that are named.          *)
THEOREM SentForms == FormSpec => []SentFormsWork
<1> QED
  BY FormInvInit, FormInvNext, SentWorks, PTL DEF FormSpec
-----------------------------------------------------------------------------
(* The parts side by side. *)
WebInv ==
  /\ scene \in Scenes
  /\ SessionTypeOK /\ ListTypeOK /\ SelectionTypeOK /\ FormInv /\ SettingsTypeOK /\ FigureTypeOK

LEMMA RestingParts ==
  /\ SessionRests => SessionTypeOK
  /\ ListRests => ListTypeOK
<1>1. ASSUME SessionRests PROVE SessionTypeOK
  <2>1. store \in Tokens /\ issued \in Tokens /\ dead \in SUBSET (1..issued)
    BY <1>1, SessionAssumption DEF SessionRests, Tokens
  <2>2. /\ path \in [Tabs -> Paths] /\ checked \in [Tabs -> BOOLEAN] /\ user \in [Tabs -> BOOLEAN]
    BY <1>1 DEF SessionRests, Paths
  <2>3. asks \in [Tabs -> TabAsks]
    BY <1>1, RestingTypes DEF SessionRests
  <2> QED
    BY <2>1, <2>2, <2>3 DEF SessionTypeOK, TabAsks
<1>2. ASSUME ListRests PROVE ListTypeOK
  <2>1. page \in Pages /\ dialog \in Operations \cup {"none"}
    BY <1>2 DEF ListRests, Pages
  <2>2. table \in 0..MaxWrites /\ confirmed \in 0..MaxWrites
    BY <1>2, ListPagesAssumption DEF ListRests
  <2>3. list \in Queries(0..MaxWrites)
    BY <1>2, UnfetchedType DEF ListRests
  <2>4. calls \in [CallSlots -> Calls]
    BY <1>2, NoCallType DEF ListRests
  <2> QED
    BY <2>1, <2>2, <2>3, <2>4 DEF ListTypeOK
<1> QED
  BY <1>1, <1>2

LEMMA WebInvInit == WebInit => WebInv
BY RestingParts, SessionTypeInit, ListTypeInit, SelectionTypeInit, FormInvInit, SettingsTypeInit,
   FigureTypeInit DEF WebInit, WebInv, SelectionRests, FormRests

LEMMA WebInvNext == WebInv /\ [WebNext]_webVars => WebInv'
<1> SUFFICES ASSUME WebInv, [WebNext]_webVars PROVE WebInv'
  OBVIOUS
<1>1. /\ [SessionNext]_sessionVars /\ [ListNext]_listVars /\ [SelectionNext]_selectionVars
      /\ [FormNext]_formVars /\ [SettingsNext]_settingsVars /\ [FigureNext]_figureVars
      /\ UNCHANGED scene
  BY DEF WebNext, webVars
<1> QED
  BY <1>1, SessionTypeNext, ListTypeNext, SelectionTypeNext, FormInvNext, SettingsTypeNext,
     FigureTypeNext DEF WebInv

(* Whichever part of the client moves, all of them stay well typed; a form  *)
(* keeps its inputs, and what is listed or shown stays within its bounds.   *)
THEOREM WebTypeCorrect == WebSpec => []WebTypeOK
<1>1. WebInv => WebTypeOK
  BY FormTypes DEF WebInv, WebTypeOK
<1> QED
  BY <1>1, WebInvInit, WebInvNext, PTL DEF WebSpec

(* What the parts keep beside their types. *)
PromiseInv == ReplaceInv /\ SoleInv /\ SavesInv /\ SettingsInv /\ CertificateInv

LEMMA PromiseInvInit == WebInit => PromiseInv
<1> SUFFICES ASSUME WebInit PROVE PromiseInv
  OBVIOUS
<1>1. SelectionInit => ReplaceInv /\ SoleInv
  BY SoleInvInit DEF SelectionInit, ReplaceInv, Storing, NoChange
<1>2. ListRests => SavesInv
  BY ListPagesAssumption DEF ListRests, SavesInv, OwnSavesShown, Unfetched, NoCall
<1>3. SettingsInit /\ FigureInit => SettingsInv /\ CertificateInv
  BY DEF SettingsInit, SettingsInv, NoSaving, Saving, SaveSlots, FigureInit, CertificateInv
<1> QED
  BY <1>1, <1>2, <1>3, SavesInvInit DEF WebInit, SelectionRests, PromiseInv

LEMMA PromiseInvNext == WebInv /\ PromiseInv /\ [WebNext]_webVars => PromiseInv'
<1> SUFFICES ASSUME WebInv, PromiseInv, [WebNext]_webVars PROVE PromiseInv'
  OBVIOUS
<1>1. /\ [ListNext]_listVars /\ [SelectionNext]_selectionVars
      /\ [SettingsNext]_settingsVars /\ [FigureNext]_figureVars
  BY DEF WebNext, webVars
<1> QED
  BY <1>1, ReplaceInvNext, SoleInvNext, SavesInvNext, SettingsInvNext, CertificateInvNext
     DEF WebInv, PromiseInv

(* The promises of all parts, of the client as it is checked: the last call *)
(* decides, clicks count, a selector starts from the links, own saves and   *)
(* saved settings stay in sight, sent forms work, figures agree.            *)
ClientPromises ==
  /\ ListIsLastCall /\ TogglesKept /\ SelectorStartsTrue
  /\ OwnSavesShown /\ SavedSettingsShown
  /\ SentFormsWork
  /\ FiguresHonest

(* Side by side the parts keep what each keeps alone, with fewer than 200   *)
(* monitors to show, and no session is lost to a stale answer.              *)
THEOREM ClientKeepsPromises ==
  ASSUME MaxMonitors < 200 PROVE WebSpec => []ClientPromises /\ FreshSessionKept
<1>1. SelectionTypeOK /\ ReplaceInv /\ SoleInv =>
        ListIsLastCall /\ TogglesKept /\ SelectorStartsTrue
  BY DEF ReplaceInv, ListIsLastCall, SoleInv, TogglesKept, SelectorStartsTrue, Busy, TabQuiet
<1>2. SavesInv /\ SettingsInv => OwnSavesShown /\ SavedSettingsShown
  BY DEF SavesInv, SettingsInv, SavedSettingsShown
<1>3. FigureTypeOK /\ CertificateInv => FiguresHonest
  BY FiguresFollow
<1>4. WebInv /\ PromiseInv => ClientPromises
  BY <1>1, <1>2, <1>3, SentWorks DEF WebInv, PromiseInv, ClientPromises
<1>5. WebInv /\ [WebNext]_webVars =>
        [Accepted(store) /\ store' # store =>
           \/ issued' # issued
           \/ \E t \in Tabs : \E c \in Channels :
                /\ asks[t][c] # NoAsk /\ asks'[t][c] # asks[t][c]
                /\ \/ asks[t][c].call \in {"login", "logout"}
                   \/ c = "restore"
                   \/ asks[t][c].token # store
                   \/ BlacklistFails(t, c)]_sessionVars
  <2>1. [WebNext]_webVars => [SessionNext]_sessionVars
    BY DEF WebNext, webVars
  <2> QED
    BY <2>1, KeptNext DEF WebInv, KeptStep, Ends
<1> QED
  BY <1>4, <1>5, WebInvInit, WebInvNext, PromiseInvInit, PromiseInvNext, PTL
     DEF WebSpec, FreshSessionKept
=============================================================================
