--------------------------- MODULE SessionProofs ---------------------------
(***************************************************************************)
(* What holds of the sessions of the web client for any number of tabs and *)
(* tokens.                                                                 *)
(***************************************************************************)
EXTENDS Session, TLAPS

TabAsks == [Channels -> Asks]

LEMMA RestingTypes == NoAsk \in Asks /\ Idle \in TabAsks
BY SessionAssumption DEF NoAsk, Asks, Tokens, Idle, TabAsks

LEMMA AskingType ==
  ASSUME SessionTypeOK, NEW call \in {"me", "login", "logout", "query"}
  PROVE  Asking(call) \in Asks
BY DEF SessionTypeOK, Asking, Accepted, Asks

LEMMA RestoringType == SessionTypeOK => Restoring \in TabAsks
<1> SUFFICES ASSUME SessionTypeOK PROVE Restoring \in TabAsks
  OBVIOUS
<1>1. Asking("me") \in Asks
  BY AskingType
<1> QED
  BY <1>1, RestingTypes DEF Restoring, TabAsks

(* A call of a tab begins or ends. *)
LEMMA AsksType ==
  ASSUME SessionTypeOK, NEW t \in Tabs, NEW c \in Channels, NEW a \in Asks
  PROVE  [asks EXCEPT ![t] = [asks[t] EXCEPT ![c] = a]] \in [Tabs -> [Channels -> Asks]]
<1>1. asks[t] \in [Channels -> Asks]
  BY DEF SessionTypeOK
<1>2. [asks[t] EXCEPT ![c] = a] \in [Channels -> Asks]
  BY <1>1
<1> QED
  BY <1>2 DEF SessionTypeOK

LEMMA AskType ==
  ASSUME SessionTypeOK, NEW t \in Tabs, NEW c \in Channels
  PROVE  /\ \A call \in {"me", "login", "logout", "query"} :
              Ask(t, c, call) => asks' \in [Tabs -> [Channels -> Asks]]
         /\ Answered(t, c) => asks' \in [Tabs -> [Channels -> Asks]]
BY AsksType, AskingType, RestingTypes DEF Ask, Answered

(* A document is loaded. *)
LEMMA LoadType ==
  ASSUME SessionTypeOK, NEW t \in Tabs, NEW where \in Paths, NEW rest \in TabAsks,
         Load(t, where, rest)
  PROVE  /\ path' \in [Tabs -> Paths]
         /\ checked' \in [Tabs -> BOOLEAN]
         /\ user' \in [Tabs -> BOOLEAN]
         /\ asks' \in [Tabs -> [Channels -> Asks]]
BY DEF SessionTypeOK, Load, TabAsks

LEMMA ExpelType ==
  ASSUME SessionTypeOK, NEW t \in Tabs, Expel(t)
  PROVE  /\ store' \in Tokens
         /\ path' \in [Tabs -> Paths]
         /\ checked' \in [Tabs -> BOOLEAN]
         /\ user' \in [Tabs -> BOOLEAN]
         /\ asks' \in [Tabs -> [Channels -> Asks]]
<1>1. "login" \in Paths /\ 0 \in Tokens
  BY SessionAssumption DEF Paths, Tokens
<1> QED
  BY <1>1, RestingTypes, LoadType DEF Expel

LEMMA SessionTypeInit == SessionInit => SessionTypeOK
<1> SUFFICES ASSUME SessionInit PROVE SessionTypeOK
  OBVIOUS
<1>1. store \in Tokens /\ issued \in Tokens
  BY SessionAssumption DEF SessionInit, Tokens
<1>2. Asking("me") \in Asks
  BY <1>1 DEF Asking, Accepted, Asks
<1>3. Restoring \in TabAsks
  BY <1>2, RestingTypes DEF Restoring, TabAsks
<1> QED
  BY <1>1, <1>3 DEF SessionInit, SessionTypeOK, TabAsks

LEMMA SessionTypeNext == SessionTypeOK /\ [SessionNext]_sessionVars => SessionTypeOK'
<1> SUFFICES ASSUME SessionTypeOK, [SessionNext]_sessionVars PROVE SessionTypeOK'
  OBVIOUS
<1>c. "restore" \in Channels /\ "sign" \in Channels /\ "page" \in Channels
  BY DEF Channels
<1>p. {"app", "login", "status", "statusShown"} \subseteq Paths /\ 0 \in Tokens
  BY SessionAssumption DEF Paths, Tokens
<1>0. CASE Expire
  BY <1>0 DEF Expire, SessionTypeOK
<1>1. ASSUME NEW t \in Tabs, NEW where \in Addresses[t], Visit(t, where) PROVE SessionTypeOK'
  <2>1. where \in Paths
    BY SessionAssumption DEF Paths
  <2> QED
    BY <1>1, <2>1, LoadType, RestoringType DEF Visit, SessionTypeOK
<1>2. ASSUME NEW t \in Tabs, GuardPasses(t) PROVE SessionTypeOK'
  BY <1>2 DEF GuardPasses, SessionTypeOK
<1>3. ASSUME NEW t \in Tabs, RedirectToLogin(t) PROVE SessionTypeOK'
  BY <1>3, <1>p DEF RedirectToLogin, SessionTypeOK
<1>4. ASSUME NEW t \in Tabs, Restored(t) PROVE SessionTypeOK'
  BY <1>4, <1>c, AskType DEF Restored, SessionTypeOK
<1>5. ASSUME NEW t \in Tabs, RestoreFails(t) PROVE SessionTypeOK'
  <2>1. CASE Expel(t)
    BY <1>5, <2>1, ExpelType DEF RestoreFails, SessionTypeOK
  <2>2. CASE store' = 0 /\ Answered(t, "restore") /\ UNCHANGED <<path, checked, user>>
    BY <1>5, <1>c, <1>p, <2>2, AskType DEF RestoreFails, SessionTypeOK
  <2> QED
    BY <1>5, <2>1, <2>2 DEF RestoreFails
<1>6. ASSUME NEW t \in Tabs, SignIn(t) PROVE SessionTypeOK'
  BY <1>6, <1>c, AskType DEF SignIn, SessionTypeOK
<1>7. ASSUME NEW t \in Tabs, LoginAccepted(t) PROVE SessionTypeOK'
  <2>1. issued + 1 \in Tokens /\ 1..issued \subseteq 1..(issued + 1)
    BY <1>7, SessionAssumption DEF LoginAccepted, SessionTypeOK, Tokens
  <2>2. [call |-> "me", token |-> issued + 1, alive |-> TRUE] \in Asks
    BY <2>1 DEF Asks
  <2> QED
    BY <1>7, <1>c, <2>1, <2>2, AsksType DEF LoginAccepted, SessionTypeOK
<1>8. ASSUME NEW t \in Tabs, LoginRefused(t) PROVE SessionTypeOK'
  <2>1. CASE Expel(t)
    BY <1>8, <2>1, ExpelType DEF LoginRefused, SessionTypeOK
  <2>2. CASE Answered(t, "sign") /\ UNCHANGED <<store, path, checked, user>>
    BY <1>8, <1>c, <2>2, AskType DEF LoginRefused, SessionTypeOK
  <2> QED
    BY <1>8, <2>1, <2>2 DEF LoginRefused
<1>9. ASSUME NEW t \in Tabs, SignedIn(t) PROVE SessionTypeOK'
  BY <1>9, <1>c, <1>p, AskType DEF SignedIn, SessionTypeOK
<1>10. ASSUME NEW t \in Tabs, SignInFails(t) PROVE SessionTypeOK'
  <2>1. CASE Expel(t)
    BY <1>10, <2>1, ExpelType DEF SignInFails, SessionTypeOK
  <2>2. CASE Answered(t, "sign") /\ UNCHANGED <<store, path, checked, user>>
    BY <1>10, <1>c, <2>2, AskType DEF SignInFails, SessionTypeOK
  <2> QED
    BY <1>10, <2>1, <2>2 DEF SignInFails
<1>11. ASSUME NEW t \in Tabs, SignOut(t) PROVE SessionTypeOK'
  BY <1>11, <1>c, AskType DEF SignOut, SessionTypeOK
<1>12. ASSUME NEW t \in Tabs, Blacklist(t) PROVE SessionTypeOK'
  BY <1>12 DEF Blacklist, Accepted, SessionTypeOK
<1>13. ASSUME NEW t \in Tabs, SignedOut(t) PROVE SessionTypeOK'
  <2>1. CASE Expel(t)
    BY <1>13, <2>1, ExpelType DEF SignedOut, SessionTypeOK
  <2>2. CASE /\ store' = 0
             /\ user' = [user EXCEPT ![t] = FALSE]
             /\ path' = [path EXCEPT ![t] = "login"]
             /\ Answered(t, "sign")
             /\ UNCHANGED checked
    BY <1>13, <1>c, <1>p, <2>2, AskType DEF SignedOut, SessionTypeOK
  <2> QED
    BY <1>13, <2>1, <2>2 DEF SignedOut
<1>14. ASSUME NEW t \in Tabs, PollPage(t) PROVE SessionTypeOK'
  BY <1>14, <1>c, AskType DEF PollPage, SessionTypeOK
<1>15. ASSUME NEW t \in Tabs, PageAnswered(t) PROVE SessionTypeOK'
  <2>1. CASE Expel(t)
    BY <1>15, <2>1, ExpelType DEF PageAnswered, SessionTypeOK
  <2>2. CASE Answered(t, "page") /\ UNCHANGED <<store, path, checked, user>>
    BY <1>15, <1>c, <2>2, AskType DEF PageAnswered, SessionTypeOK
  <2> QED
    BY <1>15, <2>1, <2>2 DEF PageAnswered
<1>16. ASSUME NEW t \in Tabs, PageFails(t) PROVE SessionTypeOK'
  BY <1>16, <1>c, AskType DEF PageFails, SessionTypeOK
<1>17. ASSUME NEW t \in Tabs, StatusAnswered(t) PROVE SessionTypeOK'
  BY <1>17, <1>p DEF StatusAnswered, SessionTypeOK
<1>18. ASSUME NEW t \in Tabs, FollowLink(t) PROVE SessionTypeOK'
  BY <1>18, <1>p DEF FollowLink, SessionTypeOK
<1>20. ASSUME NEW t \in Tabs, NEW c \in Channels, BlacklistFails(t, c) PROVE SessionTypeOK'
  BY <1>20, ExpelType DEF BlacklistFails, SessionTypeOK
<1>19. CASE UNCHANGED sessionVars
  BY <1>19 DEF sessionVars, SessionTypeOK
<1> QED
  BY <1>0, <1>1, <1>2, <1>3, <1>4, <1>5, <1>6, <1>7, <1>8, <1>9, <1>10, <1>11, <1>12, <1>13,
     <1>14, <1>15, <1>16, <1>17, <1>18, <1>19, <1>20 DEF SessionNext

(* The sessions are well typed: a token that has died was issued, and no    *)
(* tab holds a token that never was.                                        *)
THEOREM SessionTypeCorrect == SessionSpec => []SessionTypeOK
<1> QED
  BY SessionTypeInit, SessionTypeNext, PTL DEF SessionSpec
-----------------------------------------------------------------------------
(* What may take the stored token away. *)
Ends(t, c) ==
  /\ asks[t][c] # NoAsk /\ asks'[t][c] # asks[t][c]
  /\ \/ asks[t][c].call \in {"login", "logout"}
     \/ c = "restore"
     \/ asks[t][c].token # store
     \/ BlacklistFails(t, c)

KeptStep ==
  Accepted(store) /\ store' # store =>
    issued' # issued \/ \E t \in Tabs : \E c \in Channels : Ends(t, c)

(* A call that has been answered is no longer under way. *)
LEMMA AnsweredEnds ==
  ASSUME SessionTypeOK, NEW t \in Tabs, NEW c \in Channels, Answered(t, c) \/ Expel(t)
  PROVE  asks'[t][c] = NoAsk
<1>1. asks[t] \in [Channels -> Asks] /\ asks \in [Tabs -> [Channels -> Asks]]
  BY DEF SessionTypeOK
<1>2. CASE Answered(t, c)
  <2>1. asks'[t] = [asks[t] EXCEPT ![c] = NoAsk]
    BY <1>1, <1>2 DEF Answered
  <2> QED
    BY <1>1, <2>1
<1>3. CASE Expel(t)
  <2>1. asks'[t] = Idle
    BY <1>1, <1>3 DEF Expel, Load
  <2> QED
    BY <2>1 DEF Idle
<1> QED
  BY <1>2, <1>3

(* A call with a token that the server refuses is not one with the stored   *)
(* token, while that is accepted.                                           *)
LEMMA RefusalIsStale ==
  ASSUME Accepted(store), NEW a, MayRefuse(a)
  PROVE  a.token # store
BY DEF MayRefuse

LEMMA KeptNext == SessionTypeOK /\ [SessionNext]_sessionVars => KeptStep
<1> SUFFICES ASSUME SessionTypeOK, [SessionNext]_sessionVars, Accepted(store), store' # store,
                    issued' = issued
    PROVE  \E t \in Tabs : \E c \in Channels : Ends(t, c)
  BY DEF KeptStep
<1>c. "restore" \in Channels /\ "sign" \in Channels /\ "page" \in Channels
  BY DEF Channels
<1>n. NoAsk.call = "none"
  BY DEF NoAsk
<1>1. ASSUME NEW t \in Tabs, RestoreFails(t) PROVE Ends(t, "restore")
  <2>1. asks'[t]["restore"] = NoAsk
    BY <1>1, <1>c, AnsweredEnds DEF RestoreFails
  <2> QED
    BY <1>1, <1>n, <2>1 DEF RestoreFails, Ends
<1>2. ASSUME NEW t \in Tabs, LoginRefused(t) PROVE Ends(t, "sign")
  <2>1. asks'[t]["sign"] = NoAsk
    BY <1>2, <1>c, AnsweredEnds DEF LoginRefused
  <2> QED
    BY <1>2, <1>n, <2>1 DEF LoginRefused, Ends
<1>3. ASSUME NEW t \in Tabs, SignInFails(t) PROVE Ends(t, "sign")
  <2>1. Expel(t) /\ MayRefuse(asks[t]["sign"])
    BY <1>3 DEF SignInFails
  <2>2. asks'[t]["sign"] = NoAsk /\ asks[t]["sign"].token # store
    BY <1>c, <2>1, AnsweredEnds, RefusalIsStale
  <2> QED
    BY <1>3, <1>n, <2>2 DEF SignInFails, Ends
<1>4. ASSUME NEW t \in Tabs, SignedOut(t) PROVE Ends(t, "sign")
  <2>1. asks'[t]["sign"] = NoAsk
    BY <1>4, <1>c, AnsweredEnds DEF SignedOut
  <2> QED
    BY <1>4, <1>n, <2>1 DEF SignedOut, Ends
<1>5. ASSUME NEW t \in Tabs, PageAnswered(t) PROVE Ends(t, "page")
  <2>1. Expel(t) /\ MayRefuse(asks[t]["page"])
    BY <1>5 DEF PageAnswered
  <2>2. asks'[t]["page"] = NoAsk /\ asks[t]["page"].token # store
    BY <1>c, <2>1, AnsweredEnds, RefusalIsStale
  <2> QED
    BY <1>5, <1>n, <2>2 DEF PageAnswered, Ends
<1>10. ASSUME NEW t \in Tabs, NEW c \in Channels, BlacklistFails(t, c) PROVE Ends(t, c)
  <2>1. asks'[t][c] = NoAsk
    BY <1>10, AnsweredEnds DEF BlacklistFails
  <2> QED
    BY <1>10, <1>n, <2>1 DEF BlacklistFails, Ends
<1>6. ASSUME NEW t \in Tabs PROVE ~LoginAccepted(t)
  BY DEF LoginAccepted, SessionTypeOK, Tokens
<1>7. ~Expire /\ ~UNCHANGED sessionVars
  BY DEF Expire, sessionVars
<1>8. \A t \in Tabs :
        /\ \A where \in Addresses[t] : ~Visit(t, where)
        /\ ~GuardPasses(t) /\ ~RedirectToLogin(t) /\ ~Restored(t) /\ ~SignIn(t) /\ ~SignedIn(t)
        /\ ~SignOut(t) /\ ~Blacklist(t) /\ ~PollPage(t) /\ ~PageFails(t)
        /\ ~StatusAnswered(t) /\ ~FollowLink(t)
  BY DEF Visit, GuardPasses, RedirectToLogin, Restored, SignIn, SignedIn, SignOut, Blacklist,
         PollPage, PageFails, StatusAnswered, FollowLink
<1>9. PICK t \in Tabs :
        \/ RestoreFails(t) \/ LoginRefused(t) \/ SignInFails(t) \/ SignedOut(t) \/ PageAnswered(t)
        \/ \E c \in Channels : BlacklistFails(t, c)
  BY <1>6, <1>7, <1>8 DEF SessionNext
<1> QED
  BY <1>c, <1>1, <1>2, <1>3, <1>4, <1>5, <1>9, <1>10

(* However many tabs share a session that the server accepts, the stored    *)
(* token is removed only by a sign-out, a refused login, a restore that     *)
(* failed, or a 401 to a call that carried another token or whose blacklist *)
(* query failed.                                                            *)
THEOREM SessionKept == SessionSpec => FreshSessionKept
<1>1. SessionTypeOK /\ [SessionNext]_sessionVars => [KeptStep]_sessionVars
  BY KeptNext
<1>2. KeptStep =>
        (Accepted(store) /\ store' # store =>
           \/ issued' # issued
           \/ \E t \in Tabs : \E c \in Channels :
                /\ asks[t][c] # NoAsk /\ asks'[t][c] # asks[t][c]
                /\ \/ asks[t][c].call \in {"login", "logout"}
                   \/ c = "restore"
                   \/ asks[t][c].token # store
                   \/ BlacklistFails(t, c))
  BY DEF KeptStep, Ends
<1> QED
  BY <1>1, <1>2, SessionTypeCorrect, PTL DEF SessionSpec, FreshSessionKept
=============================================================================
