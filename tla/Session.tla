------------------------------ MODULE Session ------------------------------
(***************************************************************************)
(* The sessions of the web client: browser tabs that share one local       *)
(* storage, the calls they have under way, each with the token that was    *)
(* stored when it was sent, and the server that accepts or refuses them.   *)
(*                                                                         *)
(* frontend/src: contexts/AuthContext.tsx, api/client.ts, App.tsx,         *)
(* pages/Login.tsx, components/Layout.tsx; internal/auth, internal/api     *)
(***************************************************************************)
EXTENDS Naturals

CONSTANTS
  Tabs,       \* browser tabs with a common local storage
  Addresses,  \* per tab, what is opened in it: some of "app", "login" and "status"
  MaxTokens   \* bounds the access tokens that are issued

ASSUME SessionAssumption ==
  /\ Addresses \in [Tabs -> SUBSET {"app", "login", "status"}]
  /\ MaxTokens \in Nat \ {0}

VARIABLES
  store,    \* the stored access token, 0 for none
  issued,   \* the number of the last token
  dead,     \* tokens that have expired or are blacklisted
  path,     \* per tab: the route, and whether a status page has come up
  checked,  \* per tab: SetupGuard has its answer
  user,     \* per tab: AuthContext has a user
  asks      \* per tab: the calls under way

sessionVars == <<store, issued, dead, path, checked, user, asks>>
-----------------------------------------------------------------------------
Tokens == 0..MaxTokens

Paths == {"app", "login", "status", "statusShown"}

(* A tab has at most one call of each of these: the one that restores a     *)
(* session, one that signs in or out, and one of the page's own.            *)
Channels == {"restore", "sign", "page"}

(* alive: the server accepted the token when the call was sent. *)
Asks == [call : {"none", "me", "login", "logout", "query"}, token : Tokens, alive : BOOLEAN]

NoAsk == [call |-> "none", token |-> 0, alive |-> FALSE]

Idle == [c \in Channels |-> NoAsk]

Accepted(token) == token \in 1..issued \ dead

(* The request interceptor puts the stored token on every call. *)
Asking(call) == [call |-> call, token |-> store, alive |-> Accepted(store)]

Ask(t, c, call) == asks' = [asks EXCEPT ![t] = [asks[t] EXCEPT ![c] = Asking(call)]]

Answered(t, c) == asks' = [asks EXCEPT ![t] = [asks[t] EXCEPT ![c] = NoAsk]]

(* Tokens only ever die, so what the server says to a call whose token it   *)
(* looks up depends on that token when it was sent and now.  Everything     *)
(* else that can go wrong, a blacklist that cannot be read, a missing       *)
(* right, a failure, a lost answer, is possible at any time.                *)
MayAccept(a) == a.alive \/ Accepted(a.token)
MayRefuse(a) == ~Accepted(a.token)

IsLoading(t) == asks[t]["restore"].call # "none"
-----------------------------------------------------------------------------
(* The effect of AuthProvider when a document is loaded: without a token    *)
(* there is nothing to restore.                                             *)
Restoring == IF store = 0 THEN Idle ELSE [Idle EXCEPT !["restore"] = Asking("me")]

(* The same, with the token removed first. *)
Load(t, where, calls) ==
  /\ path' = [path EXCEPT ![t] = where]
  /\ checked' = [checked EXCEPT ![t] = FALSE]
  /\ user' = [user EXCEPT ![t] = FALSE]
  /\ asks' = [asks EXCEPT ![t] = calls]

SessionInit ==
  /\ issued = 1
  /\ store \in 0..1
  /\ dead = {}
  /\ path \in [Tabs -> Paths]
  /\ \A t \in Tabs : path[t] \in Addresses[t]
  /\ checked = [t \in Tabs |-> FALSE]
  /\ user = [t \in Tabs |-> FALSE]
  /\ asks = [t \in Tabs |-> Restoring]

(* The page has settled on what it shows. *)
Settles(t) ==
  /\ path[t] \in {"app", "login"} => checked[t]
  /\ ~IsLoading(t)
  /\ path[t] = "app" => user[t]

(* An address is typed in, or the tab reloaded, once the page is there. *)
Visit(t, where) ==
  /\ Settles(t)
  /\ Load(t, where, Restoring)
  /\ UNCHANGED <<store, issued, dead>>

(* SetupGuard lets everything through once /setup/status has been answered, *)
(* or has failed; on a server that runs, no setup is needed.                *)
GuardPasses(t) ==
  /\ path[t] \in {"app", "login"}
  /\ ~checked[t]
  /\ checked' = [checked EXCEPT ![t] = TRUE]
  /\ UNCHANGED <<store, issued, dead, path, user, asks>>

(* PrivateRoute. *)
RedirectToLogin(t) ==
  /\ path[t] = "app" /\ checked[t]
  /\ ~IsLoading(t) /\ ~user[t]
  /\ path' = [path EXCEPT ![t] = "login"]
  /\ UNCHANGED <<store, issued, dead, checked, user, asks>>

(* A mutant of Expel: the tokens go, the page stays. *)
ExpelWithoutReload(t) ==
  /\ store' = 0
  /\ asks' = [asks EXCEPT ![t] = Idle]
  /\ UNCHANGED <<path, checked, user>>

(* The response interceptor on a 401: the tokens go, and the login page is  *)
(* loaded as a new document, which ends every other call of the tab.        *)
Expel(t) ==
  /\ store' = 0
  /\ Load(t, "login", Idle)

(* Authenticate cannot read the blacklist for a call, and answers 401 as to *)
(* a revoked token.                                                         *)
BlacklistFails(t, c) ==
  /\ asks[t][c].call \in {"me", "logout", "query"}
  /\ Accepted(asks[t][c].token)
  /\ Expel(t)
  /\ UNCHANGED <<issued, dead>>

Restored(t) ==
  /\ asks[t]["restore"].call = "me" /\ MayAccept(asks[t]["restore"])
  /\ user' = [user EXCEPT ![t] = TRUE]
  /\ Answered(t, "restore")
  /\ UNCHANGED <<store, issued, dead, path, checked>>

(* Any other error removes the tokens, and nothing is loaded again. *)
RestoreFails(t) ==
  /\ asks[t]["restore"].call = "me"
  /\ \/ MayRefuse(asks[t]["restore"]) /\ Expel(t)
     \/ /\ store' = 0
        /\ Answered(t, "restore")
        /\ UNCHANGED <<path, checked, user>>
  /\ UNCHANGED <<issued, dead>>

(* handleSubmit of Login; the button is disabled while it is under way. *)
SignIn(t) ==
  /\ path[t] = "login" /\ checked[t]
  /\ asks[t]["sign"] = NoAsk
  /\ Ask(t, "sign", "login")
  /\ UNCHANGED <<store, issued, dead, path, checked, user>>

(* The tokens are stored and /auth/me is asked with them. *)
LoginAccepted(t) ==
  /\ asks[t]["sign"].call = "login"
  /\ issued < MaxTokens
  /\ issued' = issued + 1
  /\ store' = issued + 1
  /\ asks' = [asks EXCEPT ![t] = [asks[t] EXCEPT
       !["sign"] = [call |-> "me", token |-> issued + 1, alive |-> TRUE]]]
  /\ UNCHANGED <<dead, path, checked, user>>

(* A wrong password is a 401 as any other; the rest is shown on the page. *)
LoginRefused(t) ==
  /\ asks[t]["sign"].call = "login"
  /\ \/ Expel(t)
     \/ Answered(t, "sign") /\ UNCHANGED <<store, path, checked, user>>
  /\ UNCHANGED <<issued, dead>>

(* handleSubmit goes on even when the person has left the login page. *)
SignedIn(t) ==
  /\ asks[t]["sign"].call = "me" /\ MayAccept(asks[t]["sign"])
  /\ user' = [user EXCEPT ![t] = TRUE]
  /\ path' = [path EXCEPT ![t] = "app"]
  /\ Answered(t, "sign")
  /\ UNCHANGED <<store, issued, dead, checked>>

(* Unless it is a 401, the tokens stay although nobody is signed in. *)
SignInFails(t) ==
  /\ asks[t]["sign"].call = "me"
  /\ \/ MayRefuse(asks[t]["sign"]) /\ Expel(t)
     \/ Answered(t, "sign") /\ UNCHANGED <<store, path, checked, user>>
  /\ UNCHANGED <<issued, dead>>

(* Layout's button. *)
SignOut(t) ==
  /\ path[t] = "app" /\ user[t]
  /\ asks[t]["sign"] = NoAsk
  /\ Ask(t, "sign", "logout")
  /\ UNCHANGED <<store, issued, dead, path, checked, user>>

(* The handler blacklists the token, unless the call never gets there. *)
Blacklist(t) ==
  /\ asks[t]["sign"].call = "logout"
  /\ Accepted(asks[t]["sign"].token)
  /\ dead' = dead \cup {asks[t]["sign"].token}
  /\ UNCHANGED <<store, issued, path, checked, user, asks>>

(* Whatever the answer, the stored tokens are removed: also those of a      *)
(* session that has begun in another tab meanwhile.                         *)
SignedOut(t) ==
  /\ asks[t]["sign"].call = "logout"
  /\ \/ MayRefuse(asks[t]["sign"]) /\ Expel(t)
     \/ /\ store' = 0
        /\ user' = [user EXCEPT ![t] = FALSE]
        /\ path' = [path EXCEPT ![t] = "login"]
        /\ Answered(t, "sign")
        /\ UNCHANGED checked
  /\ UNCHANGED <<issued, dead>>

(* Tokens expire, and end when another person blacklists them. *)
Expire ==
  /\ dead # 1..issued
  /\ \E token \in 1..issued \ dead : dead' = dead \cup {token}
  /\ UNCHANGED <<store, issued, path, checked, user, asks>>

(* The calls of a page: the queries of the app, and the bars of the         *)
(* monitors on a status page, which use the same client.                    *)
AsksPage(t) == (path[t] = "app" /\ checked[t] /\ user[t]) \/ path[t] = "statusShown"

PollPage(t) ==
  /\ AsksPage(t)
  /\ asks[t]["page"] = NoAsk
  /\ Ask(t, "page", "query")
  /\ UNCHANGED <<store, issued, dead, path, checked, user>>

PageAnswered(t) ==
  /\ asks[t]["page"].call = "query"
  /\ \/ MayAccept(asks[t]["page"]) /\ Answered(t, "page") /\ UNCHANGED <<store, path, checked, user>>
     \/ MayRefuse(asks[t]["page"]) /\ Expel(t)
  /\ UNCHANGED <<issued, dead>>

(* A mutant of PageFails: every error removes the tokens. *)
PageFailsAsUnauthorized(t) ==
  /\ asks[t]["page"].call = "query"
  /\ Answered(t, "page")
  /\ store' = 0
  /\ UNCHANGED <<issued, dead, path, checked, user>>

(* A 403, a 500, no answer: the query shows or drops its error. *)
PageFails(t) ==
  /\ asks[t]["page"].call = "query"
  /\ Answered(t, "page")
  /\ UNCHANGED <<store, issued, dead, path, checked, user>>

(* The status page itself is asked for with publicApi, without a token: the *)
(* page comes up, or its error does.                                        *)
StatusAnswered(t) ==
  /\ path[t] \in {"status", "statusShown"}
  /\ \E p \in {"status", "statusShown"} : path' = [path EXCEPT ![t] = p]
  /\ UNCHANGED <<store, issued, dead, checked, user, asks>>

(* The link of a status page to the dashboard, or of its error to /login. *)
FollowLink(t) ==
  /\ \/ path[t] = "statusShown" /\ path' = [path EXCEPT ![t] = "app"]
     \/ path[t] = "status" /\ path' = [path EXCEPT ![t] = "login"]
  /\ UNCHANGED <<store, issued, dead, checked, user, asks>>

SessionNext ==
  \/ Expire
  \/ \E t \in Tabs :
       \/ \E where \in Addresses[t] : Visit(t, where)
       \/ GuardPasses(t) \/ RedirectToLogin(t)
       \/ \E c \in Channels : BlacklistFails(t, c)
       \/ Restored(t) \/ RestoreFails(t)
       \/ SignIn(t) \/ LoginAccepted(t) \/ LoginRefused(t) \/ SignedIn(t) \/ SignInFails(t)
       \/ SignOut(t) \/ Blacklist(t) \/ SignedOut(t)
       \/ PollPage(t) \/ PageAnswered(t) \/ PageFails(t)
       \/ StatusAnswered(t) \/ FollowLink(t)

(* The guard and the effects of a loaded page run, the polling interval     *)
(* comes round, and calls that are made again and again are answered.       *)
SessionFairness ==
  \A t \in Tabs :
    /\ WF_sessionVars(GuardPasses(t) \/ RedirectToLogin(t) \/ Restored(t) \/ RestoreFails(t))
    /\ WF_sessionVars(PollPage(t))
    /\ SF_sessionVars(PageAnswered(t))

SessionSpec == SessionInit /\ [][SessionNext]_sessionVars /\ SessionFairness
-----------------------------------------------------------------------------
SessionTypeOK ==
  /\ store \in Tokens
  /\ issued \in Tokens
  /\ dead \in SUBSET (1..issued)
  /\ path \in [Tabs -> Paths]
  /\ checked \in [Tabs -> BOOLEAN]
  /\ user \in [Tabs -> BOOLEAN]
  /\ asks \in [Tabs -> [Channels -> Asks]]

(* What may take the stored token away while the server accepts it: a       *)
(* sign-out, a login that was refused, a restore that failed, a 401 to a    *)
(* call with another token, or one to a call whose blacklist query failed.  *)
(* No query that is forbidden or fails in its handler and no slow start of  *)
(* a session ends it (client.ts:34-44, middleware.go:30-34).                *)
FreshSessionKept ==
  [][Accepted(store) /\ store' # store =>
       \/ issued' # issued
       \/ \E t \in Tabs : \E c \in Channels :
            /\ asks[t][c] # NoAsk /\ asks'[t][c] # asks[t][c]
            /\ \/ asks[t][c].call \in {"login", "logout"}
               \/ c = "restore"
               \/ asks[t][c].token # store
               \/ BlacklistFails(t, c)]_sessionVars

(* Signing out in one tab, an expiry, a removal of the token: every tab on  *)
(* a page that polls notices, and leaves it or finds a new session stored.  *)
SessionEndsEverywhere ==
  \A t \in Tabs :
    (path[t] = "app" /\ ~Accepted(store)) ~> (path[t] # "app" \/ Accepted(store))

(* Who looks at a status page that came up, without being signed in, is not *)
(* taken to the login page by it: StatusPages.tsx:80 calls a public page     *)
(* "accessible without login", App.tsx:111 says "no login required".         *)
AnonymousStays ==
  [][\A t \in Tabs : path[t] = "statusShown" /\ store = 0 => path'[t] # "login"]_sessionVars
=============================================================================
