------------------------------ MODULE WebClient ------------------------------
(***************************************************************************)
(* One browser tab over the identity service: the axios interceptors of    *)
(* lib/api.ts, the auth provider, the route guard, the log-in page and the *)
(* wallet sign-in.  The issuer application's lib/api.ts refreshes in the   *)
(* same way.  An answer is heard by the page that asked, unless the page   *)
(* was unloaded in between.                                                *)
(***************************************************************************)
EXTENDS Identity

CONSTANTS
    Requests,          \* API requests a page may have in progress
    Me,                \* fetchMe, one of them
    Forms,             \* sign-ins in progress: the log-in page's, the guard's
    Typed,             \* emails people register and log in with
    MaxBusy            \* bound: calls in progress at once

ASSUME ClientAssumption ==
    /\ Calls = Requests \cup Forms
    /\ Requests \cap Forms = {}
    /\ Me \in Requests
    /\ Typed \subseteq Emails
    /\ MaxBusy \in Nat

VARIABLES
    store,             \* localStorage: the session of both tokens, 0 for none
    page,              \* "app" or "login"
    user,              \* AuthProvider's user
    request,           \* request -> where it is, its token, _retry, its refresh
    flights,           \* requests that started the refresh in progress
    form,              \* form -> the nonce being signed, 0 for none
    deaf,              \* calls whose page is gone: nobody hears the answer
    expired,           \* access tokens past their 15 minutes
    abandoned          \* history: a page was unloaded while it refreshed

clientVars == <<store, page, user, request, flights, form, deaf, expired, abandoned>>
vars       == <<identityVars, clientVars>>

NoRequest == [at |-> "idle", token |-> 0, retry |-> FALSE, leader |-> NoOne]
Sent(n, retry) == [at |-> "sent", token |-> n, retry |-> retry, leader |-> NoOne]

Busy == {c \in Calls : call[c].at # "idle"}

ClientInit ==
    /\ store = 0 /\ page = "login" /\ user = NoOne
    /\ request = [q \in Requests |-> NoRequest]
    /\ flights = {} /\ form = [f \in Forms |-> 0]
    /\ deaf = {} /\ expired = {} /\ abandoned = FALSE

Init == IdentityInit /\ ClientInit

(* The tab loads another document: everything the old one awaited is gone. *)
Unload ==
    /\ flights' = {} /\ form' = [f \in Forms |-> 0]
    /\ deaf' = deaf \cup {c \in Calls : call[c].at # "idle"}
    /\ abandoned' = (abandoned \/ flights # {})

-----------------------------------------------------------------------------
(* Opening or reloading a page: AuthProvider asks who the user is if there *)
(* are tokens, with the access token as it is.                             *)
Load ==
    /\ Unload
    /\ page' = "app" /\ user' = NoOne
    /\ request' = [q \in Requests |->
           IF q = Me /\ store # 0 THEN Sent(store, FALSE) ELSE NoRequest]
    /\ UNCHANGED <<identityVars, store, expired>>

(* RequireAuth, once loading is over: a change of route, not of document.  *)
Guard ==
    /\ page = "app" /\ user = NoOne /\ request[Me].at = "idle"
    /\ page' = "login"
    /\ UNCHANGED <<identityVars, store, user, request, flights, form, deaf, expired, abandoned>>

(* A query of a page: the request interceptor adds the token it finds.     *)
Ask(q) ==
    /\ page = "app" /\ q # Me /\ request[q].at = "idle" /\ q \notin flights
    /\ request' = [request EXCEPT ![q] = Sent(store, FALSE)]
    /\ UNCHANGED <<identityVars, store, page, user, flights, form, deaf, expired, abandoned>>

(* The service answers; the answer is on its way.                          *)
Serve(q) ==
    /\ request[q].at = "sent"
    /\ request' = IF Accepts(request[q].token, expired)
                  THEN [request EXCEPT ![q].at = "fine"]
                  ELSE [request EXCEPT ![q].at = "denied", ![q].token = 0]
    /\ UNCHANGED <<identityVars, store, page, user, flights, form, deaf, expired, abandoned>>

Arrive(q) ==
    /\ request[q].at = "fine"
    /\ request' = [request EXCEPT ![q] = NoRequest]
    /\ user' = IF q = Me THEN sessions[request[q].token].user ELSE user
    /\ UNCHANGED <<identityVars, store, page, flights, form, deaf, expired, abandoned>>

(* No answer at all; fetchMe takes it for "nobody". *)
Drop(q) ==
    /\ "net" \in Faults /\ request[q].at = "sent"
    /\ request' = [request EXCEPT ![q] = NoRequest]
    /\ user' = IF q = Me THEN NoOne ELSE user
    /\ UNCHANGED <<identityVars, store, page, flights, form, deaf, expired, abandoned>>

(* The interceptors give up: the tokens are removed, the page is left.     *)
Bounce ==
    /\ store' = 0 /\ page' = "login" /\ user' = NoOne
    /\ request' = [q \in Requests |-> NoRequest]
    /\ Unload
    /\ UNCHANGED expired

(* Fault: every request refreshes for itself. *)
Leaders_None == {}

(* refreshPromise: the refresh in progress, if there is one. *)
Leaders == flights

(* The 401 of a request that was not retried yet: wait for the refresh in  *)
(* progress, or start one with the refresh token of the moment.            *)
Denied(q) ==
    /\ request[q].at = "denied"
    /\ IF request[q].retry /\ page = "login"
       THEN /\ request' = [request EXCEPT ![q] = NoRequest]
            /\ user' = IF q = Me THEN NoOne ELSE user
            /\ UNCHANGED <<identityVars, store, page, flights, form, deaf, expired, abandoned>>
       ELSE IF request[q].retry THEN Bounce /\ UNCHANGED identityVars
       ELSE IF Leaders # {}
       THEN /\ request' = [request EXCEPT ![q].at = "waiting", ![q].retry = TRUE,
                                          ![q].leader = CHOOSE l \in Leaders : TRUE]
            /\ UNCHANGED <<identityVars, store, page, user, flights, form, deaf,
                           expired, abandoned>>
       ELSE IF store = 0 THEN Bounce /\ UNCHANGED identityVars
       ELSE /\ call[q].at = "idle" /\ Cardinality(Busy) < MaxBusy
            /\ call' = [call EXCEPT ![q] = Request("refresh", store, NoOne, NoOne)]
            /\ flights' = flights \cup {q}
            /\ request' = [request EXCEPT ![q].at = "waiting", ![q].retry = TRUE,
                                          ![q].leader = q]
            /\ UNCHANGED <<accounts, owner, moved, challenge, nonces, sessions,
                           store, page, user, form, deaf, expired, abandoned>>

(* The refresh succeeded: both tokens are stored and all who waited retry. *)
Refreshed(q) ==
    LET n == call[q].token IN
    /\ q \in flights /\ call[q].at = "ok"
    /\ store' = n
    /\ flights' = flights \ {q}
    /\ request' = [r \in Requests |->
           IF request[r].at = "waiting" /\ request[r].leader = q THEN Sent(n, TRUE)
           ELSE request[r]]
    /\ call' = [call EXCEPT ![q] = Idle]
    /\ UNCHANGED <<accounts, owner, moved, challenge, nonces, sessions,
                   page, user, form, deaf, expired, abandoned>>

(* It was refused or failed: whatever the reason, the tokens are removed.  *)
RefreshFailed(q) ==
    /\ q \in flights /\ call[q].at \in {"refused", "failed"}
    /\ Bounce
    /\ UNCHANGED identityVars

(* The answer of a call is lost on its way. *)
LoseAnswer(c) ==
    /\ "net" \in Faults /\ call[c].at \in {"ok", "refused"} /\ c \notin deaf
    /\ Fail(c)
    /\ UNCHANGED <<accounts, owner, moved, challenge, nonces, sessions, clientVars>>

(* The answer reaches a page that is no longer there. *)
Unheard(c) ==
    /\ c \in deaf /\ ~InService(c)
    /\ call' = [call EXCEPT ![c] = Idle]
    /\ deaf' = deaf \ {c}
    /\ UNCHANGED <<accounts, owner, moved, challenge, nonces, sessions,
                   store, page, user, request, flights, form, expired, abandoned>>

-----------------------------------------------------------------------------
FormReady(f) ==
    form[f] = 0 /\ call[f].at = "idle" /\ Cardinality(Busy) < MaxBusy

(* handleWalletLogin and signIn of useWalletSession: ask for a nonce, let  *)
(* the wallet sign it, log in with it.                                     *)
StartSigning(f, w) ==
    /\ FormReady(f) /\ user = NoOne
    /\ NewChallenge(w)
    /\ form' = [form EXCEPT ![f] = nonces']
    /\ UNCHANGED <<accounts, owner, moved, sessions, call, store, page, user, request,
                   flights, deaf, expired, abandoned>>

(* The wallet tab of the log-in page. *)
WalletLoginPanel(f, w) == page = "login" /\ StartSigning(f, w)

(* Elsewhere a connected wallet signs in by itself while nobody is known.  *)
AutoSignIn(f, w) == page = "app" /\ StartSigning(f, w)

Sign(f, w) ==
    /\ form[f] # 0 /\ Cardinality(Busy) < MaxBusy
    /\ call' = [call EXCEPT ![f] = Request("walletLogin", form[f], NoOne, w)]
    /\ form' = [form EXCEPT ![f] = 0]
    /\ UNCHANGED <<accounts, owner, moved, challenge, nonces, sessions, store, page,
                   user, request, flights, deaf, expired, abandoned>>

DeclineToSign(f) ==
    /\ form[f] # 0
    /\ form' = [form EXCEPT ![f] = 0]
    /\ UNCHANGED <<identityVars, store, page, user, request, flights, deaf, expired, abandoned>>

(* A form of the log-in page is posted.                                    *)
Submit(f, op, e, w) ==
    /\ FormReady(f) /\ page = "login"
    /\ call' = [call EXCEPT ![f] = Request(op, 0, e, w)]
    /\ UNCHANGED <<accounts, owner, moved, challenge, nonces, sessions, clientVars>>

LoginForm(f, e) == Submit(f, "login", e, NoOne)

(* Creating an account needs a connected wallet, of which nothing is signed. *)
RegisterForm(f, e, w) == Submit(f, "register", e, w)

(* The onboarding page connects a wallet to the account in use. *)
ConnectWallet(f, w) ==
    /\ FormReady(f) /\ page = "app" /\ user # NoOne
    /\ call' = [call EXCEPT ![f] = Request("connect", 0, user, w)]
    /\ UNCHANGED <<accounts, owner, moved, challenge, nonces, sessions, clientVars>>

(* A log-in answers with tokens: store them, ask who the user is, go on;   *)
(* a registration goes on to log in.                                       *)
FormAnswered(f) ==
    /\ call[f].at = "ok" /\ f \notin deaf /\ call[f].op # "logout"
    /\ IF call[f].op \in {"login", "walletLogin"}
       THEN /\ store' = call[f].token /\ page' = "app"
            /\ request' = [request EXCEPT ![Me] =
                   IF request[Me].at = "idle" /\ Me \notin flights
                   THEN Sent(store', FALSE) ELSE @]
            /\ call' = [call EXCEPT ![f] = Idle]
       ELSE /\ call' = [call EXCEPT ![f] = IF call[f].op = "register"
                                           THEN Request("login", 0, call[f].email, NoOne)
                                           ELSE Idle]
            /\ UNCHANGED <<store, page, request>>
    /\ UNCHANGED <<accounts, owner, moved, challenge, nonces, sessions, user, flights,
                   form, deaf, expired, abandoned>>

(* A refusal is shown; away from the log-in page the interceptor takes the *)
(* 401 for the end of the session.                                         *)
FormRefused(f) ==
    /\ call[f].at \in {"refused", "failed"} /\ f \notin deaf /\ call[f].op # "logout"
    /\ IF page = "login" \/ call[f].at = "failed"
       THEN /\ call' = [call EXCEPT ![f] = Idle]
            /\ UNCHANGED <<accounts, owner, moved, challenge, nonces, sessions, clientVars>>
       ELSE Bounce /\ UNCHANGED identityVars

(* signOut: the refresh token is read, revoked, and the tokens removed,    *)
(* whatever the service says.                                              *)
SignOut(f) ==
    /\ FormReady(f) /\ user # NoOne /\ store # 0
    /\ user' = NoOne
    /\ call' = [call EXCEPT ![f] = Request("logout", store, NoOne, NoOne)]
    /\ UNCHANGED <<accounts, owner, moved, challenge, nonces, sessions, store, page,
                   request, flights, form, deaf, expired, abandoned>>

SignedOut(f) ==
    /\ call[f].op = "logout" /\ ~InService(f) /\ f \notin deaf
    /\ Bounce
    /\ UNCHANGED identityVars

(* The sessions whose tokens somebody still holds: what becomes of the     *)
(* others nobody can tell.                                                 *)
Held ==
    {store} \cup {request[q].token : q \in Requests} \cup
    {call[c].token : c \in {d \in Calls : call[d].op \in {"refresh", "logout"}
                                          \/ call[d].at = "ok"}}

(* An access token expires.  A retry is answered long before that: the     *)
(* token it carries is seconds old.                                        *)
AccessExpires(n) ==
    /\ n \notin expired
    /\ \A q \in Requests : request[q].retry => request[q].token # n
    /\ \A q \in flights : call[q].at = "ok" => call[q].token # n
    /\ expired' = expired \cup {n}
    /\ UNCHANGED <<identityVars, store, page, user, request, flights, form, deaf, abandoned>>

Next ==
    \/ IdentityNext /\ UNCHANGED clientVars
    \/ Load \/ Guard
    \/ \E q \in Requests :
           \/ Ask(q) \/ Serve(q) \/ Arrive(q) \/ Drop(q) \/ Denied(q)
           \/ Refreshed(q) \/ RefreshFailed(q)
    \/ \E c \in Calls : LoseAnswer(c) \/ Unheard(c)
    \/ \E f \in Forms, w \in Wallets :
           \/ WalletLoginPanel(f, w) \/ AutoSignIn(f, w) \/ Sign(f, w)
           \/ ConnectWallet(f, w)
    \/ \E f \in Forms, e \in Typed :
           LoginForm(f, e) \/ \E w \in Wallets : RegisterForm(f, e, w)
    \/ \E f \in Forms :
           \/ DeclineToSign(f) \/ FormAnswered(f) \/ FormRefused(f)
           \/ SignOut(f) \/ SignedOut(f)
    \/ \E n \in Held \ {0} :
           AccessExpires(n) \/ (SessionExpires(n) /\ UNCHANGED clientVars)

Spec == Init /\ [][Next]_vars

-----------------------------------------------------------------------------
(* The browser's own parallel requests never cost it its session: when a   *)
(* refresh is refused, the token now in the store, if it is of the same    *)
(* log-in, is dead as well, so removing it loses nothing (lib/api.ts:16,   *)
(* "Single-flight refresh").                                               *)
RefusedRefreshIsDead ==
    \A q \in flights :
        /\ call[q].op = "refresh" /\ call[q].at = "refused" /\ store # 0
        /\ sessions[store].login = sessions[call[q].token].login
        => ~Live(store)

(* A chain of refreshes has one valid session at a time, although refresh  *)
(* reads, revokes and creates in three awaits (auth.service.ts:53): the    *)
(* browser never refreshes one token twice, unless a page is unloaded in   *)
(* the middle of it.                                                       *)
OneLiveSessionPerLogin ==
    ~abandoned =>
        \A i, j \in DOMAIN sessions :
            Live(i) /\ Live(j) /\ sessions[i].login = sessions[j].login => i = j
=============================================================================
