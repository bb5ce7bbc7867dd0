---------------------------- MODULE AccessProofs ----------------------------
(* Proofs about sessions: the identity service under a browser tab.         *)
(* AccessInv is the inductive invariant.  What it adds to the types: what   *)
(* a request in progress read that is true of it still (Knows, Placed), who *)
(* may hold the token of a log-in nobody heard of yet (FreshLogins), that   *)
(* the tab has one refresh in progress, of the token it stores unless it    *)
(* has logged in anew (FlightsInv), and that a refresh past its reading     *)
(* leaves nothing valid of its chain (ChainsInv).                           *)
EXTENDS WebClient, SequenceTheorems, TLAPS

-----------------------------------------------------------------------------
(* The inductive invariant *)

Ops == {"none", "login", "refresh", "logout", "walletLogin", "register", "connect"}
Steps == {"idle", "sent", "found", "issue", "spent", "unknown", "role", "create", "link",
          "ok", "refused", "failed"}
Call == [op: Ops, at: Steps, token: Nat, email: Emails \cup {NoOne}, wallet: Wallets \cup {NoOne}]
Places == {"idle", "sent", "fine", "denied", "waiting"}
WebRequest == [at: Places, token: Nat, retry: BOOLEAN, leader: Requests \cup {NoOne}]

IsToken(n) == n \in DOMAIN sessions
SameLogin(m, n) == sessions[m].login = sessions[n].login

SessionsTyped == sessions \in Seq(Session) /\ \A n \in DOMAIN sessions : IsToken(sessions[n].login)

PageTyped ==
    /\ user \in Emails \cup {NoOne}
    /\ request \in [Requests -> WebRequest]
    /\ \A q \in Requests : request[q].token = 0 \/ IsToken(request[q].token)
    /\ \A q \in Requests : request[q].at = "fine" => request[q].token # 0
    /\ nonces \in Nat /\ form \in [Forms -> Nat]

AccessTyped ==
    /\ SessionsTyped /\ PageTyped
    /\ call \in [Calls -> Call]
    /\ owner \in [Wallets -> Emails \cup {NoOne}]
    /\ store = 0 \/ IsToken(store)
    /\ flights \subseteq Requests /\ deaf \subseteq Calls

(* What a request is at which of its steps. *)
Staged(r) ==
    /\ r.op = "none" <=> r.at = "idle"
    /\ r.at \in {"spent", "unknown", "role"} => r.op = "walletLogin"
    /\ r.at = "found" => r.op = "refresh"
    /\ r.at = "create" => r.op \in {"walletLogin", "register"}
    /\ r.at = "issue" => r.op \in {"login", "refresh", "walletLogin"}
    /\ r.at = "link" => r.op \in {"walletLogin", "register", "connect"} /\ r.wallet \in Wallets
    /\ r.op \in {"walletLogin", "connect"} /\ r.at # "failed" => r.wallet \in Wallets
    /\ r.op \in {"login", "register", "connect"} /\ r.at # "failed" => r.email \in Emails
    /\ r.at \in {"create", "link", "role", "issue"} => r.email \in Emails

Carries(r) == r.op = "refresh" /\ r.at # "failed"
LoggedIn(r) == r.op \in {"login", "walletLogin"} /\ r.at = "ok"

Knows(r) ==
    /\ Carries(r) => IsToken(r.token)
    /\ r.op = "refresh" /\ r.at \in {"found", "issue"} => r.email = sessions[r.token].user
    /\ r.op = "refresh" /\ r.at = "refused" => ~Live(r.token)
    /\ LoggedIn(r) => /\ IsToken(r.token)
                      /\ \A n \in DOMAIN sessions : sessions[n].login = r.token <=> n = r.token

(* A wallet's log-in is to the wallet's automatic account, unless somebody  *)
(* has claimed the wallet.                                                  *)
Placed(r) ==
    r.op = "walletLogin" /\ r.at \in {"create", "link", "role", "issue"} =>
        \/ r.email = Placeholder[r.wallet]
        \/ r.at \in {"role", "issue"} /\ r.wallet \in moved

CallsInv == \A c \in Calls : Staged(call[c]) /\ Knows(call[c]) /\ Placed(call[c])

OwnersInv == \A w \in Wallets : w \in moved \/ owner[w] \in {NoOne, Placeholder[w]}

WalletsInv ==
    \A n \in DOMAIN sessions :
        sessions[n].wallet # NoOne /\ sessions[n].wallet \notin moved =>
            sessions[n].user = Placeholder[sessions[n].wallet]

(* The answer of a log-in is the only holder of its token. *)
FreshLogins ==
    \A c \in Calls : LoggedIn(call[c]) =>
        /\ store # call[c].token
        /\ \A d \in Calls \ {c} :
               LoggedIn(call[d]) \/ Carries(call[d]) => call[d].token # call[c].token

Unanswered(r) == r.at \in {"sent", "found", "issue", "refused"}

FlightsInv ==
    /\ \A p, q \in flights : p = q
    /\ \A q \in flights :
          /\ q \notin deaf /\ call[q].op = "refresh"
          /\ Unanswered(call[q]) /\ store # 0 /\ SameLogin(store, call[q].token) =>
                 store = call[q].token
    /\ \A c \in deaf : call[c].at # "idle"

(* Past its reading, a refresh knows the one valid session of its chain;    *)
(* past its revoking, there is none.                                        *)
Spends(r) ==
    r.at \in {"found", "issue"} =>
        \A n \in DOMAIN sessions :
            Live(n) /\ SameLogin(n, r.token) => r.at = "found" /\ n = r.token

ChainsInv ==
    ~abandoned =>
        /\ \A m, n \in DOMAIN sessions : Live(m) /\ Live(n) /\ SameLogin(m, n) => m = n
        /\ \A c \in Calls : call[c].op = "refresh" => c \in flights /\ Spends(call[c])

AccessInv ==
    /\ AccessTyped /\ CallsInv /\ OwnersInv /\ WalletsInv
    /\ FreshLogins /\ FlightsInv /\ ChainsInv

-----------------------------------------------------------------------------
(* The steps that make no session *)

(* No session is added; one may have been revoked. *)
SameRows ==
    /\ DOMAIN sessions' = DOMAIN sessions
    /\ \A n \in DOMAIN sessions :
          /\ sessions'[n].user = sessions[n].user /\ sessions'[n].login = sessions[n].login
          /\ sessions'[n].wallet = sessions[n].wallet
          /\ sessions'[n].live => sessions[n].live

LEMMA RevokedRow ==
    ASSUME NEW s \in Seq(Session), NEW n, NEW t, t = [s EXCEPT ![n].live = FALSE]
    PROVE  /\ t \in Seq(Session) /\ DOMAIN t = DOMAIN s
           /\ \A i \in DOMAIN s :
                 /\ t[i].user = s[i].user /\ t[i].login = s[i].login /\ t[i].wallet = s[i].wallet
                 /\ t[i].live => s[i].live
           /\ n \in DOMAIN t => ~t[n].live
<1>1. DOMAIN t = DOMAIN s
  OBVIOUS
<1>2. ASSUME NEW i \in DOMAIN s
      PROVE  /\ t[i] \in Session /\ s[i] \in Session
             /\ t[i].user = s[i].user /\ t[i].login = s[i].login /\ t[i].wallet = s[i].wallet
             /\ t[i].live => s[i].live
             /\ i = n => ~t[i].live
  <2>1. s[i] \in Session
    BY ElementOfSeq
  <2>2. CASE i = n
    <3>1. t[i] = [s[i] EXCEPT !.live = FALSE]
      BY <2>2
    <3> QED
      BY <2>1, <3>1, <2>2 DEF Session
  <2>3. CASE i # n
    BY <2>1, <2>3
  <2> QED
    BY <2>2, <2>3
<1>3. t \in Seq(Session)
  <2>1. Len(s) \in Nat /\ DOMAIN s = 1 .. Len(s)
    BY LenProperties
  <2>2. t \in [1 .. Len(s) -> Session]
    BY <1>1, <1>2, <2>1
  <2> QED
    BY <2>1, <2>2, SeqDef
<1> QED
  BY <1>1, <1>2, <1>3

LEMMA RevokeKeepsRows ==
    ASSUME SessionsTyped, NEW n, sessions' = [sessions EXCEPT ![n].live = FALSE]
    PROVE  SessionsTyped' /\ SameRows /\ ~Live(n)'
<1>1. PICK s \in Seq(Session) : s = sessions
  BY DEF SessionsTyped
<1>2. PICK t : t = sessions' /\ t = [s EXCEPT ![n].live = FALSE]
  BY <1>1
<1>3. /\ t \in Seq(Session) /\ DOMAIN t = DOMAIN s
      /\ \A i \in DOMAIN s :
            /\ t[i].user = s[i].user /\ t[i].login = s[i].login /\ t[i].wallet = s[i].wallet
            /\ t[i].live => s[i].live
      /\ n \in DOMAIN t => ~t[n].live
  BY <1>2, RevokedRow
<1>4. SameRows /\ DOMAIN sessions' = DOMAIN sessions
  BY <1>1, <1>2, <1>3 DEF SameRows
<1>5. ~Live(n)'
  BY <1>2, <1>3 DEF Live
<1>6. sessions' \in Seq(Session)
  BY <1>2, <1>3
<1>7. \A k \in DOMAIN sessions' : sessions'[k].login \in DOMAIN sessions'
  BY <1>4 DEF SameRows, SessionsTyped, IsToken
<1> QED
  BY <1>4, <1>5, <1>6, <1>7 DEF SessionsTyped, IsToken

LEMMA UnchangedRows ==
    ASSUME SessionsTyped, sessions' = sessions
    PROVE  SessionsTyped' /\ SameRows
BY DEF SessionsTyped, IsToken, SameRows

LEMMA RowTyped ==
    ASSUME SessionsTyped, NEW n \in DOMAIN sessions
    PROVE  /\ n \in Nat \ {0} /\ sessions[n] \in Session
           /\ sessions[n].user \in Emails /\ sessions[n].wallet \in Wallets \cup {NoOne}
           /\ IsToken(sessions[n].login)
<1>1. sessions \in Seq(Session)
  BY DEF SessionsTyped
<1>2. n \in Nat \ {0} /\ sessions[n] \in Session
  BY <1>1, LenProperties, ElementOfSeq
<1> QED
  BY <1>2 DEF Session, SessionsTyped

(* What a request knows stays true. *)
LEMMA KnowledgeIsKept ==
    ASSUME SameRows, moved \subseteq moved', NEW r, SessionsTyped
    PROVE  /\ \A n : IsToken(n) => IsToken(n)'
           /\ \A n : Live(n)' => Live(n)
           /\ \A m, n \in DOMAIN sessions : SameLogin(m, n)' <=> SameLogin(m, n)
           /\ Knows(r) => Knows(r)'
           /\ Placed(r) => Placed(r)'
           /\ Carries(r) /\ Knows(r) /\ Spends(r) => Spends(r)'
<1>1. /\ \A n : IsToken(n) => IsToken(n)'
      /\ \A n : Live(n)' => Live(n)
      /\ \A m, n \in DOMAIN sessions : SameLogin(m, n)' <=> SameLogin(m, n)
  BY DEF SameRows, IsToken, Live, SameLogin
<1>2. Knows(r) => Knows(r)'
  BY <1>1 DEF Knows, SameRows, IsToken, Carries
<1>3. Placed(r) => Placed(r)'
  BY DEF Placed
<1>4. Carries(r) /\ Knows(r) /\ Spends(r) => Spends(r)'
  BY <1>1 DEF Knows, Spends, SameRows, IsToken
<1> QED
  BY <1>1, <1>2, <1>3, <1>4

(* The request of c becomes r, and the rest of the tab keeps waiting.       *)
Becomes(c, r) ==
    /\ call' = [call EXCEPT ![c] = r]
    /\ SameRows /\ SessionsTyped' /\ PageTyped'
    /\ owner' \in [Wallets -> Emails \cup {NoOne}]
    /\ moved \subseteq moved' /\ OwnersInv'
    /\ UNCHANGED <<store, flights, deaf, abandoned>>
    /\ Staged(r) /\ Knows(r)' /\ Placed(r)'
    /\ ~LoggedIn(r)
    /\ r.op = "refresh" =>
          /\ call[c].op = "refresh" /\ (~abandoned => Spends(r)')
          /\ r.at # "failed" => Unanswered(call[c]) /\ r.token = call[c].token
    /\ c \in flights => r.op = "refresh"
    /\ c \in deaf => r.at # "idle"

LEMMA OneRequest ==
    ASSUME NEW c \in Calls, NEW r \in Call, call \in [Calls -> Call],
           call' = [call EXCEPT ![c] = r]
    PROVE  /\ call' \in [Calls -> Call] /\ call'[c] = r
           /\ \A d \in Calls \ {c} : call'[d] = call[d]
OBVIOUS

LEMMA BecomesKeepsCalls ==
    ASSUME AccessInv, NEW c \in Calls, NEW r \in Call, Becomes(c, r)
    PROVE  CallsInv'
<1>1. call'[c] = r /\ \A d \in Calls \ {c} : call'[d] = call[d]
  BY OneRequest DEF AccessInv, AccessTyped, Becomes
<1>2. \A x : (Knows(x) => Knows(x)') /\ (Placed(x) => Placed(x)')
  BY KnowledgeIsKept DEF AccessInv, AccessTyped, Becomes
<1>3. Staged(r) /\ Knows(r)' /\ Placed(r)'
  BY DEF Becomes
<1>4. ASSUME NEW d \in Calls, NEW x, x = call'[d]
      PROVE  Staged(x) /\ Knows(x)' /\ Placed(x)'
  <2>1. CASE d = c
    BY <1>1, <1>3, <1>4, <2>1
  <2>2. CASE d # c
    <3>1. x = call[d]
      BY <1>1, <1>4, <2>2
    <3>2. Staged(x) /\ Knows(x) /\ Placed(x)
      BY <3>1 DEF AccessInv, CallsInv
    <3> QED
      BY <1>2, <3>2
  <2> QED
    BY <2>1, <2>2
<1> QED
  BY <1>4 DEF CallsInv, Knows, Placed, Carries, LoggedIn, Live, IsToken

LEMMA BecomesKeepsTokens ==
    ASSUME AccessInv, NEW c \in Calls, NEW r \in Call, Becomes(c, r)
    PROVE  FreshLogins' /\ FlightsInv'
<1>1. call'[c] = r /\ \A d \in Calls \ {c} : call'[d] = call[d]
  BY OneRequest DEF AccessInv, AccessTyped, Becomes
<1>2. FreshLogins'
  <2>1. Carries(r) => Carries(call[c]) /\ r.token = call[c].token
    BY DEF Becomes, Carries, Unanswered
  <2>2. \A d \in Calls : LoggedIn(call'[d]) => d # c /\ call'[d] = call[d]
    BY <1>1 DEF Becomes
  <2>3. \A d \in Calls : Carries(call'[d]) => Carries(call[d]) /\ call'[d].token = call[d].token
    BY <1>1, <2>1
  <2> QED
    BY <2>2, <2>3 DEF AccessInv, FreshLogins, Becomes, LoggedIn, Carries
<1>3. FlightsInv'
  <2>1. ASSUME NEW q \in flights, NEW x, x = call'[q]
        PROVE  /\ q \notin deaf /\ x.op = "refresh"
               /\ Unanswered(x) /\ store # 0 /\ SameLogin(store, x.token)' => store = x.token
    <3>1. q \in Calls /\ q \notin deaf /\ call[q].op = "refresh" /\ Knows(call[q])
      BY ClientAssumption DEF AccessInv, AccessTyped, FlightsInv, CallsInv
    <3>2. x.op = "refresh" /\ (Unanswered(x) => x.token = call[q].token /\ Unanswered(call[q]))
      BY <1>1, <2>1, <3>1 DEF Becomes, Unanswered
    <3>3. Unanswered(x) => IsToken(x.token)
      BY <3>1, <3>2 DEF Knows, Carries, Unanswered
    <3>4. Unanswered(x) /\ store # 0 /\ SameLogin(store, x.token)' => SameLogin(store, call[q].token)
      BY <3>2, <3>3 DEF Becomes, SameRows, SameLogin, IsToken, AccessInv, AccessTyped
    <3> QED
      BY <3>1, <3>2, <3>4 DEF AccessInv, FlightsInv
  <2>2. \A d \in deaf : call'[d].at # "idle"
    BY <1>1 DEF Becomes, AccessInv, FlightsInv, AccessTyped
  <2> QED
    BY <2>1, <2>2 DEF AccessInv, FlightsInv, Becomes, Unanswered, SameLogin
<1> QED
  BY <1>2, <1>3

LEMMA BecomesKeepsChains ==
    ASSUME AccessInv, NEW c \in Calls, NEW r \in Call, Becomes(c, r)
    PROVE  ChainsInv'
<1>1. call'[c] = r /\ \A d \in Calls \ {c} : call'[d] = call[d]
  BY OneRequest DEF AccessInv, AccessTyped, Becomes
<1>2. /\ \A n : Live(n)' => Live(n)
      /\ \A m, n \in DOMAIN sessions : SameLogin(m, n)' <=> SameLogin(m, n)
      /\ \A x : Carries(x) /\ Knows(x) /\ Spends(x) => Spends(x)'
  BY KnowledgeIsKept DEF AccessInv, AccessTyped, Becomes
<1> SUFFICES ASSUME ~abandoned
             PROVE  /\ \A m, n \in DOMAIN sessions' : Live(m)' /\ Live(n)' /\ SameLogin(m, n)' => m = n
                    /\ \A d \in Calls : call'[d].op = "refresh" => d \in flights /\ Spends(call[d])'
  BY DEF ChainsInv, Becomes
<1>3. \A m, n \in DOMAIN sessions' : Live(m)' /\ Live(n)' /\ SameLogin(m, n)' => m = n
  BY <1>2 DEF AccessInv, ChainsInv, Becomes, SameRows
<1>4. ASSUME NEW d \in Calls, NEW x, x = call'[d], x.op = "refresh"
      PROVE  d \in flights /\ Spends(x)'
  <2>1. CASE d = c
    BY <1>1, <1>4, <2>1 DEF AccessInv, ChainsInv, Becomes
  <2>2. CASE d # c
    <3>1. x = call[d]
      BY <1>1, <1>4, <2>2
    <3>2. d \in flights /\ Spends(x) /\ Knows(x)
      BY <1>4, <3>1 DEF AccessInv, ChainsInv, CallsInv
    <3>3. x.at = "failed" => Spends(x)'
      BY DEF Spends
    <3> QED
      BY <1>2, <1>4, <3>2, <3>3 DEF Carries
  <2> QED
    BY <2>1, <2>2
<1> QED
  BY <1>3, <1>4 DEF Spends, Live, SameLogin

LEMMA RowsKeepWallets ==
    ASSUME WalletsInv, SameRows, moved \subseteq moved'
    PROVE  WalletsInv'
BY DEF WalletsInv, SameRows

LEMMA BecomesKeeps ==
    ASSUME AccessInv, NEW c \in Calls, NEW r \in Call, Becomes(c, r)
    PROVE  AccessInv'
<1>1. CallsInv' /\ FreshLogins' /\ FlightsInv' /\ ChainsInv'
  BY BecomesKeepsCalls, BecomesKeepsTokens, BecomesKeepsChains
<1>2. OwnersInv' /\ WalletsInv'
  BY RowsKeepWallets DEF Becomes, AccessInv
<1>3. AccessTyped'
  <2>1. call' \in [Calls -> Call]
    BY OneRequest DEF AccessInv, AccessTyped, Becomes
  <2> QED
    BY <2>1 DEF AccessInv, AccessTyped, Becomes, SameRows, IsToken
<1> QED
  BY <1>1, <1>2, <1>3 DEF AccessInv

(* The requests stay as they are, and so does what the tab waits for.       *)
LEMMA StillKeeps ==
    ASSUME AccessInv, SameRows, SessionsTyped', PageTyped',
           UNCHANGED <<call, owner, moved, store, flights, deaf, abandoned>>
    PROVE  AccessInv'
<1>1. /\ \A n : Live(n)' => Live(n)
      /\ \A m, n \in DOMAIN sessions : SameLogin(m, n)' <=> SameLogin(m, n)
      /\ \A x : (Knows(x) => Knows(x)') /\ (Placed(x) => Placed(x)')
                /\ (Carries(x) /\ Knows(x) /\ Spends(x) => Spends(x)')
  BY KnowledgeIsKept DEF AccessInv, AccessTyped
<1>2. CallsInv'
  <2>1. \A c \in Calls : Staged(call[c]) /\ Knows(call[c])' /\ Placed(call[c])'
    BY <1>1 DEF AccessInv, CallsInv, Knows, Placed, Carries, LoggedIn, Live, IsToken
  <2> QED
    BY <2>1 DEF CallsInv
<1>3. OwnersInv' /\ WalletsInv'
  BY RowsKeepWallets DEF AccessInv, OwnersInv
<1>4. FreshLogins' /\ FlightsInv'
  <2>1. ASSUME NEW q \in flights, Unanswered(call[q]), store # 0, SameLogin(store, call[q].token)'
        PROVE  SameLogin(store, call[q].token)
    <3>1. q \in Calls /\ call[q].op = "refresh" /\ Knows(call[q])
      BY ClientAssumption DEF AccessInv, AccessTyped, FlightsInv, CallsInv
    <3>2. IsToken(call[q].token) /\ IsToken(store)
      BY <2>1, <3>1 DEF Knows, Carries, Unanswered, AccessInv, AccessTyped
    <3> QED
      BY <2>1, <3>2 DEF SameLogin, SameRows, IsToken
  <2>2. FlightsInv'
    BY <2>1 DEF AccessInv, FlightsInv, SameLogin, Unanswered
  <2> QED
    BY <2>2 DEF AccessInv, FreshLogins, LoggedIn, Carries
<1>5. ChainsInv'
  <2>1. ASSUME ~abandoned, NEW c \in Calls, call[c].op = "refresh"
        PROVE  c \in flights /\ Spends(call[c])'
    <3>1. c \in flights /\ Spends(call[c]) /\ Knows(call[c])
      BY <2>1 DEF AccessInv, ChainsInv, CallsInv
    <3>2. \A x : x = call[c] /\ x.at = "failed" => Spends(x)'
      BY DEF Spends
    <3>3. \A x : x = call[c] => Spends(x)'
      BY <1>1, <2>1, <3>1, <3>2 DEF Carries
    <3> QED
      BY <3>1, <3>3 DEF Spends, Live, SameLogin
  <2>2. ~abandoned => \A m, n \in DOMAIN sessions' :
                          Live(m)' /\ Live(n)' /\ SameLogin(m, n)' => m = n
    BY <1>1 DEF AccessInv, ChainsInv, SameRows
  <2> QED
    BY <2>1, <2>2 DEF ChainsInv
<1>6. AccessTyped'
  BY DEF AccessInv, AccessTyped, SameRows, IsToken
<1> QED
  BY <1>2, <1>3, <1>4, <1>5, <1>6 DEF AccessInv

(* The tab leaves its page: it waits for nothing any more.                  *)
LEMMA LeavingKeeps ==
    ASSUME AccessInv, Unload, PageTyped', store' \in {0, store}, UNCHANGED identityVars
    PROVE  AccessInv'
<1>1. SessionsTyped' /\ CallsInv' /\ OwnersInv' /\ WalletsInv'
  BY DEF AccessInv, AccessTyped, SessionsTyped, CallsInv, OwnersInv, WalletsInv, identityVars,
         Knows, Placed, IsToken, Live
<1>2. AccessTyped'
  BY <1>1 DEF AccessInv, AccessTyped, Unload, identityVars, IsToken
<1>3. FreshLogins'
  <2>1. ASSUME NEW c \in Calls, LoggedIn(call[c])
        PROVE  store' # call[c].token
    <3>1. IsToken(call[c].token)
      BY <2>1 DEF AccessInv, CallsInv, Knows
    <3>2. call[c].token # 0
      BY <3>1, LenProperties DEF AccessInv, AccessTyped, SessionsTyped, IsToken
    <3> QED
      BY <2>1, <3>2 DEF AccessInv, FreshLogins
  <2> QED
    BY <2>1 DEF AccessInv, FreshLogins, LoggedIn, Carries, identityVars
<1>4. FlightsInv'
  BY DEF AccessInv, FlightsInv, Unload, identityVars
<1>5. ChainsInv'
  <2>1. ~abandoned' => ~abandoned /\ flights = {}
    BY DEF Unload
  <2> QED
    BY <2>1 DEF AccessInv, ChainsInv, Unload, identityVars, Live, SameLogin, Spends
<1> QED
  BY <1>1, <1>2, <1>3, <1>4, <1>5 DEF AccessInv

LEMMA BounceKeeps ==
    ASSUME AccessInv, Bounce, UNCHANGED identityVars
    PROVE  AccessInv'
<1>1. PageTyped'
  BY DEF AccessInv, AccessTyped, PageTyped, Bounce, Unload, NoRequest, WebRequest, Places, identityVars
<1> QED
  BY <1>1, LeavingKeeps DEF Bounce

LEMMA LoadKeeps ==
    ASSUME AccessInv, Load
    PROVE  AccessInv'
<1>1. PageTyped'
  <2>1. /\ NoRequest \in WebRequest /\ NoRequest.token = 0 /\ NoRequest.at # "fine"
    BY DEF NoRequest, WebRequest, Places
  <2>2. store # 0 => /\ Sent(store, FALSE) \in WebRequest /\ store \in DOMAIN sessions
                     /\ Sent(store, FALSE).token = store /\ Sent(store, FALSE).at # "fine"
    <3>1. store # 0 => store \in Nat
      BY LenProperties DEF AccessInv, AccessTyped, SessionsTyped, IsToken
    <3> QED
      BY <3>1 DEF Sent, WebRequest, Places, AccessInv, AccessTyped, IsToken
  <2>3. /\ request' \in [Requests -> WebRequest]
        /\ \A q \in Requests : /\ request'[q].token = 0 \/ request'[q].token \in DOMAIN sessions
                              /\ request'[q].at # "fine"
    BY <2>1, <2>2 DEF Load
  <2>4. sessions' = sessions /\ nonces' = nonces /\ user' = NoOne /\ form' \in [Forms -> Nat]
    BY DEF Load, Unload, identityVars
  <2> QED
    BY <2>3, <2>4 DEF AccessInv, AccessTyped, PageTyped, IsToken
<1> QED
  BY <1>1, LeavingKeeps DEF Load

-----------------------------------------------------------------------------
(* The steps of the identity service *)

LEMMA UnchangedPage ==
    ASSUME PageTyped, SameRows, UNCHANGED <<user, request, form>>, nonces' \in Nat
    PROVE  PageTyped'
BY DEF PageTyped, SameRows, IsToken

(* A step within the service: a request goes from one await to the next.    *)
LEMMA WithinService ==
    ASSUME AccessInv, NEW c \in Calls, NEW t \in Call, t = call[c], NEW r \in Call,
           call' = [call EXCEPT ![c] = r], SameRows, SessionsTyped',
           owner' \in [Wallets -> Emails \cup {NoOne}], moved \subseteq moved', OwnersInv',
           UNCHANGED <<nonces, clientVars>>,
           Staged(r), Knows(r)', Placed(r)', ~LoggedIn(r), r.at # "idle", r.op = t.op,
           r.op = "refresh" => /\ ~abandoned => Spends(r)'
                               /\ r.at # "failed" => Unanswered(t) /\ r.token = t.token
    PROVE  AccessInv'
<1>1. PageTyped'
  BY UnchangedPage DEF AccessInv, AccessTyped, PageTyped, clientVars
<1>2. c \in flights => r.op = "refresh"
  BY DEF AccessInv, FlightsInv
<1>3. Becomes(c, r)
  BY <1>1, <1>2 DEF Becomes, clientVars
<1> QED
  BY <1>3, BecomesKeeps

(* What goes unsaid when the request only moves on. *)
LEMMA Onward ==
    ASSUME AccessInv, NEW c \in Calls, NEW t \in Call, t = call[c], NEW r \in Call,
           call' = [call EXCEPT ![c] = r],
           UNCHANGED <<owner, moved, nonces, sessions, clientVars>>,
           Staged(r), Knows(r), Placed(r), ~LoggedIn(r), r.at # "idle", r.op = t.op,
           r.op = "refresh" => /\ ~abandoned => Spends(r)
                               /\ r.at # "failed" => Unanswered(t) /\ r.token = t.token
    PROVE  AccessInv'
<1>1. SessionsTyped' /\ SameRows
  BY UnchangedRows DEF AccessInv, AccessTyped
<1>2. Knows(r)' /\ Placed(r)' /\ (Spends(r) => Spends(r)')
  BY DEF Knows, Placed, Spends, IsToken, Live, SameLogin
<1>3. OwnersInv' /\ owner' \in [Wallets -> Emails \cup {NoOne}]
  BY DEF AccessInv, OwnersInv, AccessTyped
<1> QED
  BY <1>1, <1>2, <1>3, WithinService

LEMMA FailedRequest ==
    ASSUME NEW op \in Ops \ {"none"}, NEW r, r = [[Idle EXCEPT !.op = op] EXCEPT !.at = "failed"]
    PROVE  /\ r \in Call /\ Staged(r) /\ Knows(r) /\ Placed(r) /\ ~LoggedIn(r)
           /\ r.op = op /\ r.at = "failed" /\ Spends(r)
<1>1. r = [op |-> op, at |-> "failed", token |-> 0, email |-> NoOne, wallet |-> NoOne]
  BY DEF Idle
<1> QED
  BY <1>1 DEF Call, Ops, Steps, Staged, Knows, Placed, LoggedIn, Carries, Spends

LEMMA CallTyped ==
    ASSUME AccessInv, NEW c \in Calls, NEW t, t = call[c]
    PROVE  t \in Call /\ Staged(t) /\ Knows(t) /\ Placed(t)
BY DEF AccessInv, AccessTyped, CallsInv

LEMMA FailKeeps ==
    ASSUME AccessInv, NEW c \in Calls, Fail(c), call[c].at # "idle",
           UNCHANGED <<owner, moved, nonces, sessions, clientVars>>
    PROVE  AccessInv'
<1>1. PICK t : t = call[c]
  OBVIOUS
<1>2. t \in Call /\ t.op \in Ops \ {"none"}
  BY <1>1, CallTyped DEF Staged, Call
<1>3. PICK r : r = [[Idle EXCEPT !.op = t.op] EXCEPT !.at = "failed"]
  OBVIOUS
<1>4. /\ r \in Call /\ Staged(r) /\ Knows(r) /\ Placed(r) /\ ~LoggedIn(r)
      /\ r.op = t.op /\ r.at = "failed" /\ Spends(r)
  BY <1>2, <1>3, FailedRequest
<1>5. call' = [call EXCEPT ![c] = r]
  BY <1>1, <1>3 DEF Fail
<1> QED
  BY <1>1, <1>2, <1>4, <1>5, Onward

LEMMA GoesOn ==
    ASSUME NEW c, NEW t \in Call, t = call[c], NEW w \in Steps, GoTo(c, w)
    PROVE  \E r \in Call : /\ call' = [call EXCEPT ![c] = r]
                           /\ r.op = t.op /\ r.at = w /\ r.token = t.token
                           /\ r.email = t.email /\ r.wallet = t.wallet
<1>1. PICK r : r = [t EXCEPT !.at = w]
  OBVIOUS
<1>2. /\ r \in Call /\ r.op = t.op /\ r.at = w /\ r.token = t.token
      /\ r.email = t.email /\ r.wallet = t.wallet
  BY <1>1 DEF Call
<1>3. call' = [call EXCEPT ![c] = r]
  BY <1>1 DEF GoTo
<1> QED
  BY <1>2, <1>3

LEMMA CheckPasswordKeeps ==
    ASSUME AccessInv, NEW c \in Calls, CheckPassword(c), UNCHANGED clientVars
    PROVE  AccessInv'
<1>1. PICK t : t = call[c]
  OBVIOUS
<1>2. t \in Call /\ Staged(t) /\ t.op = "login" /\ t.at = "sent"
  BY <1>1, CallTyped DEF CheckPassword
<1>3. UNCHANGED <<owner, moved, nonces, sessions, clientVars>>
  BY DEF CheckPassword
<1>4. CASE Fail(c)
  BY <1>1, <1>2, <1>3, <1>4, FailKeeps
<1>5. ASSUME NEW w \in {"refused", "issue"}, GoTo(c, w)
      PROVE  AccessInv'
  <2>1. PICK r \in Call : /\ call' = [call EXCEPT ![c] = r]
                          /\ r.op = t.op /\ r.at = w /\ r.token = t.token
                          /\ r.email = t.email /\ r.wallet = t.wallet
    BY <1>1, <1>2, <1>5, GoesOn DEF Steps
  <2>2. Staged(r) /\ Knows(r) /\ Placed(r) /\ ~LoggedIn(r)
    BY <1>2, <1>5, <2>1 DEF Staged, Knows, Placed, LoggedIn, Carries
  <2> QED
    BY <1>1, <1>2, <1>3, <1>5, <2>1, <2>2, Onward
<1> QED
  BY <1>4, <1>5 DEF CheckPassword

LEMMA FindSessionKeeps ==
    ASSUME AccessInv, NEW c \in Calls, FindSession(c), UNCHANGED clientVars
    PROVE  AccessInv'
<1>1. PICK t : t = call[c]
  OBVIOUS
<1>2. t \in Call /\ Staged(t) /\ Knows(t) /\ t.op = "refresh" /\ t.at = "sent"
  BY <1>1, CallTyped DEF FindSession
<1>3. UNCHANGED <<owner, moved, nonces, sessions, clientVars>>
  BY DEF FindSession
<1>4. CASE ~Live(t.token)
  <2>1. PICK r \in Call : /\ call' = [call EXCEPT ![c] = r]
                          /\ r.op = t.op /\ r.at = "refused" /\ r.token = t.token
                          /\ r.email = t.email /\ r.wallet = t.wallet
    BY <1>1, <1>2, <1>4, GoesOn DEF Steps, FindSession
  <2>2. Staged(r) /\ Knows(r) /\ Placed(r) /\ ~LoggedIn(r) /\ Spends(r)
    BY <1>2, <1>4, <2>1 DEF Staged, Knows, Placed, LoggedIn, Carries, Spends
  <2> QED
    BY <1>1, <1>2, <1>3, <2>1, <2>2, Onward DEF Unanswered
<1>5. CASE Live(t.token)
  <2>1. PICK e : e = sessions[t.token].user
    OBVIOUS
  <2>2. t.token \in DOMAIN sessions /\ e \in Emails
    BY <1>5, <2>1, RowTyped DEF Live, AccessInv, AccessTyped
  <2>3. call' = [call EXCEPT ![c].at = "found", ![c].email = e]
    BY <1>1, <1>5, <2>1 DEF FindSession
  <2>4. PICK r : r = [[t EXCEPT !.at = "found"] EXCEPT !.email = e]
    OBVIOUS
  <2>5. /\ r \in Call /\ call' = [call EXCEPT ![c] = r]
        /\ r.op = t.op /\ r.at = "found" /\ r.token = t.token
        /\ r.email = e /\ r.wallet = t.wallet
    <3>1. call' = [call EXCEPT ![c] = r]
      BY <1>1, <2>3, <2>4
    <3>2. /\ r \in Call /\ r.op = t.op /\ r.at = "found" /\ r.token = t.token
          /\ r.email = e /\ r.wallet = t.wallet
      BY <1>2, <2>2, <2>4 DEF Call, Steps
    <3> QED
      BY <3>1, <3>2
  <2>6. Staged(r) /\ Knows(r) /\ Placed(r) /\ ~LoggedIn(r)
    BY <1>2, <2>1, <2>2, <2>5 DEF Staged, Knows, Placed, LoggedIn, Carries, IsToken
  <2>7. ~abandoned => Spends(r)
    BY <1>5, <2>2, <2>5 DEF AccessInv, ChainsInv, Spends
  <2> QED
    BY <1>1, <1>2, <1>3, <2>5, <2>6, <2>7, Onward DEF Unanswered
<1> QED
  BY <1>4, <1>5 DEF FindSession

LEMMA RevokeOldKeeps ==
    ASSUME AccessInv, NEW c \in Calls, RevokeOld(c), UNCHANGED clientVars
    PROVE  AccessInv'
<1>1. PICK t : t = call[c]
  OBVIOUS
<1>2. /\ t \in Call /\ Staged(t) /\ Knows(t) /\ t.op = "refresh" /\ t.at = "found"
      /\ ~abandoned => Spends(t)
  BY <1>1, CallTyped DEF RevokeOld, AccessInv, ChainsInv
<1>3. UNCHANGED <<owner, moved, nonces, clientVars>> /\ GoTo(c, "issue")
  BY DEF RevokeOld
<1>4. PICK r \in Call : /\ call' = [call EXCEPT ![c] = r]
                        /\ r.op = t.op /\ r.at = "issue" /\ r.token = t.token
                        /\ r.email = t.email /\ r.wallet = t.wallet
  BY <1>1, <1>2, <1>3, GoesOn DEF Steps
<1>5. sessions' = [sessions EXCEPT ![t.token].live = FALSE]
  BY <1>1 DEF RevokeOld, Revoked
<1>6. SessionsTyped' /\ SameRows /\ ~Live(t.token)'
  BY <1>5, RevokeKeepsRows DEF AccessInv, AccessTyped
<1>7. IsToken(t.token) /\ t.email = sessions[t.token].user /\ t.email \in Emails
  BY <1>2, RowTyped DEF Knows, Carries, IsToken, AccessInv, AccessTyped
<1>8. Staged(r) /\ Knows(r)' /\ Placed(r)' /\ ~LoggedIn(r)
  BY <1>2, <1>4, <1>6, <1>7 DEF Staged, Knows, Placed, LoggedIn, Carries, IsToken, SameRows
<1>9. ~abandoned => Spends(r)'
  <2>1. /\ \A n : Live(n)' => Live(n)
        /\ \A m, n \in DOMAIN sessions : SameLogin(m, n)' <=> SameLogin(m, n)
    BY <1>6 DEF SameRows, Live, SameLogin
  <2> QED
    BY <1>2, <1>4, <1>6, <1>7, <2>1 DEF Spends, SameRows, IsToken
<1>10. OwnersInv' /\ owner' \in [Wallets -> Emails \cup {NoOne}]
  BY <1>3 DEF AccessInv, OwnersInv, AccessTyped
<1> QED
  BY <1>1, <1>2, <1>3, <1>4, <1>6, <1>8, <1>9, <1>10, WithinService DEF Unanswered

LEMMA LogoutKeeps ==
    ASSUME AccessInv, NEW c \in Calls, Logout(c), UNCHANGED clientVars
    PROVE  AccessInv'
<1>1. PICK t : t = call[c]
  OBVIOUS
<1>2. t \in Call /\ Staged(t) /\ t.op = "logout" /\ t.at = "sent"
  BY <1>1, CallTyped DEF Logout
<1>3. UNCHANGED <<owner, moved, nonces, clientVars>> /\ GoTo(c, "ok")
  BY DEF Logout
<1>4. PICK r \in Call : /\ call' = [call EXCEPT ![c] = r]
                        /\ r.op = t.op /\ r.at = "ok" /\ r.token = t.token
                        /\ r.email = t.email /\ r.wallet = t.wallet
  BY <1>1, <1>2, <1>3, GoesOn DEF Steps
<1>5. sessions' = [sessions EXCEPT ![t.token].live = FALSE]
  BY <1>1 DEF Logout
<1>6. SessionsTyped' /\ SameRows
  BY <1>5, RevokeKeepsRows DEF AccessInv, AccessTyped
<1>7. Staged(r) /\ Knows(r)' /\ Placed(r)' /\ ~LoggedIn(r)
  BY <1>2, <1>4 DEF Staged, Knows, Placed, LoggedIn, Carries
<1>8. OwnersInv' /\ owner' \in [Wallets -> Emails \cup {NoOne}]
  BY <1>3 DEF AccessInv, OwnersInv, AccessTyped
<1> QED
  BY <1>1, <1>2, <1>3, <1>4, <1>6, <1>7, <1>8, WithinService

(* The steps of a log-in by wallet, of a registration and of a connection   *)
(* that only move the request on.                                           *)
LEMMA FormMovesOn ==
    ASSUME AccessInv, NEW c \in Calls, NEW t \in Call, t = call[c], NEW w \in Steps \ {"idle"},
           GoTo(c, w), UNCHANGED <<owner, moved, nonces, sessions, clientVars>>,
           t.op \in {"login", "walletLogin", "register", "connect"},
           NEW r, r = [t EXCEPT !.at = w],
           Staged(r), Placed(r), ~LoggedIn(r)
    PROVE  AccessInv'
<1>1. r \in Call /\ r.op = t.op /\ r.at = w
  BY DEF Call
<1>2. call' = [call EXCEPT ![c] = r]
  BY DEF GoTo
<1>3. Knows(r)
  BY <1>1 DEF Knows, Carries
<1> QED
  BY <1>1, <1>2, <1>3, Onward

LEMMA SpendChallengeKeeps ==
    ASSUME AccessInv, NEW c \in Calls, SpendChallenge(c), UNCHANGED clientVars
    PROVE  AccessInv'
<1>1. PICK t : t = call[c]
  OBVIOUS
<1>2. t \in Call /\ Staged(t) /\ t.op = "walletLogin" /\ t.at = "sent"
  BY <1>1, CallTyped DEF SpendChallenge
<1>3. UNCHANGED <<owner, moved, nonces, sessions, clientVars>>
  BY DEF SpendChallenge
<1>4. PICK w \in {"spent", "refused"} : GoTo(c, w)
  BY DEF SpendChallenge
<1>5. PICK r : r = [t EXCEPT !.at = w]
  OBVIOUS
<1>6. Staged(r) /\ Placed(r) /\ ~LoggedIn(r) /\ w \in Steps \ {"idle"}
  BY <1>2, <1>4, <1>5 DEF Staged, Placed, LoggedIn, Call, Steps
<1> QED
  BY <1>1, <1>2, <1>3, <1>4, <1>5, <1>6, FormMovesOn

LEMMA FindByWalletKeeps ==
    ASSUME AccessInv, NEW c \in Calls, FindByWallet(c), UNCHANGED clientVars
    PROVE  AccessInv'
<1>1. PICK t : t = call[c]
  OBVIOUS
<1>2. t \in Call /\ Staged(t) /\ t.op = "walletLogin" /\ t.at = "spent" /\ t.wallet \in Wallets
  BY <1>1, CallTyped DEF FindByWallet, Staged
<1>3. UNCHANGED <<owner, moved, nonces, sessions, clientVars>>
  BY DEF FindByWallet
<1>4. CASE GoTo(c, "unknown")
  <2>1. PICK r : r = [t EXCEPT !.at = "unknown"]
    OBVIOUS
  <2>2. Staged(r) /\ Placed(r) /\ ~LoggedIn(r) /\ "unknown" \in Steps \ {"idle"}
    BY <1>2, <2>1 DEF Staged, Placed, LoggedIn, Call, Steps
  <2> QED
    BY <1>1, <1>2, <1>3, <1>4, <2>1, <2>2, FormMovesOn
<1>5. CASE Fail(c)
  BY <1>1, <1>2, <1>3, <1>5, FailKeeps
<1>6. ASSUME NEW e, e = owner[t.wallet], e # NoOne,
             call' = [call EXCEPT ![c].at = "role", ![c].email = e]
      PROVE  AccessInv'
  <2>1. e \in Emails /\ (t.wallet \in moved \/ e = Placeholder[t.wallet])
    BY <1>2, <1>6 DEF AccessInv, AccessTyped, OwnersInv
  <2>2. PICK r : r = [[t EXCEPT !.at = "role"] EXCEPT !.email = e]
    OBVIOUS
  <2>3. call' = [call EXCEPT ![c] = r]
    BY <1>1, <1>6, <2>2
  <2>4. /\ r \in Call /\ r.op = t.op /\ r.at = "role" /\ r.token = t.token
        /\ r.email = e /\ r.wallet = t.wallet
    BY <1>2, <2>1, <2>2 DEF Call, Steps
  <2>5. Staged(r) /\ Knows(r) /\ Placed(r) /\ ~LoggedIn(r)
    BY <1>2, <2>1, <2>4 DEF Staged, Knows, Placed, LoggedIn, Carries
  <2> QED
    BY <1>1, <1>2, <1>3, <2>3, <2>4, <2>5, Onward
<1> QED
  BY <1>1, <1>4, <1>5, <1>6 DEF FindByWallet

LEMMA FindOtherOwnerKeeps ==
    ASSUME AccessInv, NEW c \in Calls, FindOtherOwner(c), UNCHANGED clientVars
    PROVE  AccessInv'
<1>1. PICK t : t = call[c]
  OBVIOUS
<1>2. t \in Call /\ Staged(t) /\ t.op = "connect" /\ t.at = "sent"
  BY <1>1, CallTyped DEF FindOtherOwner
<1>3. UNCHANGED <<owner, moved, nonces, sessions, clientVars>>
  BY DEF FindOtherOwner
<1>4. CASE GoTo(c, "link")
  <2>1. PICK r : r = [t EXCEPT !.at = "link"]
    OBVIOUS
  <2>2. Staged(r) /\ Placed(r) /\ ~LoggedIn(r) /\ "link" \in Steps \ {"idle"}
    BY <1>2, <2>1 DEF Staged, Placed, LoggedIn, Call, Steps
  <2> QED
    BY <1>1, <1>2, <1>3, <1>4, <2>1, <2>2, FormMovesOn
<1>5. CASE Fail(c)
  BY <1>1, <1>2, <1>3, <1>5, FailKeeps
<1> QED
  BY <1>4, <1>5 DEF FindOtherOwner

LEMMA FindByEmailKeeps ==
    ASSUME AccessInv, NEW c \in Calls, FindByEmail(c), UNCHANGED clientVars
    PROVE  AccessInv'
<1>1. PICK t : t = call[c]
  OBVIOUS
<1>2. /\ t \in Call /\ Staged(t)
      /\ \/ t.op = "register" /\ t.at = "sent"
         \/ t.op = "walletLogin" /\ t.at = "unknown"
  BY <1>1, CallTyped DEF FindByEmail, Staged
<1>3. UNCHANGED <<owner, moved, nonces, sessions, clientVars>>
  BY DEF FindByEmail
<1>4. PICK e : e = IF t.op = "register" THEN t.email ELSE Placeholder[t.wallet]
  OBVIOUS
<1>5. e \in Emails
  BY <1>2, <1>4, IdentityAssumption DEF Staged
<1>6. CASE Fail(c)
  BY <1>1, <1>2, <1>3, <1>6, FailKeeps
<1>7. ASSUME NEW w \in {"create", "link"}, w = "link" => t.op = "walletLogin",
             call' = [call EXCEPT ![c].at = w, ![c].email = e]
      PROVE  AccessInv'
  <2>1. PICK r : r = [[t EXCEPT !.at = w] EXCEPT !.email = e]
    OBVIOUS
  <2>2. call' = [call EXCEPT ![c] = r]
    BY <1>1, <1>7, <2>1
  <2>3. /\ r \in Call /\ r.op = t.op /\ r.at = w /\ r.token = t.token
        /\ r.email = e /\ r.wallet = t.wallet
    BY <1>2, <1>5, <1>7, <2>1 DEF Call, Steps
  <2>4. Staged(r) /\ Knows(r) /\ Placed(r) /\ ~LoggedIn(r)
    BY <1>2, <1>4, <1>5, <1>7, <2>3 DEF Staged, Knows, Placed, LoggedIn, Carries
  <2> QED
    BY <1>1, <1>2, <1>3, <1>7, <2>2, <2>3, <2>4, Onward
<1>8. \/ Fail(c)
      \/ call' = [call EXCEPT ![c].at = "create", ![c].email = e]
      \/ t.op # "register" /\ call' = [call EXCEPT ![c].at = "link", ![c].email = e]
  BY <1>1, <1>4 DEF FindByEmail, EmailFor
<1> QED
  BY <1>2, <1>6, <1>7, <1>8

LEMMA CreateAccountKeeps ==
    ASSUME AccessInv, NEW c \in Calls, CreateAccount(c), UNCHANGED clientVars
    PROVE  AccessInv'
<1>1. PICK t : t = call[c]
  OBVIOUS
<1>2. /\ t \in Call /\ Staged(t) /\ Placed(t) /\ t.at = "create"
      /\ t.op \in {"walletLogin", "register"}
  BY <1>1, CallTyped DEF CreateAccount, Staged
<1>3. UNCHANGED <<owner, moved, nonces, sessions, clientVars>>
  BY DEF CreateAccount
<1>4. CASE Fail(c)
  BY <1>1, <1>2, <1>3, <1>4, FailKeeps
<1>5. ASSUME NEW w \in {"ok", "link"}, GoTo(c, w), w = "ok" <=> t.wallet = NoOne
      PROVE  AccessInv'
  <2>1. PICK r : r = [t EXCEPT !.at = w]
    OBVIOUS
  <2>2. Staged(r) /\ Placed(r) /\ ~LoggedIn(r) /\ w \in Steps \ {"idle"}
    BY <1>2, <1>5, <2>1, IdentityAssumption DEF Staged, Placed, LoggedIn, Call, Steps
  <2> QED
    BY <1>1, <1>2, <1>3, <1>5, <2>1, <2>2, FormMovesOn
<1> QED
  BY <1>1, <1>4, <1>5 DEF CreateAccount

LEMMA GrantRoleKeeps ==
    ASSUME AccessInv, NEW c \in Calls, GrantRole(c), UNCHANGED clientVars
    PROVE  AccessInv'
<1>1. PICK t : t = call[c]
  OBVIOUS
<1>2. /\ t \in Call /\ Staged(t) /\ Placed(t) /\ t.at = "role" /\ t.op = "walletLogin"
  BY <1>1, CallTyped DEF GrantRole, Staged
<1>3. UNCHANGED <<owner, moved, nonces, sessions, clientVars>> /\ GoTo(c, "issue")
  BY DEF GrantRole
<1>4. PICK r : r = [t EXCEPT !.at = "issue"]
  OBVIOUS
<1>5. Staged(r) /\ Placed(r) /\ ~LoggedIn(r) /\ "issue" \in Steps \ {"idle"}
  BY <1>2, <1>4 DEF Staged, Placed, LoggedIn, Call, Steps
<1> QED
  BY <1>1, <1>2, <1>3, <1>4, <1>5, FormMovesOn

(* A log-in by wallet links its wallet to the automatic account; others     *)
(* claim the wallet for good.                                               *)
LEMMA LinkWalletKeeps ==
    ASSUME AccessInv, NEW c \in Calls, LinkWallet(c), UNCHANGED clientVars
    PROVE  AccessInv'
<1>1. PICK t : t = call[c]
  OBVIOUS
<1>2. /\ t \in Call /\ Staged(t) /\ Placed(t) /\ t.at = "link" /\ t.wallet \in Wallets
      /\ t.op \in {"walletLogin", "register", "connect"} /\ t.email \in Emails
  BY <1>1, CallTyped DEF LinkWallet, Staged
<1>3. /\ UNCHANGED <<nonces, sessions, clientVars>>
      /\ owner' = [owner EXCEPT ![t.wallet] = t.email]
      /\ moved' = IF t.op = "walletLogin" THEN moved ELSE moved \cup {t.wallet}
  BY <1>1 DEF LinkWallet
<1>4. owner' \in [Wallets -> Emails \cup {NoOne}] /\ moved \subseteq moved'
  BY <1>2, <1>3 DEF AccessInv, AccessTyped
<1>5. OwnersInv'
  BY <1>2, <1>3 DEF AccessInv, AccessTyped, OwnersInv, Placed
<1>6. SessionsTyped' /\ SameRows
  BY <1>3, UnchangedRows DEF AccessInv, AccessTyped
<1>7. ASSUME NEW r \in Call, call' = [call EXCEPT ![c] = r], r.op = t.op, r.at # "idle",
             Staged(r), Placed(r)', ~LoggedIn(r)
      PROVE  AccessInv'
  <2>1. Knows(r)' /\ r.op # "refresh"
    BY <1>2, <1>7 DEF Knows, Carries, LoggedIn
  <2> QED
    BY <1>1, <1>2, <1>3, <1>4, <1>5, <1>6, <1>7, <2>1, WithinService
<1>8. CASE Fail(c)
  <2>1. PICK r : r = [[Idle EXCEPT !.op = t.op] EXCEPT !.at = "failed"]
    OBVIOUS
  <2>2. r \in Call /\ Staged(r) /\ ~LoggedIn(r) /\ r.op = t.op /\ r.at = "failed"
    BY <1>2, <2>1, FailedRequest DEF Ops
  <2>3. Placed(r)'
    BY <2>2 DEF Placed
  <2>4. call' = [call EXCEPT ![c] = r]
    BY <1>1, <1>8, <2>1 DEF Fail
  <2> QED
    BY <1>7, <2>2, <2>3, <2>4
<1>9. ASSUME NEW w \in {"ok", "role"}, GoTo(c, w), w = "role" <=> t.op = "walletLogin"
      PROVE  AccessInv'
  <2>1. PICK r \in Call : /\ call' = [call EXCEPT ![c] = r]
                          /\ r.op = t.op /\ r.at = w /\ r.token = t.token
                          /\ r.email = t.email /\ r.wallet = t.wallet
    BY <1>1, <1>2, <1>9, GoesOn DEF Steps
  <2>2. Staged(r) /\ ~LoggedIn(r)
    BY <1>2, <1>9, <2>1 DEF Staged, LoggedIn
  <2>3. Placed(r)'
    BY <1>2, <1>9, <2>1 DEF Placed
  <2> QED
    BY <1>7, <1>9, <2>1, <2>2, <2>3
<1> QED
  BY <1>1, <1>2, <1>8, <1>9 DEF LinkWallet

LEMMA CallFailsKeeps ==
    ASSUME AccessInv, NEW c \in Calls, CallFails(c), UNCHANGED clientVars
    PROVE  AccessInv'
<1>1. Fail(c) /\ call[c].at # "idle" /\ UNCHANGED <<owner, moved, nonces, sessions, clientVars>>
  BY DEF CallFails, InService
<1> QED
  BY <1>1, FailKeeps

-----------------------------------------------------------------------------
(* The step that makes a session, and a restart *)

LEMMA AppendedRow ==
    ASSUME NEW S, NEW s \in Seq(S), NEW e \in S, NEW new, new = Len(s) + 1
    PROVE  /\ Append(s, e) \in Seq(S) /\ new \in Nat \ {0}
           /\ new \notin DOMAIN s /\ DOMAIN Append(s, e) = DOMAIN s \cup {new}
           /\ Append(s, e)[new] = e /\ \A n \in DOMAIN s : Append(s, e)[n] = s[n]
BY AppendProperties, LenProperties

(* The request of c, t before and r after, is given the session new with    *)
(* the row e: of the log-in and the wallet of the session it refreshes, or  *)
(* the first of a log-in of its own.                                        *)
Issues(c, t, r, new, e) ==
    /\ t = call[c] /\ t.at = "issue"
    /\ new \notin DOMAIN sessions /\ DOMAIN sessions' = DOMAIN sessions \cup {new}
    /\ sessions' \in Seq(Session)
    /\ sessions'[new] = e /\ \A n \in DOMAIN sessions : sessions'[n] = sessions[n]
    /\ call' = [call EXCEPT ![c] = r]
    /\ r.op = t.op /\ r.at = "ok" /\ r.token = new
    /\ r.email = t.email /\ r.wallet = t.wallet
    /\ e.user = t.email
    /\ t.op = "refresh" => /\ IsToken(t.token) /\ e.login = sessions[t.token].login
                           /\ e.user = sessions[t.token].user
                           /\ e.wallet = sessions[t.token].wallet
    /\ t.op # "refresh" => /\ e.login = new
                           /\ e.wallet = IF t.op = "walletLogin" THEN t.wallet ELSE NoOne
    /\ UNCHANGED <<owner, moved, nonces, clientVars>>

LEMMA IssuedRow ==
    ASSUME AccessInv, NEW c \in Calls, IssueTokens(c), UNCHANGED clientVars, NEW t, t = call[c]
    PROVE  \E r \in Call, new \in Nat \ {0}, e \in Session : Issues(c, t, r, new, e)
<1>1. t \in Call /\ Staged(t) /\ Knows(t) /\ t.at = "issue"
  BY CallTyped DEF IssueTokens
<1>2. t.email \in Emails /\ (t.op = "walletLogin" => t.wallet \in Wallets)
  BY <1>1 DEF Staged
<1>3. PICK new : new = Len(sessions) + 1
  OBVIOUS
<1>4. PICK e : e = [user   |-> t.email,
                    login  |-> IF t.op = "refresh" THEN sessions[t.token].login ELSE new,
                    wallet |-> IF t.op = "refresh" THEN sessions[t.token].wallet
                               ELSE IF t.op = "walletLogin" THEN t.wallet ELSE NoOne,
                    live   |-> TRUE]
  OBVIOUS
<1>5. PICK r : r = [[t EXCEPT !.at = "ok"] EXCEPT !.token = new]
  OBVIOUS
<1>6. sessions \in Seq(Session)
  BY DEF AccessInv, AccessTyped, SessionsTyped
<1>7. new \in Nat \ {0}
  BY <1>3, <1>6, LenProperties
<1>8. /\ e.user = t.email
      /\ t.op = "refresh" => /\ IsToken(t.token) /\ e.login = sessions[t.token].login
                             /\ e.user = sessions[t.token].user /\ e.wallet = sessions[t.token].wallet
      /\ t.op # "refresh" => e.login = new /\ e.wallet = IF t.op = "walletLogin" THEN t.wallet ELSE NoOne
  BY <1>1, <1>4 DEF Knows, Carries
<1>9. e \in Session
  <2>1. t.op = "refresh" => /\ sessions[t.token].login \in Nat
                            /\ sessions[t.token].wallet \in Wallets \cup {NoOne}
    BY <1>8, RowTyped DEF AccessInv, AccessTyped, IsToken, Session
  <2> QED
    BY <1>2, <1>4, <1>7, <2>1 DEF Session
<1>10. /\ r \in Call /\ r.op = t.op /\ r.at = "ok" /\ r.token = new
       /\ r.email = t.email /\ r.wallet = t.wallet
  BY <1>1, <1>5, <1>7 DEF Call, Steps
<1>11. call' = [call EXCEPT ![c] = r]
  BY <1>3, <1>5 DEF IssueTokens
<1>12. sessions' = Append(sessions, e)
  BY <1>3, <1>4 DEF IssueTokens
<1>13. /\ new \notin DOMAIN sessions /\ DOMAIN sessions' = DOMAIN sessions \cup {new}
       /\ sessions' \in Seq(Session)
       /\ sessions'[new] = e /\ \A n \in DOMAIN sessions : sessions'[n] = sessions[n]
  BY <1>3, <1>6, <1>9, <1>12, AppendedRow
<1>14. UNCHANGED <<owner, moved, nonces, clientVars>>
  BY DEF IssueTokens
<1>15. Issues(c, t, r, new, e)
  BY <1>1, <1>8, <1>10, <1>11, <1>13, <1>14 DEF Issues
<1> QED
  BY <1>7, <1>9, <1>10, <1>15

(* The new session is of no log-in somebody has still to hear of.           *)
LEMMA IssueKeepsCalls ==
    ASSUME AccessInv, NEW c \in Calls, NEW t, NEW r \in Call, NEW new \in Nat \ {0},
           NEW e \in Session, Issues(c, t, r, new, e)
    PROVE  CallsInv'
<1> USE DEF Issues
<1>1. call'[c] = r /\ \A d \in Calls \ {c} : call'[d] = call[d]
  BY OneRequest DEF AccessInv, AccessTyped
<1>2. \A n \in DOMAIN sessions : IsToken(sessions[n].login)
  BY DEF AccessInv, AccessTyped, SessionsTyped
<1>3. Staged(r) /\ Knows(r)' /\ Placed(r)'
  <2>1. Staged(t) /\ t.op \in {"login", "refresh", "walletLogin"}
    BY CallTyped DEF Staged
  <2>2. Staged(r)
    BY <2>1 DEF Staged
  <2>3. Placed(r)'
    BY DEF Placed
  <2>4. t.op # "refresh" => \A n \in DOMAIN sessions' : sessions'[n].login = new <=> n = new
    BY <1>2 DEF IsToken
  <2>5. Knows(r)'
    BY <2>1, <2>4 DEF Knows, Carries, LoggedIn, IsToken
  <2> QED
    BY <2>2, <2>3, <2>5
<1>4. ASSUME NEW d \in Calls \ {c}, NEW x, x = call[d]
      PROVE  Staged(x) /\ Knows(x)' /\ Placed(x)'
  <2>1. Staged(x) /\ Knows(x) /\ Placed(x)
    BY <1>4, CallTyped
  <2>2. LoggedIn(x) => e.login # x.token
    <3>1. LoggedIn(x) /\ t.op = "refresh" => t.token # x.token
      BY <1>4 DEF AccessInv, FreshLogins, Carries
    <3> QED
      BY <1>2, <2>1, <3>1 DEF Knows, IsToken
  <2>3. LoggedIn(x) => \A n \in DOMAIN sessions' : sessions'[n].login = x.token <=> n = x.token
    BY <2>1, <2>2 DEF Knows, IsToken
  <2>4. Knows(x)'
    BY <2>1, <2>3 DEF Knows, Carries, IsToken, Live
  <2> QED
    BY <2>1, <2>4 DEF Placed
<1>5. ASSUME NEW d \in Calls, NEW x, x = call'[d]
      PROVE  Staged(x) /\ Knows(x)' /\ Placed(x)'
  BY <1>1, <1>3, <1>4, <1>5
<1> QED
  BY <1>5 DEF CallsInv, Knows, Placed, Carries, LoggedIn, Live, IsToken

LEMMA IssueKeepsChains ==
    ASSUME AccessInv, NEW c \in Calls, NEW t, NEW r \in Call, NEW new \in Nat \ {0},
           NEW e \in Session, Issues(c, t, r, new, e)
    PROVE  FreshLogins' /\ FlightsInv' /\ ChainsInv'
<1> USE DEF Issues, clientVars
<1>1. call'[c] = r /\ \A d \in Calls \ {c} : call'[d] = call[d]
  BY OneRequest DEF AccessInv, AccessTyped
<1>2. \A n \in DOMAIN sessions : IsToken(sessions[n].login)
  BY DEF AccessInv, AccessTyped, SessionsTyped
<1>3. \A d \in Calls : Knows(call[d]) /\ Staged(call[d])
  BY DEF AccessInv, CallsInv
<1>4. store # new
  BY DEF AccessInv, AccessTyped, IsToken
<1>5. FreshLogins'
  <2>1. \A d \in Calls \ {c} : LoggedIn(call[d]) \/ Carries(call[d]) => call[d].token # new
    BY <1>3 DEF Knows, IsToken
  <2> QED
    BY <1>1, <1>4, <2>1 DEF AccessInv, FreshLogins, LoggedIn, Carries
<1>6. FlightsInv'
  <2>1. ASSUME NEW q \in flights, NEW x, x = call'[q]
        PROVE  /\ q \notin deaf /\ x.op = "refresh"
               /\ Unanswered(x) /\ store # 0 /\ SameLogin(store, x.token)' => store = x.token
    <3>1. q \in Calls /\ q \notin deaf /\ call[q].op = "refresh"
      BY ClientAssumption DEF AccessInv, AccessTyped, FlightsInv
    <3>2. CASE q = c
      BY <1>1, <2>1, <3>1, <3>2 DEF Unanswered
    <3>3. CASE q # c
      <4>1. x = call[q]
        BY <1>1, <2>1, <3>1, <3>3
      <4>2. Unanswered(x) /\ store # 0 => IsToken(x.token) /\ IsToken(store)
        BY <1>3, <3>1, <4>1 DEF Knows, Carries, Unanswered, AccessInv, AccessTyped
      <4> QED
        BY <3>1, <4>1, <4>2 DEF AccessInv, FlightsInv, SameLogin, IsToken
    <3> QED
      BY <3>2, <3>3
  <2>2. \A d \in deaf : call'[d].at # "idle"
    BY <1>1 DEF AccessInv, FlightsInv, AccessTyped
  <2> QED
    BY <2>1, <2>2 DEF AccessInv, FlightsInv, Unanswered, SameLogin
<1>7. ChainsInv'
  <2> SUFFICES ASSUME ~abandoned
               PROVE  /\ \A m, n \in DOMAIN sessions' : Live(m)' /\ Live(n)' /\ SameLogin(m, n)' => m = n
                      /\ \A d \in Calls : call'[d].op = "refresh" => d \in flights /\ Spends(call[d])'
    BY DEF ChainsInv
  <2>1. \A n \in DOMAIN sessions : Live(n)' /\ sessions[n].login = e.login => FALSE
    <3>1. t.op # "refresh" => \A n \in DOMAIN sessions : sessions[n].login # e.login
      BY <1>2 DEF IsToken
    <3>2. t.op = "refresh" => Spends(t)
      BY DEF AccessInv, ChainsInv
    <3> QED
      BY <3>1, <3>2 DEF Spends, Live, SameLogin
  <2>2. \A m, n \in DOMAIN sessions' : Live(m)' /\ Live(n)' /\ SameLogin(m, n)' => m = n
    BY <2>1 DEF AccessInv, ChainsInv, Live, SameLogin
  <2>3. ASSUME NEW d \in Calls, NEW x, x = call'[d], x.op = "refresh"
        PROVE  d \in flights /\ Spends(x)'
    <3>1. CASE d = c
      BY <1>1, <2>3, <3>1 DEF AccessInv, ChainsInv, Spends
    <3>2. CASE d # c
      <4>1. x = call[d] /\ d \in flights /\ Spends(x) /\ Knows(x)
        BY <1>1, <1>3, <2>3, <3>2 DEF AccessInv, ChainsInv
      <4>2. t.op # "refresh"
        BY <3>2, <4>1 DEF AccessInv, ChainsInv, FlightsInv
      <4>3. x.at \in {"found", "issue"} => IsToken(x.token) /\ sessions[x.token].login # new
        BY <1>2, <2>3, <4>1 DEF Knows, Carries, IsToken
      <4> QED
        BY <4>1, <4>2, <4>3 DEF Spends, Live, SameLogin, IsToken
    <3> QED
      BY <3>1, <3>2
  <2> QED
    BY <2>2, <2>3 DEF Spends, Live, SameLogin
<1> QED
  BY <1>5, <1>6, <1>7

LEMMA IssueTokensKeeps ==
    ASSUME AccessInv, NEW c \in Calls, IssueTokens(c), UNCHANGED clientVars
    PROVE  AccessInv'
<1>1. PICK t : t = call[c]
  OBVIOUS
<1>2. t \in Call /\ Staged(t) /\ Placed(t) /\ t.at = "issue"
  BY <1>1, CallTyped DEF IssueTokens
<1>3. UNCHANGED <<owner, moved, nonces, clientVars>>
  BY DEF IssueTokens
<1>4. PICK r \in Call, new \in Nat \ {0}, e \in Session : Issues(c, t, r, new, e)
  BY <1>1, IssuedRow
<1>5. CallsInv'
  BY <1>4, IssueKeepsCalls
<1>6. FreshLogins' /\ FlightsInv' /\ ChainsInv'
  BY <1>4, IssueKeepsChains
<1>7. WalletsInv'
  <2>1. e.wallet # NoOne /\ e.wallet \notin moved => e.user = Placeholder[e.wallet]
    BY <1>2, <1>4 DEF Issues, Placed, AccessInv, WalletsInv, IsToken
  <2> QED
    BY <1>3, <1>4, <2>1 DEF Issues, AccessInv, WalletsInv
<1>8. SessionsTyped'
  BY <1>4 DEF Issues, AccessInv, AccessTyped, SessionsTyped, IsToken
<1>9. AccessTyped'
  <2>1. call' \in [Calls -> Call]
    BY <1>4, OneRequest DEF Issues, AccessInv, AccessTyped
  <2>2. PageTyped'
    BY <1>3, <1>4 DEF Issues, AccessInv, AccessTyped, PageTyped, IsToken, clientVars
  <2> QED
    BY <1>3, <1>4, <1>8, <2>1, <2>2 DEF Issues, AccessInv, AccessTyped, IsToken, clientVars
<1> QED
  BY <1>3, <1>5, <1>6, <1>7, <1>9 DEF AccessInv, OwnersInv

LEMMA RestartKeeps ==
    ASSUME AccessInv, Restart, UNCHANGED clientVars
    PROVE  AccessInv'
<1>1. UNCHANGED <<owner, moved, nonces, sessions, clientVars>>
  BY DEF Restart
<1>2. ASSUME NEW c \in Calls, NEW x, x = call'[c]
      PROVE  /\ x \in Call /\ Staged(x) /\ Knows(x) /\ Placed(x)
             /\ x = call[c] \/ (x.op = call[c].op /\ x.at = "failed")
  <2>1. PICK t : t = call[c]
    OBVIOUS
  <2>2. t \in Call /\ Staged(t) /\ Knows(t) /\ Placed(t)
    BY <2>1, CallTyped
  <2>3. CASE ~InService(c)
    BY <1>2, <2>1, <2>2, <2>3 DEF Restart
  <2>4. CASE InService(c)
    <3>1. x = [[Idle EXCEPT !.op = t.op] EXCEPT !.at = "failed"]
      BY <1>2, <2>1, <2>4 DEF Restart
    <3>2. t.op \in Ops \ {"none"}
      BY <2>1, <2>2, <2>4 DEF Staged, Call, InService
    <3> QED
      BY <2>1, <3>1, <3>2, FailedRequest
  <2> QED
    BY <2>3, <2>4
<1>3. AccessTyped'
  <2>1. call' \in [Calls -> Call]
    BY <1>2 DEF Restart
  <2> QED
    BY <1>1, <2>1 DEF AccessInv, AccessTyped, SessionsTyped, PageTyped, IsToken, clientVars
<1>4. CallsInv' /\ OwnersInv' /\ WalletsInv'
  BY <1>1, <1>2 DEF AccessInv, CallsInv, OwnersInv, WalletsInv, Knows, Placed, IsToken, Live, Carries, LoggedIn
<1>5. FreshLogins' /\ FlightsInv'
  <2>1. \A c \in Calls : (LoggedIn(call'[c]) \/ Carries(call'[c])) => call'[c] = call[c]
    BY <1>2 DEF LoggedIn, Carries
  <2>2. FreshLogins'
    BY <1>1, <2>1 DEF AccessInv, FreshLogins, LoggedIn, Carries, clientVars
  <2>3. \A q \in flights : /\ q \notin deaf /\ call'[q].op = "refresh"
                           /\ Unanswered(call'[q]) => call'[q] = call[q]
    BY <1>1, <1>2, ClientAssumption DEF AccessInv, AccessTyped, FlightsInv, Unanswered
  <2>4. \A c \in deaf : call'[c].at # "idle"
    BY <1>2 DEF AccessInv, AccessTyped, FlightsInv
  <2>5. FlightsInv'
    BY <1>1, <2>3, <2>4 DEF AccessInv, FlightsInv, Unanswered, SameLogin, clientVars
  <2> QED
    BY <2>2, <2>5
<1>6. ChainsInv'
  <2>1. ASSUME ~abandoned, NEW c \in Calls, NEW x, x = call'[c], x.op = "refresh"
        PROVE  c \in flights /\ Spends(x)
    <3>1. call[c].op = "refresh" /\ (x = call[c] \/ x.at = "failed")
      BY <1>2, <2>1
    <3> QED
      BY <2>1, <3>1 DEF AccessInv, ChainsInv, Spends
  <2> QED
    BY <1>1, <2>1 DEF AccessInv, ChainsInv, Spends, Live, SameLogin, clientVars
<1> QED
  BY <1>3, <1>4, <1>5, <1>6 DEF AccessInv

-----------------------------------------------------------------------------
(* The steps of the tab that leave the service's requests alone *)

LEMMA RequestMoves ==
    ASSUME PageTyped, NEW q \in Requests, NEW r \in WebRequest,
           request' = [request EXCEPT ![q] = r],
           r.token = 0 \/ IsToken(r.token), r.at = "fine" => r.token # 0,
           user' \in Emails \cup {NoOne}, UNCHANGED <<sessions, nonces, form>>
    PROVE  PageTyped'
<1>1. /\ request' \in [Requests -> WebRequest] /\ request'[q] = r
      /\ \A p \in Requests \ {q} : request'[p] = request[p]
  BY DEF PageTyped
<1>2. \A p \in Requests : /\ request'[p].token = 0 \/ request'[p].token \in DOMAIN sessions
                          /\ request'[p].at = "fine" => request'[p].token # 0
  BY <1>1 DEF PageTyped, IsToken
<1> QED
  BY <1>1, <1>2 DEF PageTyped, IsToken

LEMMA PageStill ==
    ASSUME AccessInv, PageTyped',
           UNCHANGED <<call, sessions, owner, moved, store, flights, deaf, abandoned>>
    PROVE  AccessInv'
<1>1. SessionsTyped' /\ SameRows
  BY UnchangedRows DEF AccessInv, AccessTyped
<1> QED
  BY <1>1, StillKeeps

LEMMA SentTyped ==
    ASSUME AccessInv, NEW n, n = 0 \/ IsToken(n), NEW b \in BOOLEAN, NEW r, r = Sent(n, b)
    PROVE  /\ r \in WebRequest /\ r.token = n /\ r.at = "sent"
           /\ NoRequest \in WebRequest /\ NoRequest.token = 0 /\ NoRequest.at = "idle"
<1>1. n \in Nat
  BY RowTyped DEF AccessInv, AccessTyped, IsToken
<1> QED
  BY <1>1 DEF Sent, NoRequest, WebRequest, Places

LEMMA QueryKeeps ==
    ASSUME AccessInv, NEW q \in Requests, Ask(q) \/ Serve(q) \/ Arrive(q) \/ Drop(q)
    PROVE  AccessInv'
<1>1. UNCHANGED <<call, sessions, owner, moved, nonces, form, store, flights, deaf, abandoned>>
  BY DEF Ask, Serve, Arrive, Drop, identityVars
<1>2. PICK t : t = request[q]
  OBVIOUS
<1>3. /\ t \in WebRequest
      /\ t.token = 0 \/ IsToken(t.token)
      /\ t.at = "fine" => t.token # 0
      /\ user \in Emails \cup {NoOne} /\ PageTyped
  BY <1>2 DEF AccessInv, AccessTyped, PageTyped
<1>4. ASSUME NEW r \in WebRequest, request' = [request EXCEPT ![q] = r],
             r.token = 0 \/ IsToken(r.token), r.at = "fine" => r.token # 0,
             user' \in Emails \cup {NoOne}
      PROVE  AccessInv'
  BY <1>1, <1>3, <1>4, RequestMoves, PageStill
<1>5. CASE Ask(q)
  <2>1. PICK r : r = Sent(store, FALSE)
    OBVIOUS
  <2>2. r \in WebRequest /\ r.token = store /\ r.at = "sent"
    BY <2>1, SentTyped DEF AccessInv, AccessTyped
  <2> QED
    BY <1>3, <1>4, <1>5, <2>1, <2>2 DEF Ask, AccessInv, AccessTyped
<1>6. CASE Serve(q)
  <2>1. CASE Accepts(t.token, expired)
    <3>1. PICK r : r = [t EXCEPT !.at = "fine"]
      OBVIOUS
    <3>2. r \in WebRequest /\ r.token = t.token /\ t.token # 0
      BY <1>3, <2>1, <3>1 DEF WebRequest, Places, Accepts
    <3>3. request' = [request EXCEPT ![q] = r] /\ user' = user
      BY <1>2, <1>6, <2>1, <3>1 DEF Serve
    <3> QED
      BY <1>3, <1>4, <3>2, <3>3
  <2>2. CASE ~Accepts(t.token, expired)
    <3>1. PICK r : r = [[t EXCEPT !.at = "denied"] EXCEPT !.token = 0]
      OBVIOUS
    <3>2. r \in WebRequest /\ r.token = 0 /\ r.at = "denied"
      BY <1>3, <3>1 DEF WebRequest, Places
    <3>3. request' = [request EXCEPT ![q] = r] /\ user' = user
      BY <1>2, <1>6, <2>2, <3>1 DEF Serve
    <3> QED
      BY <1>3, <1>4, <3>2, <3>3
  <2> QED
    BY <2>1, <2>2
<1>7. NoRequest \in WebRequest /\ NoRequest.token = 0 /\ NoRequest.at = "idle"
  BY SentTyped
<1>8. CASE Arrive(q)
  <2>1. sessions[t.token].user \in Emails
    BY <1>2, <1>3, <1>8, RowTyped DEF Arrive, IsToken, AccessInv, AccessTyped
  <2> QED
    BY <1>2, <1>3, <1>4, <1>7, <1>8, <2>1 DEF Arrive
<1>9. CASE Drop(q)
  BY <1>3, <1>4, <1>7, <1>9 DEF Drop
<1> QED
  BY <1>5, <1>6, <1>8, <1>9

LEMMA FormAsksKeeps ==
    ASSUME AccessInv, NEW f \in Forms,
           DeclineToSign(f) \/ \E w \in Wallets : WalletLoginPanel(f, w) \/ AutoSignIn(f, w)
    PROVE  AccessInv'
<1>1. UNCHANGED <<call, sessions, owner, moved, store, flights, deaf, abandoned, user, request>>
  BY DEF DeclineToSign, WalletLoginPanel, AutoSignIn, StartSigning, identityVars
<1>2. nonces' \in Nat /\ form' \in [Forms -> Nat]
  BY DEF DeclineToSign, WalletLoginPanel, AutoSignIn, StartSigning, NewChallenge, identityVars,
         AccessInv, AccessTyped, PageTyped
<1>3. PageTyped'
  BY <1>1, <1>2 DEF AccessInv, AccessTyped, PageTyped, IsToken
<1> QED
  BY <1>1, <1>3, PageStill

(* Steps that only the guards of other steps see.                           *)
LEMMA TimePasses ==
    ASSUME AccessInv,
           \/ UNCHANGED clientVars /\ \E w \in Wallets : ChallengeExpires(w)
           \/ UNCHANGED clientVars /\ \E e \in Emails : Suspend(e)
           \/ \E n : AccessExpires(n)
           \/ Guard
    PROVE  AccessInv'
<1>1. UNCHANGED <<call, sessions, owner, moved, store, flights, deaf, abandoned,
                  nonces, user, request, form>>
  BY DEF ChallengeExpires, Suspend, AccessExpires, Guard, identityVars, clientVars
<1>2. PageTyped'
  BY <1>1 DEF AccessInv, AccessTyped, PageTyped, IsToken
<1> QED
  BY <1>1, <1>2, PageStill

LEMMA SessionExpiresKeeps ==
    ASSUME AccessInv, NEW n, SessionExpires(n), UNCHANGED clientVars
    PROVE  AccessInv'
<1>1. SessionsTyped' /\ SameRows
  BY RevokeKeepsRows DEF SessionExpires, AccessInv, AccessTyped
<1>2. UNCHANGED <<call, owner, moved, nonces, clientVars>>
  BY DEF SessionExpires
<1>3. PageTyped'
  BY <1>1, <1>2, UnchangedPage DEF AccessInv, AccessTyped, PageTyped, clientVars
<1> QED
  BY <1>1, <1>2, <1>3, StillKeeps DEF clientVars

-----------------------------------------------------------------------------
(* The steps of the tab that post requests and hear their answers *)

(* A form posts a request that holds no session of a chain, or is done.     *)
LEMMA FormPosts ==
    ASSUME AccessInv, NEW f \in Forms, NEW r \in Call, call' = [call EXCEPT ![f] = r],
           r.op # "refresh", Staged(r), r.at = "sent" \/ (r.at = "idle" /\ f \notin deaf), PageTyped',
           UNCHANGED <<sessions, owner, moved, store, flights, deaf, abandoned>>
    PROVE  AccessInv'
<1>1. f \in Calls /\ f \notin flights
  BY ClientAssumption DEF AccessInv, AccessTyped
<1>2. SessionsTyped' /\ SameRows
  BY UnchangedRows DEF AccessInv, AccessTyped
<1>3. ~LoggedIn(r) /\ Knows(r)' /\ Placed(r)'
  BY DEF LoggedIn, Knows, Placed, Carries
<1>4. OwnersInv' /\ owner' \in [Wallets -> Emails \cup {NoOne}]
  BY DEF AccessInv, OwnersInv, AccessTyped
<1>5. Becomes(f, r)
  BY <1>1, <1>2, <1>3, <1>4 DEF Becomes
<1> QED
  BY <1>1, <1>5, BecomesKeeps

LEMMA RequestTyped ==
    ASSUME NEW op \in Ops \ {"none", "refresh"}, NEW n \in Nat, NEW e \in Emails \cup {NoOne},
           NEW w \in Wallets \cup {NoOne},
           op \in {"walletLogin", "connect"} => w \in Wallets,
           op \in {"login", "register", "connect"} => e \in Emails,
           NEW r, r = Request(op, n, e, w)
    PROVE  r \in Call /\ Staged(r) /\ r.op = op /\ r.at = "sent" /\ r.op # "refresh"
BY DEF Request, Call, Ops, Steps, Staged

LEMMA IdleTyped ==
    /\ Idle \in Call /\ Staged(Idle) /\ Knows(Idle) /\ Placed(Idle) /\ ~LoggedIn(Idle)
    /\ Idle.op = "none" /\ Idle.at = "idle" /\ Spends(Idle)
BY DEF Idle, Call, Ops, Steps, Staged, Knows, Placed, LoggedIn, Carries, Spends

LEMMA SamePage ==
    ASSUME AccessInv, user' \in Emails \cup {NoOne}, UNCHANGED <<sessions, nonces, request>>,
           form' \in [Forms -> Nat]
    PROVE  PageTyped'
BY DEF AccessInv, AccessTyped, PageTyped, IsToken

LEMMA PostKeeps ==
    ASSUME AccessInv, NEW f \in Forms,
           \/ \E w \in Wallets : Sign(f, w) \/ ConnectWallet(f, w)
           \/ \E e \in Typed : LoginForm(f, e) \/ \E w \in Wallets : RegisterForm(f, e, w)
           \/ SignOut(f)
    PROVE  AccessInv'
<1>1. UNCHANGED <<sessions, owner, moved, nonces, request, store, flights, deaf, abandoned>>
  BY DEF Sign, ConnectWallet, LoginForm, RegisterForm, Submit, SignOut, clientVars
<1>2. form \in [Forms -> Nat] /\ user \in Emails \cup {NoOne} /\ store \in Nat
  BY RowTyped DEF AccessInv, AccessTyped, PageTyped, IsToken
<1>3. form' \in [Forms -> Nat] /\ user' \in Emails \cup {NoOne}
  BY <1>2 DEF Sign, ConnectWallet, LoginForm, RegisterForm, Submit, SignOut, clientVars
<1>4. PageTyped'
  BY <1>1, <1>3, SamePage
<1>5. ASSUME NEW op \in Ops \ {"none", "refresh"}, NEW n \in Nat, NEW e \in Emails \cup {NoOne},
             NEW w \in Wallets \cup {NoOne},
             op \in {"walletLogin", "connect"} => w \in Wallets,
             op \in {"login", "register", "connect"} => e \in Emails,
             call' = [call EXCEPT ![f] = Request(op, n, e, w)]
      PROVE  AccessInv'
  <2>1. PICK r : r = Request(op, n, e, w)
    OBVIOUS
  <2>2. r \in Call /\ Staged(r) /\ r.op = op /\ r.at = "sent" /\ r.op # "refresh"
    BY <1>5, <2>1, RequestTyped
  <2> QED
    BY <1>1, <1>4, <1>5, <2>1, <2>2, FormPosts
<1>6. CASE \E w \in Wallets : Sign(f, w)
  <2>1. PICK w \in Wallets : call' = [call EXCEPT ![f] = Request("walletLogin", form[f], NoOne, w)]
    BY <1>6 DEF Sign
  <2>2. PICK n \in Nat : n = form[f]
    BY <1>2
  <2> QED
    BY <1>5, <2>1, <2>2 DEF Ops
<1>7. CASE \E w \in Wallets : ConnectWallet(f, w)
  <2>1. PICK w \in Wallets : /\ call' = [call EXCEPT ![f] = Request("connect", 0, user, w)]
                             /\ user # NoOne
    BY <1>7 DEF ConnectWallet
  <2> QED
    BY <1>2, <1>5, <2>1 DEF Ops
<1>8. CASE \E e \in Typed : LoginForm(f, e) \/ \E w \in Wallets : RegisterForm(f, e, w)
  <2>1. PICK e \in Typed, w \in Wallets \cup {NoOne}, op \in {"login", "register"} :
            call' = [call EXCEPT ![f] = Request(op, 0, e, w)]
    BY <1>8 DEF LoginForm, RegisterForm, Submit
  <2> QED
    BY <1>5, <2>1, ClientAssumption DEF Ops
<1>9. CASE SignOut(f)
  <2>1. call' = [call EXCEPT ![f] = Request("logout", store, NoOne, NoOne)]
    BY <1>9 DEF SignOut
  <2> QED
    BY <1>2, <1>5, <2>1 DEF Ops
<1> QED
  BY <1>6, <1>7, <1>8, <1>9

(* A request changes while the tab's own state does; the rest of the        *)
(* invariant is about who holds which token.                                *)
LEMMA HandoverKeeps ==
    ASSUME AccessInv, NEW c \in Calls, NEW r \in Call, call' = [call EXCEPT ![c] = r],
           UNCHANGED <<sessions, owner, moved>>, Staged(r), Knows(r), Placed(r), PageTyped',
           store' = 0 \/ store' \in DOMAIN sessions, flights' \subseteq Requests,
           deaf' \subseteq Calls
    PROVE  AccessTyped' /\ CallsInv' /\ OwnersInv' /\ WalletsInv'
<1>1. /\ call' \in [Calls -> Call] /\ call'[c] = r
      /\ \A d \in Calls \ {c} : call'[d] = call[d]
  BY OneRequest DEF AccessInv, AccessTyped
<1>2. AccessTyped'
  BY <1>1, UnchangedRows DEF AccessInv, AccessTyped, IsToken
<1>3. \A d \in Calls : Staged(call'[d]) /\ Knows(call'[d]) /\ Placed(call'[d])
  BY <1>1 DEF AccessInv, CallsInv
<1>4. CallsInv' /\ OwnersInv' /\ WalletsInv'
  BY <1>3 DEF AccessInv, CallsInv, OwnersInv, WalletsInv, Knows, Placed, IsToken, Live, Carries,
              LoggedIn
<1> QED
  BY <1>2, <1>4

LEMMA StartRefreshKeeps ==
    ASSUME AccessInv, NEW q \in Requests, flights = {}, store # 0, call[q].at = "idle",
           call' = [call EXCEPT ![q] = Request("refresh", store, NoOne, NoOne)],
           flights' = flights \cup {q},
           request' = [request EXCEPT ![q].at = "waiting", ![q].retry = TRUE, ![q].leader = q],
           UNCHANGED <<owner, moved, nonces, sessions, store, user, form, deaf, abandoned>>
    PROVE  AccessInv'
<1>1. q \in Calls /\ IsToken(store) /\ store \in Nat
  BY RowTyped, ClientAssumption DEF AccessInv, AccessTyped, IsToken
<1>2. PICK r : r = Request("refresh", store, NoOne, NoOne)
  OBVIOUS
<1>3. /\ r \in Call /\ r.op = "refresh" /\ r.at = "sent" /\ r.token = store
      /\ Staged(r) /\ Knows(r) /\ Placed(r) /\ Spends(r) /\ ~LoggedIn(r)
  BY <1>1, <1>2 DEF Request, Call, Ops, Steps, Staged, Knows, Placed, Spends, Carries, LoggedIn
<1>4. call' = [call EXCEPT ![q] = r] /\ call'[q] = r /\ \A d \in Calls \ {q} : call'[d] = call[d]
  BY <1>1, <1>2, <1>3, OneRequest DEF AccessInv, AccessTyped
<1>5. PageTyped'
  <2>1. PICK t : t = request[q]
    OBVIOUS
  <2>2. t \in WebRequest /\ (t.token = 0 \/ IsToken(t.token)) /\ PageTyped
    BY <2>1 DEF AccessInv, AccessTyped, PageTyped
  <2>3. PICK w : w = [[[t EXCEPT !.at = "waiting"] EXCEPT !.retry = TRUE] EXCEPT !.leader = q]
    OBVIOUS
  <2>4. w \in WebRequest /\ w.token = t.token /\ w.at = "waiting"
    BY <2>2, <2>3 DEF WebRequest, Places
  <2>5. request' = [request EXCEPT ![q] = w]
    BY <2>1, <2>3
  <2>6. user' \in Emails \cup {NoOne}
    BY <2>2 DEF PageTyped
  <2> QED
    BY <2>2, <2>4, <2>5, <2>6, RequestMoves
<1>6. q \notin deaf
  BY DEF AccessInv, FlightsInv
<1>7. AccessTyped' /\ CallsInv' /\ OwnersInv' /\ WalletsInv'
  <2>1. flights' \subseteq Requests /\ deaf' \subseteq Calls /\ store' \in DOMAIN sessions
    BY <1>1 DEF AccessInv, AccessTyped, IsToken
  <2> QED
    BY <1>1, <1>3, <1>4, <1>5, <2>1, HandoverKeeps
<1>8. FreshLogins'
  BY <1>3, <1>4 DEF AccessInv, FreshLogins, LoggedIn, Carries
<1>9. FlightsInv'
  BY <1>1, <1>3, <1>4, <1>6 DEF AccessInv, AccessTyped, FlightsInv
<1>10. ChainsInv'
  <2>1. ASSUME ~abandoned, NEW d \in Calls, NEW x, x = call'[d], x.op = "refresh"
        PROVE  d \in flights' /\ Spends(x)
    BY <1>3, <1>4, <2>1 DEF AccessInv, ChainsInv
  <2> QED
    BY <2>1 DEF AccessInv, ChainsInv, Spends, Live, SameLogin
<1> QED
  BY <1>7, <1>8, <1>9, <1>10 DEF AccessInv

LEMMA DeniedKeeps ==
    ASSUME AccessInv, NEW q \in Requests, Denied(q)
    PROVE  AccessInv'
<1>1. PICK t : t = request[q]
  OBVIOUS
<1>2. t \in WebRequest /\ (t.token = 0 \/ IsToken(t.token)) /\ PageTyped
  BY <1>1 DEF AccessInv, AccessTyped, PageTyped
<1>3. CASE Bounce /\ UNCHANGED identityVars
  BY <1>3, BounceKeeps
<1>4. CASE /\ request' = [request EXCEPT ![q] = NoRequest]
           /\ user' \in {user, NoOne}
           /\ UNCHANGED <<identityVars, store, flights, form, deaf, abandoned>>
  <2>1. NoRequest \in WebRequest /\ NoRequest.token = 0 /\ NoRequest.at = "idle"
    BY SentTyped
  <2>2. PageTyped'
    BY <1>2, <1>4, <2>1, RequestMoves DEF PageTyped, identityVars
  <2> QED
    BY <1>4, <2>2, PageStill DEF identityVars
<1>5. CASE /\ Leaders # {}
           /\ request' = [request EXCEPT ![q].at = "waiting", ![q].retry = TRUE,
                                         ![q].leader = CHOOSE l \in Leaders : TRUE]
           /\ UNCHANGED <<identityVars, store, user, flights, form, deaf, abandoned>>
  <2>1. PICK l : l = CHOOSE k \in Leaders : TRUE
    OBVIOUS
  <2>2. l \in Requests
    BY <1>5, <2>1 DEF Leaders, AccessInv, AccessTyped
  <2>3. PICK w : w = [[[t EXCEPT !.at = "waiting"] EXCEPT !.retry = TRUE] EXCEPT !.leader = l]
    OBVIOUS
  <2>4. w \in WebRequest /\ w.token = t.token /\ w.at = "waiting"
    BY <1>2, <2>2, <2>3 DEF WebRequest, Places
  <2>5. request' = [request EXCEPT ![q] = w]
    BY <1>1, <1>5, <2>1, <2>3
  <2>6. user' \in Emails \cup {NoOne} /\ UNCHANGED <<sessions, nonces, form>>
    BY <1>2, <1>5 DEF PageTyped, identityVars
  <2>7. PageTyped'
    BY <1>2, <2>4, <2>5, <2>6, RequestMoves
  <2> QED
    BY <1>5, <2>7, PageStill DEF identityVars
<1>6. CASE /\ Leaders = {} /\ store # 0 /\ call[q].at = "idle"
           /\ call' = [call EXCEPT ![q] = Request("refresh", store, NoOne, NoOne)]
           /\ flights' = flights \cup {q}
           /\ request' = [request EXCEPT ![q].at = "waiting", ![q].retry = TRUE, ![q].leader = q]
           /\ UNCHANGED <<owner, moved, nonces, sessions, store, user, form, deaf, abandoned>>
  BY <1>6, StartRefreshKeeps DEF Leaders
<1> QED
  BY <1>3, <1>4, <1>5, <1>6 DEF Denied

(* The refreshed tokens are stored: nobody else knew of them.               *)
LEMMA RefreshedKeeps ==
    ASSUME AccessInv, NEW q \in Requests, Refreshed(q)
    PROVE  AccessInv'
<1>1. PICK t : t = call[q]
  OBVIOUS
<1>2. /\ q \in Calls /\ q \in flights /\ t.op = "refresh" /\ t.at = "ok" /\ IsToken(t.token)
      /\ q \notin deaf
  <2>1. q \in Calls /\ q \in flights
    BY ClientAssumption DEF Refreshed
  <2> QED
    BY <1>1, <2>1 DEF Refreshed, AccessInv, FlightsInv, CallsInv, Knows, Carries
<1>3. /\ store' = t.token /\ flights' = flights \ {q} /\ call' = [call EXCEPT ![q] = Idle]
      /\ UNCHANGED <<owner, moved, nonces, sessions, user, form, deaf, abandoned>>
  BY <1>1 DEF Refreshed
<1>4. call'[q] = Idle /\ \A d \in Calls \ {q} : call'[d] = call[d]
  BY <1>2, <1>3, IdleTyped, OneRequest DEF AccessInv, AccessTyped
<1>5. flights' = {}
  BY <1>2, <1>3 DEF AccessInv, FlightsInv
<1>6. PageTyped'
  <2>1. PICK s : s = Sent(t.token, TRUE)
    OBVIOUS
  <2>2. s \in WebRequest /\ s.token = t.token /\ s.at = "sent"
    BY <1>2, <2>1, SentTyped
  <2>3. request' = [r \in Requests |->
           IF request[r].at = "waiting" /\ request[r].leader = q THEN s ELSE request[r]]
    BY <1>1, <2>1 DEF Refreshed
  <2>4. /\ request' \in [Requests -> WebRequest]
        /\ \A r \in Requests : /\ request'[r].token = 0 \/ request'[r].token \in DOMAIN sessions
                               /\ request'[r].at = "fine" => request'[r].token # 0
    BY <1>2, <2>2, <2>3 DEF AccessInv, AccessTyped, PageTyped, IsToken
  <2> QED
    BY <1>3, <2>4 DEF AccessInv, AccessTyped, PageTyped, IsToken
<1>7. AccessTyped' /\ CallsInv' /\ OwnersInv' /\ WalletsInv'
  <2>1. flights' \subseteq Requests /\ deaf' \subseteq Calls /\ store' \in DOMAIN sessions
    BY <1>2, <1>3 DEF AccessInv, AccessTyped, IsToken
  <2> QED
    BY <1>2, <1>3, <1>6, <2>1, IdleTyped, HandoverKeeps
<1>8. FreshLogins'
  <2>1. ~LoggedIn(Idle) /\ ~Carries(Idle)
    BY DEF Idle, LoggedIn, Carries
  <2>2. \A d \in Calls \ {q} : LoggedIn(call[d]) => t.token # call[d].token
    BY <1>1, <1>2 DEF AccessInv, FreshLogins, Carries, LoggedIn
  <2> QED
    BY <1>3, <1>4, <2>1, <2>2 DEF AccessInv, FreshLogins, LoggedIn, Carries
<1>9. FlightsInv'
  BY <1>2, <1>3, <1>4, <1>5 DEF AccessInv, AccessTyped, FlightsInv
<1>10. ChainsInv'
  <2>1. ASSUME ~abandoned, NEW d \in Calls, NEW x, x = call'[d], x.op = "refresh"
        PROVE  d \in flights' /\ Spends(x)
    <3>1. d # q
      BY <1>4, <2>1, IdleTyped
    <3> QED
      BY <1>3, <1>4, <2>1, <3>1 DEF AccessInv, ChainsInv
  <2> QED
    BY <1>3, <2>1 DEF AccessInv, ChainsInv, Spends, Live, SameLogin
<1> QED
  BY <1>7, <1>8, <1>9, <1>10 DEF AccessInv

LEMMA UnheardKeeps ==
    ASSUME AccessInv, NEW c \in Calls, Unheard(c)
    PROVE  AccessInv'
<1>1. /\ call' = [call EXCEPT ![c] = Idle] /\ c \in deaf /\ deaf' = deaf \ {c}
      /\ UNCHANGED <<owner, moved, nonces, sessions, store, user, request, flights, form, abandoned>>
  BY DEF Unheard
<1>2. call'[c] = Idle /\ \A d \in Calls \ {c} : call'[d] = call[d]
  BY <1>1, IdleTyped, OneRequest DEF AccessInv, AccessTyped
<1>3. c \notin flights
  BY <1>1 DEF AccessInv, FlightsInv
<1>4. AccessTyped' /\ CallsInv' /\ OwnersInv' /\ WalletsInv'
  <2>1. /\ flights' \subseteq Requests /\ deaf' \subseteq Calls
        /\ store' = 0 \/ store' \in DOMAIN sessions
        /\ user' \in Emails \cup {NoOne} /\ form' \in [Forms -> Nat]
    BY <1>1 DEF AccessInv, AccessTyped, PageTyped, IsToken
  <2>2. PageTyped'
    BY <1>1, <2>1, SamePage
  <2> QED
    BY <1>1, <2>1, <2>2, IdleTyped, HandoverKeeps
<1>5. FreshLogins'
  <2>1. ~LoggedIn(Idle) /\ ~Carries(Idle)
    BY DEF Idle, LoggedIn, Carries
  <2> QED
    BY <1>1, <1>2, <2>1 DEF AccessInv, FreshLogins, LoggedIn, Carries
<1>6. FlightsInv'
  <2>1. \A q \in flights : q \in Calls \ {c}
    BY <1>3, ClientAssumption DEF AccessInv, AccessTyped
  <2> QED
    BY <1>1, <1>2, <2>1 DEF AccessInv, AccessTyped, FlightsInv, Unanswered, SameLogin
<1>7. ChainsInv'
  <2>1. ASSUME ~abandoned, NEW d \in Calls, NEW x, x = call'[d], x.op = "refresh"
        PROVE  d \in flights' /\ Spends(x)
    <3>1. d # c
      BY <1>2, <2>1, IdleTyped
    <3> QED
      BY <1>1, <1>2, <2>1, <3>1 DEF AccessInv, ChainsInv
  <2> QED
    BY <1>1, <2>1 DEF AccessInv, ChainsInv, Spends, Live, SameLogin
<1> QED
  BY <1>4, <1>5, <1>6, <1>7 DEF AccessInv

(* The answer of a log-in is heard: its token is stored, and nobody else    *)
(* knows of its chain.                                                      *)
LEMMA LogInHeardKeeps ==
    ASSUME AccessInv, NEW f \in Forms, f \notin deaf, LoggedIn(call[f]),
           store' = call[f].token,
           request' = [request EXCEPT ![Me] =
                          IF request[Me].at = "idle" /\ Me \notin flights
                          THEN Sent(store', FALSE) ELSE @],
           call' = [call EXCEPT ![f] = Idle],
           UNCHANGED <<owner, moved, nonces, sessions, user, flights, form, deaf, abandoned>>
    PROVE  AccessInv'
<1>1. PICK t : t = call[f]
  OBVIOUS
<1>2. /\ f \in Calls /\ f \notin flights /\ LoggedIn(t) /\ Knows(t) /\ IsToken(t.token)
      /\ \A n \in DOMAIN sessions : sessions[n].login = t.token <=> n = t.token
  <2>1. f \in Calls /\ f \notin flights
    BY ClientAssumption DEF AccessInv, AccessTyped
  <2> QED
    BY <1>1, <2>1 DEF AccessInv, CallsInv, Knows
<1>3. store' = t.token
  BY <1>1
<1>4. call'[f] = Idle /\ \A d \in Calls \ {f} : call'[d] = call[d]
  BY <1>2, IdleTyped, OneRequest DEF AccessInv, AccessTyped
<1>5. PageTyped'
  <2>1. PICK r : r = IF request[Me].at = "idle" /\ Me \notin flights THEN Sent(t.token, FALSE)
                     ELSE request[Me]
    OBVIOUS
  <2>2. /\ Sent(t.token, FALSE) \in WebRequest /\ Sent(t.token, FALSE).token = t.token
        /\ Sent(t.token, FALSE).at = "sent"
    BY <1>2, SentTyped
  <2>3. /\ r \in WebRequest /\ (r.token = 0 \/ IsToken(r.token))
        /\ (r.at = "fine" => r.token # 0)
    BY <1>2, <2>1, <2>2, ClientAssumption DEF AccessInv, AccessTyped, PageTyped
  <2>4. request' = [request EXCEPT ![Me] = r]
    BY <1>3, <2>1
  <2>5. PageTyped /\ user' \in Emails \cup {NoOne}
    BY DEF AccessInv, AccessTyped, PageTyped
  <2> QED
    BY <2>3, <2>4, <2>5, RequestMoves, ClientAssumption
<1>6. AccessTyped' /\ CallsInv' /\ OwnersInv' /\ WalletsInv'
  <2>1. flights' \subseteq Requests /\ deaf' \subseteq Calls /\ store' \in DOMAIN sessions
    BY <1>2, <1>3 DEF AccessInv, AccessTyped, IsToken
  <2> QED
    BY <1>2, <1>5, <2>1, IdleTyped, HandoverKeeps
<1>7. FreshLogins'
  <2>1. ~LoggedIn(Idle) /\ ~Carries(Idle)
    BY DEF Idle, LoggedIn, Carries
  <2>2. \A d \in Calls \ {f} : LoggedIn(call[d]) => t.token # call[d].token
    BY <1>1, <1>2 DEF AccessInv, FreshLogins
  <2> QED
    BY <1>3, <1>4, <2>1, <2>2 DEF AccessInv, FreshLogins, LoggedIn, Carries
<1>8. FlightsInv'
  <2>1. ASSUME NEW q \in flights, NEW x, x = call'[q]
        PROVE  /\ q \notin deaf /\ x.op = "refresh"
               /\ Unanswered(x) /\ sessions[t.token].login = sessions[x.token].login => t.token = x.token
    <3>1. q \in Calls \ {f} /\ x = call[q] /\ q \notin deaf /\ x.op = "refresh" /\ Knows(x)
      BY <1>2, <1>4, <2>1, ClientAssumption DEF AccessInv, AccessTyped, FlightsInv, CallsInv
    <3>2. Unanswered(x) => IsToken(x.token)
      BY <3>1 DEF Knows, Carries, Unanswered
    <3> QED
      BY <1>2, <3>1, <3>2 DEF IsToken
  <2>2. \A d \in deaf : call'[d].at # "idle"
    BY <1>4 DEF AccessInv, AccessTyped, FlightsInv
  <2> QED
    BY <1>3, <2>1, <2>2 DEF AccessInv, FlightsInv, Unanswered, SameLogin
<1>9. ChainsInv'
  <2>1. ASSUME ~abandoned, NEW d \in Calls, NEW x, x = call'[d], x.op = "refresh"
        PROVE  d \in flights' /\ Spends(x)
    <3>1. d # f
      BY <1>4, <2>1, IdleTyped
    <3> QED
      BY <1>4, <2>1, <3>1 DEF AccessInv, ChainsInv
  <2> QED
    BY <2>1 DEF AccessInv, ChainsInv, Spends, Live, SameLogin
<1> QED
  BY <1>6, <1>7, <1>8, <1>9 DEF AccessInv

LEMMA FormAnsweredKeeps ==
    ASSUME AccessInv, NEW f \in Forms, FormAnswered(f)
    PROVE  AccessInv'
<1>1. PICK t : t = call[f]
  OBVIOUS
<1>2. f \in Calls /\ f \notin deaf /\ t \in Call /\ Staged(t) /\ t.at = "ok"
  BY <1>1, CallTyped, ClientAssumption DEF FormAnswered
<1>3. /\ UNCHANGED <<owner, moved, nonces, sessions, user, flights, form, deaf, abandoned>>
      /\ user' \in Emails \cup {NoOne} /\ form' \in [Forms -> Nat]
  BY DEF FormAnswered, AccessInv, AccessTyped, PageTyped
<1>4. CASE t.op \in {"login", "walletLogin"}
  <2>1. LoggedIn(call[f])
    BY <1>1, <1>2, <1>4 DEF LoggedIn
  <2>2. /\ store' = call[f].token
        /\ request' = [request EXCEPT ![Me] =
                          IF request[Me].at = "idle" /\ Me \notin flights
                          THEN Sent(store', FALSE) ELSE @]
        /\ call' = [call EXCEPT ![f] = Idle]
    BY <1>1, <1>4 DEF FormAnswered
  <2> QED
    BY <1>2, <1>3, <2>1, <2>2, LogInHeardKeeps
<1>5. CASE t.op \notin {"login", "walletLogin"}
  <2>1. UNCHANGED <<store, request>>
    BY <1>1, <1>5 DEF FormAnswered
  <2>2. PageTyped'
    BY <1>3, <2>1, SamePage
  <2>3. CASE t.op = "register"
    <3>1. PICK r : r = Request("login", 0, t.email, NoOne)
      OBVIOUS
    <3>2. t.email \in Emails
      BY <1>2, <2>3 DEF Staged
    <3>3. r \in Call /\ Staged(r) /\ r.at = "sent" /\ r.op # "refresh"
      BY <3>1, <3>2, RequestTyped DEF Ops
    <3>4. call' = [call EXCEPT ![f] = r]
      BY <1>1, <1>5, <2>3, <3>1 DEF FormAnswered
    <3> QED
      BY <1>2, <1>3, <2>1, <2>2, <3>3, <3>4, FormPosts
  <2>4. CASE t.op # "register"
    <3>1. call' = [call EXCEPT ![f] = Idle]
      BY <1>1, <1>5, <2>4 DEF FormAnswered
    <3> QED
      BY <1>2, <1>3, <2>1, <2>2, <3>1, IdleTyped, FormPosts
  <2> QED
    BY <2>3, <2>4
<1> QED
  BY <1>4, <1>5

LEMMA FormRefusedKeeps ==
    ASSUME AccessInv, NEW f \in Forms, FormRefused(f)
    PROVE  AccessInv'
<1>1. CASE Bounce /\ UNCHANGED identityVars
  BY <1>1, BounceKeeps
<1>2. CASE /\ call' = [call EXCEPT ![f] = Idle] /\ f \notin deaf
           /\ UNCHANGED <<owner, moved, nonces, sessions, clientVars>>
  <2>1. UNCHANGED <<store, user, request, flights, form, deaf, abandoned>>
    BY <1>2 DEF clientVars
  <2>2. user' \in Emails \cup {NoOne} /\ form' \in [Forms -> Nat]
    BY <2>1 DEF AccessInv, AccessTyped, PageTyped
  <2>3. PageTyped'
    BY <1>2, <2>1, <2>2, SamePage
  <2> QED
    BY <1>2, <2>1, <2>3, IdleTyped, FormPosts
<1> QED
  BY <1>1, <1>2 DEF FormRefused

LEMMA LoseAnswerKeeps ==
    ASSUME AccessInv, NEW c \in Calls, LoseAnswer(c)
    PROVE  AccessInv'
<1>1. Fail(c) /\ call[c].at # "idle" /\ UNCHANGED <<owner, moved, nonces, sessions, clientVars>>
  BY DEF LoseAnswer
<1> QED
  BY <1>1, FailKeeps

-----------------------------------------------------------------------------
(* The invariant and the properties *)

LEMMA AccessInit ==
    ASSUME Init
    PROVE  AccessInv
<1> USE DEF Init, IdentityInit, ClientInit
<1>1. SessionsTyped /\ DOMAIN sessions = {}
  BY EmptySeq DEF SessionsTyped
<1>2. \A q \in Requests : /\ request[q] \in WebRequest /\ request[q].token = 0
                          /\ request[q].at = "idle"
  BY DEF NoRequest, WebRequest, Places
<1>3. PageTyped
  BY <1>2 DEF PageTyped
<1>4. AccessTyped
  BY <1>1, <1>3, IdleTyped DEF AccessTyped
<1>5. CallsInv
  BY IdleTyped DEF CallsInv
<1>6. OwnersInv /\ WalletsInv
  BY <1>1 DEF OwnersInv, WalletsInv
<1>7. FreshLogins /\ FlightsInv /\ ChainsInv
  BY <1>1, IdleTyped DEF FreshLogins, FlightsInv, ChainsInv
<1> QED
  BY <1>4, <1>5, <1>6, <1>7 DEF AccessInv

LEMMA ServiceKeeps ==
    ASSUME AccessInv, IdentityNext, UNCHANGED clientVars
    PROVE  AccessInv'
<1>1. ASSUME NEW c \in Calls, CheckPassword(c)  PROVE AccessInv'
  BY <1>1, CheckPasswordKeeps
<1>2. ASSUME NEW c \in Calls, FindSession(c)    PROVE AccessInv'
  BY <1>2, FindSessionKeeps
<1>3. ASSUME NEW c \in Calls, RevokeOld(c)      PROVE AccessInv'
  BY <1>3, RevokeOldKeeps
<1>4. ASSUME NEW c \in Calls, Logout(c)         PROVE AccessInv'
  BY <1>4, LogoutKeeps
<1>5. ASSUME NEW c \in Calls, IssueTokens(c)    PROVE AccessInv'
  BY <1>5, IssueTokensKeeps
<1>6. ASSUME NEW c \in Calls, SpendChallenge(c) PROVE AccessInv'
  BY <1>6, SpendChallengeKeeps
<1>7. ASSUME NEW c \in Calls, FindByWallet(c)   PROVE AccessInv'
  BY <1>7, FindByWalletKeeps
<1>8. ASSUME NEW c \in Calls, FindOtherOwner(c) PROVE AccessInv'
  BY <1>8, FindOtherOwnerKeeps
<1>9. ASSUME NEW c \in Calls, FindByEmail(c)    PROVE AccessInv'
  BY <1>9, FindByEmailKeeps
<1>10. ASSUME NEW c \in Calls, CreateAccount(c) PROVE AccessInv'
  BY <1>10, CreateAccountKeeps
<1>11. ASSUME NEW c \in Calls, LinkWallet(c)    PROVE AccessInv'
  BY <1>11, LinkWalletKeeps
<1>12. ASSUME NEW c \in Calls, GrantRole(c)     PROVE AccessInv'
  BY <1>12, GrantRoleKeeps
<1>13. ASSUME NEW c \in Calls, CallFails(c)     PROVE AccessInv'
  BY <1>13, CallFailsKeeps
<1>14. CASE Restart
  BY <1>14, RestartKeeps
<1>15. CASE (\E w \in Wallets : ChallengeExpires(w)) \/ (\E e \in Emails : Suspend(e))
  BY <1>15, TimePasses
<1> QED
  BY <1>1, <1>2, <1>3, <1>4, <1>5, <1>6, <1>7, <1>8, <1>9, <1>10, <1>11, <1>12, <1>13, <1>14,
     <1>15 DEF IdentityNext

LEMMA AccessStep ==
    ASSUME AccessInv, [Next]_vars
    PROVE  AccessInv'
<1>1. CASE IdentityNext /\ UNCHANGED clientVars
  BY <1>1, ServiceKeeps
<1>2. CASE Load
  BY <1>2, LoadKeeps
<1>3. CASE Guard
  BY <1>3, TimePasses
<1>4. ASSUME NEW q \in Requests, Ask(q) \/ Serve(q) \/ Arrive(q) \/ Drop(q)
      PROVE  AccessInv'
  BY <1>4, QueryKeeps
<1>5. ASSUME NEW q \in Requests, Denied(q)  PROVE AccessInv'
  BY <1>5, DeniedKeeps
<1>6. ASSUME NEW q \in Requests, Refreshed(q)  PROVE AccessInv'
  BY <1>6, RefreshedKeeps
<1>7. ASSUME NEW q \in Requests, RefreshFailed(q)  PROVE AccessInv'
  BY <1>7, BounceKeeps DEF RefreshFailed
<1>8. ASSUME NEW c \in Calls, LoseAnswer(c)  PROVE AccessInv'
  BY <1>8, LoseAnswerKeeps
<1>9. ASSUME NEW c \in Calls, Unheard(c)  PROVE AccessInv'
  BY <1>9, UnheardKeeps
<1>10. ASSUME NEW f \in Forms, \/ DeclineToSign(f)
                               \/ \E w \in Wallets : WalletLoginPanel(f, w) \/ AutoSignIn(f, w)
       PROVE  AccessInv'
  BY <1>10, FormAsksKeeps
<1>11. ASSUME NEW f \in Forms,
              \/ \E w \in Wallets : Sign(f, w) \/ ConnectWallet(f, w)
              \/ \E e \in Typed : LoginForm(f, e) \/ \E w \in Wallets : RegisterForm(f, e, w)
              \/ SignOut(f)
       PROVE  AccessInv'
  BY <1>11, PostKeeps
<1>12. ASSUME NEW f \in Forms, FormAnswered(f)  PROVE AccessInv'
  BY <1>12, FormAnsweredKeeps
<1>13. ASSUME NEW f \in Forms, FormRefused(f)  PROVE AccessInv'
  BY <1>13, FormRefusedKeeps
<1>14. ASSUME NEW f \in Forms, SignedOut(f)  PROVE AccessInv'
  BY <1>14, BounceKeeps DEF SignedOut
<1>15. ASSUME NEW n, AccessExpires(n)  PROVE AccessInv'
  BY <1>15, TimePasses
<1>16. ASSUME NEW n, SessionExpires(n), UNCHANGED clientVars  PROVE AccessInv'
  BY <1>16, SessionExpiresKeeps
<1>17. CASE UNCHANGED vars
  <2>1. UNCHANGED <<call, sessions, owner, moved, nonces, store, user, request, flights, form,
                    deaf, abandoned>>
    BY <1>17 DEF vars, identityVars, clientVars
  <2>2. user' \in Emails \cup {NoOne} /\ form' \in [Forms -> Nat]
    BY <2>1 DEF AccessInv, AccessTyped, PageTyped
  <2> QED
    BY <2>1, <2>2, SamePage, PageStill
<1> QED
  BY <1>1, <1>2, <1>3, <1>4, <1>5, <1>6, <1>7, <1>8, <1>9, <1>10, <1>11, <1>12, <1>13, <1>14,
     <1>15, <1>16, <1>17 DEF Next

LEMMA AccessInvariant == Spec => []AccessInv
<1>1. Init => AccessInv
  BY AccessInit
<1>2. AccessInv /\ [Next]_vars => AccessInv'
  BY AccessStep
<1> QED
  BY <1>1, <1>2, PTL DEF Spec

(* The log-ins of a wallet nobody claimed all end in one account, however   *)
(* its first log-ins overlap: FindByEmail and the unique email make one     *)
(* placeholder account, and only it is ever linked to the wallet.           *)
THEOREM WalletsHaveOneAccount == Spec => []OneAccountPerWallet
<1>1. Spec => []AccessInv
  BY AccessInvariant
<1>2. AccessInv => OneAccountPerWallet
  BY DEF AccessInv, WalletsInv, OneAccountPerWallet
<1> QED
  BY <1>1, <1>2, PTL

(* When the service refuses the tab's refresh, the session it has stored is *)
(* dead, or of another log-in: the tokens RefreshFailed removes are of no   *)
(* use.                                                                     *)
THEOREM RefusalsCostNothing == Spec => []RefusedRefreshIsDead
<1>1. Spec => []AccessInv
  BY AccessInvariant
<1>2. AccessInv => RefusedRefreshIsDead
  <2>1. ASSUME AccessInv, NEW q \in flights, call[q].op = "refresh", call[q].at = "refused",
               store # 0, sessions[store].login = sessions[call[q].token].login
        PROVE  ~Live(store)
    <3>1. store = call[q].token
      BY <2>1 DEF AccessInv, FlightsInv, Unanswered, SameLogin
    <3>2. q \in Calls
      BY <2>1, ClientAssumption DEF AccessInv, AccessTyped
    <3> QED
      BY <2>1, <3>1, <3>2 DEF AccessInv, CallsInv, Knows
  <2> QED
    BY <2>1 DEF RefusedRefreshIsDead
<1> QED
  BY <1>1, <1>2, PTL

(* Rotation leaves a log-in with one valid session, unless a page was left  *)
(* while it refreshed.                                                      *)
THEOREM ChainsStaySingle == Spec => []OneLiveSessionPerLogin
<1>1. Spec => []AccessInv
  BY AccessInvariant
<1>2. AccessInv => OneLiveSessionPerLogin
  BY DEF AccessInv, ChainsInv, OneLiveSessionPerLogin, SameLogin
<1> QED
  BY <1>1, <1>2, PTL
=============================================================================
