------------------------------ MODULE Identity ------------------------------
(***************************************************************************)
(* Accounts and sessions of the identity service (services/identity): log  *)
(* in by password or by wallet, registration, rotation of refresh tokens.  *)
(* Every await of a request is a step of its own, so requests interleave   *)
(* between a check and the write that follows it.  A session is numbered   *)
(* by its refresh token; the access token issued with it has its number.   *)
(***************************************************************************)
EXTENDS Integers, Sequences, FiniteSets

CONSTANTS
    Emails,            \* User.email, unique
    Wallets,           \* Algorand addresses
    Placeholder,       \* wallet -> the email of its automatic account, made of
                       \* its first eight characters: wallets may share one
    AdminWallet,       \* ADMIN_WALLET_ADDRESS
    Calls,             \* requests in progress
    Faults,            \* "crash": the service fails in a request or restarts
    NoOne,
    MaxSessions, MaxNonces     \* bounds

ASSUME IdentityAssumption ==
    /\ Placeholder \in [Wallets -> Emails]
    /\ NoOne \notin Emails \cup Wallets
    /\ {MaxSessions, MaxNonces} \subseteq Nat

VARIABLES
    accounts,          \* email -> NoOne or role and status
    owner,             \* WalletAddress.userId, by address
    moved,             \* history: wallets a registration or a connection claimed
    challenge,         \* challengeStore: wallet -> nonce, 0 for none
    nonces,            \* nonces ever made
    sessions,          \* the rows of Session
    call               \* what each request is doing

identityVars == <<accounts, owner, moved, challenge, nonces, sessions, call>>

(* login: the session a chain of refreshes started from; wallet: the one   *)
(* that signed in, NoOne for a password.                                   *)
Session == [user: Emails, login: Nat, wallet: Wallets \cup {NoOne}, live: BOOLEAN]

Idle == [op |-> "none", at |-> "idle", token |-> 0, email |-> NoOne, wallet |-> NoOne]

Request(op, token, email, wallet) ==
    [op |-> op, at |-> "sent", token |-> token, email |-> email, wallet |-> wallet]

InService(c) == call[c].at \notin {"idle", "ok", "refused", "failed"}

IdentityInit ==
    /\ accounts = [e \in Emails |-> NoOne]
    /\ owner = [w \in Wallets |-> NoOne]
    /\ moved = {}
    /\ challenge = [w \in Wallets |-> 0] /\ nonces = 0
    /\ sessions = <<>>
    /\ call = [c \in Calls |-> Idle]

Suspended(e) == accounts[e].status = "SUSPENDED"
Live(n) == n \in DOMAIN sessions /\ sessions[n].live

(* "refused" is the answer 401. *)
GoTo(c, where) == call' = [call EXCEPT ![c].at = where]

(* Any answer that is no 401: 403, 409, 500, or none. *)
Fail(c) == call' = [call EXCEPT ![c] = [Idle EXCEPT !.op = call[c].op, !.at = "failed"]]

-----------------------------------------------------------------------------
(* login: the password was checked; a suspended account is refused.        *)
CheckPassword(c) ==
    /\ call[c].op = "login" /\ call[c].at = "sent"
    /\ LET e == call[c].email IN
       IF accounts[e] = NoOne THEN GoTo(c, "refused")
       ELSE IF Suspended(e) THEN Fail(c) ELSE GoTo(c, "issue")
    /\ UNCHANGED <<accounts, owner, moved, challenge, nonces, sessions>>

(* refresh: the session is read first ...                                  *)
FindSession(c) ==
    /\ call[c].op = "refresh" /\ call[c].at = "sent"
    /\ IF Live(call[c].token)
       THEN call' = [call EXCEPT ![c].at = "found",
                                 ![c].email = sessions[call[c].token].user]
       ELSE GoTo(c, "refused")
    /\ UNCHANGED <<accounts, owner, moved, challenge, nonces, sessions>>

(* Fault: the old session stays valid. *)
Revoked_Kept(n) == sessions

Revoked(n) == [sessions EXCEPT ![n].live = FALSE]

(* ... then revoked, whatever happened to it since; the account's status   *)
(* is not looked at.                                                       *)
RevokeOld(c) ==
    /\ call[c].op = "refresh" /\ call[c].at = "found"
    /\ sessions' = Revoked(call[c].token)
    /\ GoTo(c, "issue")
    /\ UNCHANGED <<accounts, owner, moved, challenge, nonces>>

(* logout *)
Logout(c) ==
    /\ call[c].op = "logout" /\ call[c].at = "sent"
    /\ sessions' = [sessions EXCEPT ![call[c].token].live = FALSE]
    /\ GoTo(c, "ok")
    /\ UNCHANGED <<accounts, owner, moved, challenge, nonces>>

(* issueTokens *)
IssueTokens(c) ==
    LET new == Len(sessions) + 1 IN
    /\ call[c].at = "issue" /\ new <= MaxSessions
    /\ sessions' = Append(sessions,
           [user   |-> call[c].email,
            login  |-> IF call[c].op = "refresh" THEN sessions[call[c].token].login
                       ELSE new,
            wallet |-> IF call[c].op = "refresh" THEN sessions[call[c].token].wallet
                       ELSE IF call[c].op = "walletLogin" THEN call[c].wallet ELSE NoOne,
            live   |-> TRUE])
    /\ call' = [call EXCEPT ![c].at = "ok", ![c].token = new]
    /\ UNCHANGED <<accounts, owner, moved, challenge, nonces>>

-----------------------------------------------------------------------------
(* walletChallenge: one entry per address, the newer replaces the older.   *)
NewChallenge(w) ==
    /\ nonces < MaxNonces
    /\ nonces' = nonces + 1
    /\ challenge' = [challenge EXCEPT ![w] = nonces + 1]

(* Five minutes pass. *)
ChallengeExpires(w) ==
    /\ challenge[w] # 0
    /\ challenge' = [challenge EXCEPT ![w] = 0]
    /\ UNCHANGED <<accounts, owner, moved, nonces, sessions, call>>

(* What the wallet signed: verifySignedTransaction refuses a signature of  *)
(* another account, or of another nonce.                                   *)
SignedNonce(c) == call[c].token

(* walletLogin: the entry is checked and deleted before the first await.   *)
SpendChallenge(c) ==
    LET w == call[c].wallet IN
    /\ call[c].op = "walletLogin" /\ call[c].at = "sent"
    /\ IF challenge[w] # 0 /\ challenge[w] = SignedNonce(c)
       THEN challenge' = [challenge EXCEPT ![w] = 0] /\ GoTo(c, "spent")
       ELSE GoTo(c, "refused") /\ UNCHANGED challenge
    /\ UNCHANGED <<accounts, owner, moved, nonces, sessions>>

(* findByWalletAddress *)
FindByWallet(c) ==
    LET e == owner[call[c].wallet] IN
    /\ call[c].at = "spent"
    /\ IF e = NoOne THEN GoTo(c, "unknown")
       ELSE IF Suspended(e) THEN Fail(c)
       ELSE call' = [call EXCEPT ![c].at = "role", ![c].email = e]
    /\ UNCHANGED <<accounts, owner, moved, challenge, nonces, sessions>>

(* connectWallet, after the signature: taken only from nobody, as it was   *)
(* when it was read.                                                       *)
FindOtherOwner(c) ==
    /\ call[c].op = "connect" /\ call[c].at = "sent"
    /\ IF owner[call[c].wallet] \in {NoOne, call[c].email} THEN GoTo(c, "link")
       ELSE Fail(c)
    /\ UNCHANGED <<accounts, owner, moved, challenge, nonces, sessions>>

(* Fault: the automatic account gets an address of its own each time.      *)
EmailFor_Random(c) ==
    CHOOSE e \in Emails : accounts[e] = NoOne \/ \A d \in Emails : accounts[d] # NoOne

EmailFor(c) == Placeholder[call[c].wallet]

(* createWalletOnlyAccount looks for its placeholder email first; register *)
(* for the email it was given.                                             *)
FindByEmail(c) ==
    LET e == IF call[c].op = "register" THEN call[c].email ELSE EmailFor(c) IN
    /\ \/ call[c].op = "register" /\ call[c].at = "sent"
       \/ call[c].at = "unknown"
    /\ IF accounts[e] = NoOne
       THEN call' = [call EXCEPT ![c].at = "create", ![c].email = e]
       ELSE IF call[c].op = "register" THEN Fail(c)
       ELSE call' = [call EXCEPT ![c].at = "link", ![c].email = e]
    /\ UNCHANGED <<accounts, owner, moved, challenge, nonces, sessions>>

NewAccount == [role |-> "INVESTOR", status |-> "ACTIVE"]

(* The password is hashed in between; the email is unique in the database. *)
CreateAccount(c) ==
    LET e == call[c].email IN
    /\ call[c].at = "create"
    /\ IF accounts[e] # NoOne
       THEN Fail(c) /\ UNCHANGED accounts
       ELSE /\ accounts' = [accounts EXCEPT ![e] = NewAccount]
            /\ IF call[c].wallet = NoOne THEN GoTo(c, "ok") ELSE GoTo(c, "link")
    /\ UNCHANGED <<owner, moved, challenge, nonces, sessions>>

(* addWalletAddress, an upsert by address: registration takes the wallet   *)
(* from whatever account has it, without a signature.                      *)
LinkWallet(c) ==
    LET w == call[c].wallet IN
    /\ call[c].at = "link"
    /\ owner' = [owner EXCEPT ![w] = call[c].email]
    /\ moved' = IF call[c].op = "walletLogin" THEN moved ELSE moved \cup {w}
    /\ IF call[c].op # "walletLogin" THEN GoTo(c, "ok")
       ELSE IF Suspended(call[c].email) THEN Fail(c) ELSE GoTo(c, "role")
    /\ UNCHANGED <<accounts, challenge, nonces, sessions>>

(* The designated wallet's account is made an administrator.               *)
GrantRole(c) ==
    /\ call[c].at = "role"
    /\ accounts' = IF call[c].wallet = AdminWallet
                   THEN [accounts EXCEPT ![call[c].email].role = "ADMIN"] ELSE accounts
    /\ GoTo(c, "issue")
    /\ UNCHANGED <<owner, moved, challenge, nonces, sessions>>

-----------------------------------------------------------------------------
(* JwtStrategy.validate and the expiry of the signature.                   *)
Accepts(n, expired) ==
    /\ n # 0 /\ n \notin expired
    /\ ~Suspended(sessions[n].user)

(* updateStatus, which an operator calls: no route does. *)
Suspend(e) ==
    /\ accounts[e] # NoOne /\ ~Suspended(e)
    /\ accounts' = [accounts EXCEPT ![e].status = "SUSPENDED"]
    /\ UNCHANGED <<owner, moved, challenge, nonces, sessions, call>>

(* expiresAt of a session passes: refresh tells it from a revoked one no   *)
(* more than this model does.                                              *)
SessionExpires(n) ==
    /\ sessions[n].live
    /\ sessions' = [sessions EXCEPT ![n].live = FALSE]
    /\ UNCHANGED <<accounts, owner, moved, challenge, nonces, call>>

(* An await throws and the request ends in an error.                       *)
CallFails(c) ==
    /\ "crash" \in Faults /\ InService(c)
    /\ Fail(c)
    /\ UNCHANGED <<accounts, owner, moved, challenge, nonces, sessions>>

(* The process restarts: requests fail, the challenges were in memory.     *)
Restart ==
    /\ "crash" \in Faults
    /\ challenge' = [w \in Wallets |-> 0]
    /\ call' = [c \in Calls |-> IF InService(c) THEN [Idle EXCEPT !.op = call[c].op, !.at = "failed"]
                                ELSE call[c]]
    /\ UNCHANGED <<accounts, owner, moved, nonces, sessions>>

IdentityNext ==
    \/ \E c \in Calls :
           \/ CheckPassword(c) \/ FindSession(c) \/ RevokeOld(c) \/ Logout(c)
           \/ IssueTokens(c) \/ SpendChallenge(c) \/ FindByWallet(c)
           \/ FindOtherOwner(c) \/ FindByEmail(c) \/ CreateAccount(c) \/ LinkWallet(c) \/ GrantRole(c)
           \/ CallFails(c)
    \/ \E w \in Wallets : ChallengeExpires(w)
    \/ \E e \in Emails : Suspend(e)
    \/ Restart

-----------------------------------------------------------------------------
(* Concurrent first log-ins of one wallet find or make one account, so all *)
(* its sessions are of that account, unless a registration or a connection *)
(* claimed the wallet (user.service.ts:96, "race condition").              *)
OneAccountPerWallet ==
    \A i, j \in DOMAIN sessions :
        /\ sessions[i].wallet # NoOne /\ sessions[i].wallet \notin moved
        /\ sessions[i].wallet = sessions[j].wallet
        => sessions[i].user = sessions[j].user
=============================================================================
