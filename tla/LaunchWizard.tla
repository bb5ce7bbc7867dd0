--------------------------- MODULE LaunchWizard ---------------------------
(***************************************************************************)
(* The two pages an issuer applies with: apps/web issue/new and apps/      *)
(* issuer dashboard/assets/new.  Each deposits USDC in the issuance escrow *)
(* first and posts the application afterwards; what fails in between, or   *)
(* answers too late, sends the page back to idle with the deposit made.    *)
(* The form stays editable all the time.                                   *)
(***************************************************************************)
EXTENDS Integers, Sequences

CONSTANTS Tickers, Issuers, NoIssuer, NoAttempt,
          MaxAmount,      \* bound: amounts that are typed
          MaxDeposits     \* bound: deposits that are sent

ASSUME LaunchAssumption == Tickers # {}

Pages == {"web", "issuer"}

VARIABLES
    form,       \* of a page: liquidityDepositUsdc (0 when empty) and ticker
    issuer,     \* the wallet connected to a page
    stage,
    attempt,    \* of a page: what handleSubmit and mutate captured
    sent,       \* deposits on chain, by id: wallet and amount
    posts,      \* createAsset requests in progress
    applications

launchVars == <<form, issuer, stage, attempt, sent, posts, applications>>

LaunchInit ==
    /\ form = [p \in Pages |-> [amount |-> 0, ticker |-> CHOOSE t \in Tickers : TRUE]]
    /\ issuer = [p \in Pages |-> NoIssuer]
    /\ stage = [p \in Pages |-> "idle"]
    /\ attempt = [p \in Pages |-> NoAttempt]
    /\ sent = <<>> /\ posts = {} /\ applications = {}

ConnectIssuer(p, w) ==
    /\ issuer[p] # w
    /\ issuer' = [issuer EXCEPT ![p] = w]
    /\ UNCHANGED <<form, stage, attempt, sent, posts, applications>>

(* handleChange: no input is disabled while a submission is under way.     *)
Change(p, amount, ticker) ==
    /\ form' = [form EXCEPT ![p] = [amount |-> amount, ticker |-> ticker]]
    /\ form' # form
    /\ UNCHANGED <<issuer, stage, attempt, sent, posts, applications>>

(* isPending *)
Pending(p) == stage[p] \notin {"idle", "done"}

(* handleSubmit, behind its button and its guards: from here on it uses    *)
(* the form and the wallet of this render.  `done' lets it start again     *)
(* before the page is left.                                                *)
SubmitLaunch(p) ==
    /\ ~Pending(p) /\ form[p].amount > 0 /\ issuer[p] # NoIssuer
    /\ attempt' = [attempt EXCEPT ![p] =
           [wallet |-> issuer[p], amount |-> form[p].amount, ticker |-> form[p].ticker, id |-> 0]]
    /\ stage' = [stage EXCEPT ![p] = "awaiting-wallet-liquidity"]
    /\ UNCHANGED <<form, issuer, sent, posts, applications>>

Broadcast(p) ==
    /\ Len(sent) < MaxDeposits
    /\ sent' = Append(sent, [wallet |-> attempt[p].wallet, amount |-> attempt[p].amount])
    /\ attempt' = [attempt EXCEPT ![p].id = Len(sent) + 1]

(* Web: the wallet signs, the stage is set and the deposit is sent.        *)
SignWeb ==
    /\ stage["web"] = "awaiting-wallet-liquidity"
    /\ Broadcast("web")
    /\ stage' = [stage EXCEPT !["web"] = "confirming-liquidity"]
    /\ UNCHANGED <<form, issuer, posts, applications>>

(* Issuer: buildSignAndBroadcastUsdcTransfer does all of it in the stage   *)
(* before.                                                                 *)
BuildSignAndBroadcast ==
    /\ stage["issuer"] = "awaiting-wallet-liquidity" /\ attempt["issuer"].id = 0
    /\ Broadcast("issuer")
    /\ UNCHANGED <<form, issuer, stage, posts, applications>>

(* The wallet declines, a call fails, or four rounds pass without the      *)
(* confirmation of a deposit that is confirmed later.                      *)
SubmitFails(p) ==
    /\ stage[p] \in {"awaiting-wallet-liquidity", "confirming-liquidity"}
    /\ stage' = [stage EXCEPT ![p] = "idle"]
    /\ attempt' = [attempt EXCEPT ![p] = NoAttempt]
    /\ UNCHANGED <<form, issuer, sent, posts, applications>>

(* Fault: the page posts the form as it is now. *)
Payload_Current(p) ==
    [wallet |-> issuer[p], amount |-> form[p].amount, ticker |-> form[p].ticker,
     id |-> attempt[p].id]

(* {...form, liquidityDepositTxId, issuerWalletAddress} *)
Payload(p) == attempt[p]

(* Confirmed: mutation.mutate. *)
PostLaunch(p) ==
    /\ stage[p] \in {"awaiting-wallet-liquidity", "confirming-liquidity"}
    /\ attempt[p] # NoAttempt /\ attempt[p].id > 0
    /\ stage' = [stage EXCEPT ![p] = "submitting-form"]
    /\ posts' = posts \cup
           {[page |-> p, awaited |-> TRUE, checked |-> FALSE, asked |-> Payload(p)]}
    /\ UNCHANGED <<form, issuer, attempt, sent, applications>>

-----------------------------------------------------------------------------
(* createAsset, as far as the pages tell: findByTicker and                 *)
(* verifyLiquidityDeposit, which accepts a transfer of more than was       *)
(* stated, also one that another application names ...                     *)
Acceptable(a) ==
    /\ \A x \in applications : x.ticker # a.ticker
    /\ sent[a.id].wallet = a.wallet /\ sent[a.id].amount >= a.amount

CheckLaunch(post) ==
    /\ post \in posts /\ ~post.checked /\ Acceptable(post.asked)
    /\ posts' = (posts \ {post}) \cup {[post EXCEPT !.checked = TRUE]}
    /\ UNCHANGED <<form, issuer, stage, attempt, sent, applications>>

(* The page hears of its request, unless it has stopped waiting.           *)
Hears(post, news) ==
    stage' = IF post.awaited THEN [stage EXCEPT ![post.page] = news] ELSE stage

(* ... then the row, whose ticker is unique; onSuccess. *)
SaveLaunch(post) ==
    /\ post \in posts /\ post.checked
    /\ \A x \in applications : x.ticker # post.asked.ticker
    /\ applications' = applications \cup {post.asked}
    /\ posts' = posts \ {post}
    /\ Hears(post, "done")
    /\ UNCHANGED <<form, issuer, attempt, sent>>

(* Refused, or a call fails: onError. *)
LaunchRefused(post) ==
    /\ post \in posts
    /\ posts' = posts \ {post}
    /\ Hears(post, "idle")
    /\ UNCHANGED <<form, issuer, attempt, sent, applications>>

(* No answer in time, or it is lost, while the service goes on: onError.   *)
LaunchTimesOut(post) ==
    /\ post \in posts /\ post.awaited
    /\ posts' = (posts \ {post}) \cup {[post EXCEPT !.awaited = FALSE]}
    /\ Hears(post, "idle")
    /\ UNCHANGED <<form, issuer, attempt, sent, applications>>

(* router.push, or Cancel; a new page is opened. *)
Leave(p) ==
    /\ ~Pending(p) /\ attempt[p] # NoAttempt
    /\ stage' = [stage EXCEPT ![p] = "idle"]
    /\ attempt' = [attempt EXCEPT ![p] = NoAttempt]
    /\ form' = [form EXCEPT ![p].amount = 0]
    /\ UNCHANGED <<issuer, sent, posts, applications>>

LaunchNext ==
    \/ \E p \in Pages :
          \/ \E w \in Issuers \cup {NoIssuer} : ConnectIssuer(p, w)
          \/ \E n \in 0..MaxAmount, t \in Tickers : Change(p, n, t)
          \/ SubmitLaunch(p) \/ SubmitFails(p) \/ PostLaunch(p) \/ Leave(p)
    \/ SignWeb \/ BuildSignAndBroadcast
    \/ \E post \in posts : CheckLaunch(post) \/ SaveLaunch(post)
                            \/ LaunchRefused(post) \/ LaunchTimesOut(post)

LaunchSpec == LaunchInit /\ [][LaunchNext]_launchVars

-----------------------------------------------------------------------------
(* Whatever is typed, connected, retried or lost between the deposit and   *)
(* the application, and on whichever page: an application names a deposit  *)
(* of its own, of exactly the amount and from the wallet it states.  The   *)
(* service accepts less (asset.service.ts:45), and a deposit may be left   *)
(* without an application (issue/new/page.tsx:149).                        *)
DepositMatchesApplication ==
    \A a \in applications :
        /\ sent[a.id] = [wallet |-> a.wallet, amount |-> a.amount]
        /\ \A b \in applications : a.id = b.id => a = b
=============================================================================
