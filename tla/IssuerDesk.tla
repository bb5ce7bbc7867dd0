----------------------------- MODULE IssuerDesk -----------------------------
(* The issuer's dashboard:                                                   *)
(*   apps/issuer/src/providers/wallet-provider.tsx  the wallet              *)
(*   apps/issuer/src/components/SettlementSigner.tsx, hooks/use-settlement.ts *)
(*   apps/issuer/src/app/(dashboard)/dashboard/assets/[id]/page.tsx  opt-in *)
(* The hook listens to a settlement socket whose server is not in the       *)
(* repository: no module of the settlement service provides its signature   *)
(* collector, and settlements are signed without it.  Sign requests are     *)
(* external here, and may arrive at any time and more than once.            *)
EXTENDS Naturals

CONSTANTS
    DeskWallets,    \* the issuer's accounts
    NoWallet,       \* nothing is connected, or typed
    SignRequests,   \* sign requests that may arrive
    MaxSockets      \* bound: how often the wallet changes

VARIABLES
    wallet,         \* walletAddress of the provider; signer is null without
    manual,         \* manualWallet: an address typed to look it up
    holders,        \* accounts opted in, on chain
    holdingReads,   \* opt-in lookups in flight: their accounts
    isOptedIn,      \* what the page shows: "unknown", "in" or "out"
    optIn,          \* handleOptIn's run: its sender and its signer
    socket,         \* counts the sockets, one per wallet that was connected
    signing,        \* sign requests the wallet is asked for
    replies         \* sign responses that were sent

optInVars == <<manual, holders, holdingReads, isOptedIn, optIn>>
hookVars == <<socket, signing, replies>>
deskVars == <<wallet, optInVars, hookVars>>

NoOptIn == [sender |-> NoWallet, signer |-> NoWallet]

DeskInit ==
    /\ wallet = NoWallet /\ manual = NoWallet
    /\ holders = {} /\ holdingReads = {} /\ isOptedIn = "unknown" /\ optIn = NoOptIn
    /\ socket = 0 /\ signing = {} /\ replies = {}

EffectiveWallet == IF wallet # NoWallet THEN wallet ELSE manual

(* The effect of the page: no lookup is cancelled, and what is shown of an *)
(* earlier account stays until an answer arrives.                          *)
LookUp(account) ==
    IF account = NoWallet
    THEN isOptedIn' = "unknown" /\ UNCHANGED holdingReads
    ELSE holdingReads' = holdingReads \cup {account} /\ UNCHANGED isOptedIn

(* The cleanup of useSettlement closes the socket, and with it go the *)
(* requests that the earlier wallet is still asked for.               *)
Cleanup_Missing == signing                  \* Fault: the socket stays open
Cleanup == {}

(* connect, disconnect, and reconnectSession on mount *)
SetWallet(account) ==
    /\ account # wallet /\ socket < MaxSockets
    /\ wallet' = account
    /\ socket' = socket + 1
    /\ signing' = Cleanup
    /\ IF account = NoWallet THEN LookUp(manual) ELSE LookUp(account)
    /\ UNCHANGED <<manual, holders, optIn, replies>>

TypeWallet(account) ==
    /\ account # manual
    /\ manual' = account
    /\ IF wallet = NoWallet THEN LookUp(account) ELSE UNCHANGED <<holdingReads, isOptedIn>>
    /\ UNCHANGED <<wallet, holders, optIn, hookVars>>

HoldingRead(account) ==
    /\ account \in holdingReads
    /\ holdingReads' = holdingReads \ {account}
    /\ isOptedIn' \in {IF account \in holders THEN "in" ELSE "out", "out"}
    /\ UNCHANGED <<wallet, manual, holders, optIn, hookVars>>

(* The button is there for a connected wallet that is shown without.      *)
(* Both the sender and the signer are those of the page as it was clicked. *)
HandleOptIn ==
    /\ wallet # NoWallet /\ isOptedIn = "out" /\ optIn = NoOptIn
    /\ optIn' = [sender |-> EffectiveWallet, signer |-> wallet]
    /\ UNCHANGED <<wallet, manual, holders, holdingReads, isOptedIn, hookVars>>

OptInEnds ==
    /\ optIn # NoOptIn
    /\ \/ holders' = holders \cup {optIn.sender} /\ isOptedIn' = "in"
       \/ UNCHANGED <<holders, isOptedIn>>     \* the catch
    /\ optIn' = NoOptIn
    /\ UNCHANGED <<wallet, manual, holdingReads, hookVars>>

(* settlement:sign_request arrives on the socket of the connected wallet. *)
SignRequested(n) ==
    /\ wallet # NoWallet
    /\ signing' = signing \cup {[request |-> n, by |-> wallet]}
    /\ UNCHANGED <<wallet, optInVars, socket, replies>>

(* The wallet signs, and the response leaves on the socket; or it does not *)
(* sign, and nothing of the repository hears settlement:sign_error.        *)
Signed(r) ==
    /\ r \in signing
    /\ signing' = signing \ {r}
    /\ \/ replies' = replies \cup {[request |-> r.request, by |-> r.by, connected |-> wallet]}
       \/ UNCHANGED replies
    /\ UNCHANGED <<wallet, optInVars, socket>>

DeskNext ==
    \/ \E account \in DeskWallets \cup {NoWallet} : SetWallet(account) \/ TypeWallet(account)
    \/ \E account \in DeskWallets : HoldingRead(account)
    \/ HandleOptIn \/ OptInEnds
    \/ \E n \in SignRequests : SignRequested(n)
    \/ \E r \in signing : Signed(r)

DeskSpec == DeskInit /\ [][DeskNext]_deskVars

-----------------------------------------------------------------------------
(* An opt-in is signed by the account that sends it, though an address can *)
(* be typed beside the wallet ([id]/page.tsx:54), and a response to a sign *)
(* request comes from the wallet that is connected, though the wallet may  *)
(* change while it is asked (use-settlement.ts:49, 77).                    *)
SignedByOwner ==
    /\ optIn.sender = optIn.signer
    /\ \A r \in replies : r.by = r.connected
=============================================================================
