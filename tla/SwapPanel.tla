---------------------------- MODULE SwapPanel ----------------------------
(***************************************************************************)
(* The panel an investor buys and sells an asset with (apps/web            *)
(* components/trading/swap-panel.tsx over lib/tinyman.ts), for an asset    *)
(* that is ACTIVE.  The user goes on clicking while answers of the node,   *)
(* of the asset service and of the wallet are under way: each comes in a   *)
(* step of its own, in any order, to whatever the panel shows by then.     *)
(***************************************************************************)
EXTENDS Integers, FiniteSets

CONSTANTS Traders, NoTrader, NoQuote,
          MaxSpend,        \* bound: amounts that are typed
          MaxAnswers       \* bound: requests of a kind that are under way

ASSUME SwapAssumption == NoTrader \notin Traders

VARIABLES
    holding,    \* a wallet's holding of the asset: "none", "frozen" or "free"
    connected,  \* activeAddress
    side,
    spend,      \* spendInput, 0 when empty
    gate,       \* buyGate
    gateOf,     \* the wallet whose answer set the gate; not in the code
    lookups,    \* holdings asked for: the wallet, and whether it is cancelled
    enabling,   \* handleOptIn or handleUnfreeze in progress (gateBusy), or "no"
    debounce,   \* the quote that waits 400 ms, or NoQuote
    quoting,    \* quotes asked for
    quote,      \* quoteData: side and amount it was asked for, or NoQuote
    tx,         \* txStatus
    swaps       \* swaps being signed, sent or waited for

swapVars == <<holding, connected, side, spend, gate, gateOf, lookups, enabling,
              debounce, quoting, quote, tx, swaps>>

NotEnabling == [step |-> "no", wallet |-> NoTrader]

SwapInit ==
    /\ holding \in [Traders -> {"none", "frozen", "free"}]
    /\ connected = NoTrader /\ side = "buy" /\ spend = 0
    /\ gate = "checking" /\ gateOf = NoTrader /\ lookups = {}
    /\ enabling = NotEnabling
    /\ debounce = NoQuote /\ quoting = {} /\ quote = NoQuote
    /\ tx = "idle" /\ swaps = {}

-----------------------------------------------------------------------------
(* Fault: the answers to earlier lookups are not cancelled. *)
Cancelled_Never(all) == all

(* The cleanup of the opt-in and freeze check. *)
Cancelled(all) == {[l EXCEPT !.live = FALSE] : l \in all}

(* The effect, run for a wallet and a side that have changed. *)
CheckHolding(w, s) ==
    IF s = "buy" /\ w # NoTrader
    THEN /\ lookups' = Cancelled(lookups) \cup {[wallet |-> w, live |-> TRUE]}
         /\ gate' = "checking"
    ELSE /\ lookups' = Cancelled(lookups)
         /\ UNCHANGED gate

(* The effect that asks for a quote, for what has been typed. *)
AskQuote(s, amount) ==
    /\ debounce' = IF amount = 0 THEN NoQuote ELSE [side |-> s, amount |-> amount]
    /\ quote' = NoQuote

Connect(w) ==
    /\ w # connected
    /\ Cardinality(lookups) < MaxAnswers
    /\ connected' = w
    /\ CheckHolding(w, side)
    /\ UNCHANGED <<holding, side, spend, gateOf, enabling, debounce, quoting, quote, tx, swaps>>

(* The answer, or need-optin when the node does not answer. *)
LookedUp(l) ==
    /\ l \in lookups
    /\ lookups' = lookups \ {l}
    /\ IF l.live
       THEN /\ \E answer \in {holding[l.wallet], "none"} :
                  gate' = CASE answer = "none" -> "need-optin"
                            [] answer = "frozen" -> "need-unfreeze"
                            [] answer = "free" -> "ready"
            /\ gateOf' = l.wallet
       ELSE UNCHANGED <<gate, gateOf>>
    /\ UNCHANGED <<holding, connected, side, spend, enabling, debounce, quoting, quote, tx, swaps>>

(* switchSide, also by the arrow: the side that is selected already can be *)
(* selected again, which resets the gate and looks nothing up.  A swap     *)
(* that is under way is forgotten.                                         *)
SwitchSide(s) ==
    /\ Cardinality(lookups) < MaxAnswers
    /\ side' = s /\ spend' = 0 /\ tx' = "idle"
    /\ AskQuote(s, 0)
    /\ gate' = "checking"
    /\ lookups' = IF s = side THEN lookups ELSE Cancelled(lookups) \cup
                     {[wallet |-> w, live |-> TRUE] :
                         w \in IF s = "buy" THEN {connected} \ {NoTrader} ELSE {}}
    /\ UNCHANGED <<holding, connected, gateOf, enabling, quoting, swaps>>

Type(n) ==
    /\ tx # "pending" /\ n # spend
    /\ spend' = n
    /\ AskQuote(side, n)
    /\ UNCHANGED <<holding, connected, side, gate, gateOf, lookups, enabling, quoting, tx, swaps>>

(* The timer ends: getSwapQuote.  Its answer is never cancelled. *)
GetQuote ==
    /\ debounce # NoQuote
    /\ Cardinality(quoting) < MaxAnswers
    /\ quoting' = quoting \cup {debounce}
    /\ debounce' = NoQuote
    /\ UNCHANGED <<holding, connected, side, spend, gate, gateOf, lookups, enabling, quote, tx, swaps>>

Quoted(q) ==
    /\ q \in quoting
    /\ quoting' = quoting \ {q}
    /\ quote' \in {q, NoQuote}
    /\ UNCHANGED <<holding, connected, side, spend, gate, gateOf, lookups, enabling, debounce, tx, swaps>>

-----------------------------------------------------------------------------
(* What the button under the form is. *)
Offered(button) ==
    /\ connected # NoTrader
    /\ CASE button = "opt-in" -> side = "buy" /\ gate = "need-optin"
         [] button = "unfreeze" -> side = "buy" /\ gate = "need-unfreeze"
         [] button = "swap" -> side = "sell" \/ gate = "ready"

(* handleOptIn, handleUnfreeze, up to their first await. *)
Enable(button, step) ==
    /\ Offered(button) /\ enabling = NotEnabling
    /\ enabling' = [step |-> step, wallet |-> connected]
    /\ UNCHANGED <<holding, connected, side, spend, gate, gateOf, lookups, debounce, quoting, quote, tx, swaps>>

(* The opt-in is signed and confirmed: new holdings are frozen. *)
OptedIn ==
    /\ enabling.step = "opt-in"
    /\ holding' = [holding EXCEPT ![enabling.wallet] = IF @ = "none" THEN "frozen" ELSE @]
    /\ enabling' = [enabling EXCEPT !.step = "unfreeze"]
    /\ UNCHANGED <<connected, side, spend, gate, gateOf, lookups, debounce, quoting, quote, tx, swaps>>

(* dev-unfreeze, and a new check of the wallet connected by then. *)
Unfrozen ==
    /\ enabling.step = "unfreeze" /\ holding[enabling.wallet] # "none"
    /\ Cardinality(lookups) < MaxAnswers
    /\ holding' = [holding EXCEPT ![enabling.wallet] = "free"]
    /\ enabling' = NotEnabling
    /\ CheckHolding(connected, side)
    /\ UNCHANGED <<connected, side, spend, gateOf, debounce, quoting, quote, tx, swaps>>

(* The wallet declines, or a call fails. *)
NotEnabled ==
    /\ enabling # NotEnabling
    /\ enabling' = NotEnabling
    /\ UNCHANGED <<holding, connected, side, spend, gate, gateOf, lookups, debounce, quoting, quote, tx, swaps>>

-----------------------------------------------------------------------------
(* handleSwap and executeSwap, which asks for a quote of its own. *)
StartSwap ==
    /\ Offered("swap") /\ spend > 0 /\ tx # "pending"
    /\ Cardinality(swaps) < MaxAnswers
    /\ swaps' = swaps \cup {[wallet |-> connected, side |-> side, amount |-> spend]}
    /\ tx' = "pending"
    /\ UNCHANGED <<holding, connected, side, spend, gate, gateOf, lookups, enabling, debounce, quoting, quote>>

(* It ends, and the form it empties is the one shown by then. *)
SwapConfirmed(s) ==
    /\ s \in swaps
    /\ s.side = "buy" => holding[s.wallet] = "free"
    /\ swaps' = swaps \ {s}
    /\ tx' = "success" /\ spend' = 0
    /\ AskQuote(side, 0)
    /\ UNCHANGED <<holding, connected, side, gate, gateOf, lookups, enabling, quoting>>

(* An error, also one of the second sending of a group that went through.  *)
SwapFailed(s) ==
    /\ s \in swaps
    /\ swaps' = swaps \ {s}
    /\ tx' = "error"
    /\ UNCHANGED <<holding, connected, side, spend, gate, gateOf, lookups, enabling, debounce, quoting, quote>>

SwapNext ==
    \/ \E w \in Traders \cup {NoTrader} : Connect(w)
    \/ \E l \in lookups : LookedUp(l)
    \/ \E s \in {"buy", "sell"} : SwitchSide(s)
    \/ \E n \in 0..MaxSpend : Type(n)
    \/ GetQuote \/ \E q \in quoting : Quoted(q)
    \/ Enable("opt-in", "opt-in") \/ Enable("unfreeze", "unfreeze")
    \/ OptedIn \/ Unfrozen \/ NotEnabled
    \/ StartSwap \/ \E s \in swaps : SwapConfirmed(s) \/ SwapFailed(s)

SwapSpec == SwapInit /\ [][SwapNext]_swapVars

-----------------------------------------------------------------------------
(* However slowly the node answers and whatever the user does meanwhile,   *)
(* Buy is offered to a wallet only on an answer about that wallet, and     *)
(* every buy under way is of a wallet that could hold the tokens when it   *)
(* was offered: only the cancelled flag of swap-panel.tsx:116 sees to it   *)
(* (liquidity-panel.tsx:80 has none).                                      *)
BuyerWasChecked ==
    /\ side = "buy" /\ gate = "ready" /\ connected # NoTrader
         => gateOf = connected /\ holding[connected] = "free"
    /\ \A s \in swaps : s.side = "buy" => holding[s.wallet] = "free"
=============================================================================
