-------------------------- MODULE LiquidityPanel --------------------------
(***************************************************************************)
(* The panel investors add liquidity with, in USDC alone, and remove it    *)
(* (apps/web components/trading/liquidity-panel.tsx over lib/tinyman.ts).  *)
(* The wallet and its holding are those of SwapPanel.  Here no answer is   *)
(* ever cancelled.                                                         *)
(***************************************************************************)
EXTENDS SwapPanel

VARIABLES
    lpHeld,     \* LP tokens of a wallet, NotIn before it opted in
    lpTab,      \* "add" or "remove"
    lpGate,     \* gate
    lpAnswers,  \* accountInformation asked for: the wallets
    lpEnabling, \* the gate action in progress (gateBusy), or NotEnabling
    lpTyped,    \* usdcInput and lpInput, 0 when empty
    lpTimer,    \* addTimer and removeTimer: the amount that waits 600 ms, or 0
    lpQuoting,  \* quotes asked for: tab and amount
    lpQuote,    \* addQuote and removeQuote: the amount it is for, or 0
    lpBusy,     \* busy
    lpMoves     \* additions and removals being signed, sent or waited for

lpVars == <<lpHeld, lpTab, lpGate, lpAnswers, lpEnabling, lpTyped, lpTimer, lpQuoting,
            lpQuote, lpBusy, lpMoves>>
swapOnlyVars == <<side, spend, gate, gateOf, lookups, enabling, debounce, quoting, quote, tx, swaps>>

NotIn == -1
Tabs == {"add", "remove"}
NothingTyped == [t \in Tabs |-> 0]

LiquidityInit ==
    /\ lpHeld \in [Traders -> {NotIn, 1}]
    /\ lpTab = "add" /\ lpGate = "checking" /\ lpAnswers = {}
    /\ lpEnabling = NotEnabling
    /\ lpTyped = NothingTyped /\ lpTimer = NothingTyped
    /\ lpQuoting = {} /\ lpQuote = NothingTyped
    /\ lpBusy = FALSE /\ lpMoves = {}

(* The gate effect, run for a wallet. *)
AskGate(w) ==
    /\ lpGate' = "checking"
    /\ lpAnswers' = lpAnswers \cup ({w} \ {NoTrader})

ConnectLp(w) ==
    /\ w # connected
    /\ connected' = w
    /\ AskGate(w)
    /\ UNCHANGED <<holding, swapOnlyVars, lpHeld, lpTab, lpEnabling, lpTyped, lpTimer,
                   lpQuoting, lpQuote, lpBusy, lpMoves>>

GateFor(w) ==
    CASE holding[w] = "none" -> "need-optin-rwa"
      [] holding[w] = "frozen" -> "need-unfreeze"
      [] holding[w] = "free" /\ lpHeld[w] = NotIn -> "need-optin-lp"
      [] OTHER -> "ready"

(* The answer, whoever is connected by now; after an error the panel stays *)
(* at checking, and nothing asks again.                                    *)
GateAnswered(w) ==
    /\ w \in lpAnswers
    /\ lpAnswers' = lpAnswers \ {w}
    /\ lpGate' \in {GateFor(w), "checking"}
    /\ UNCHANGED <<holding, connected, swapOnlyVars, lpHeld, lpTab, lpEnabling, lpTyped, lpTimer,
                   lpQuoting, lpQuote, lpBusy, lpMoves>>

(* handleOptInRwa, handleUnfreeze, handleOptInLp *)
EnableLp ==
    /\ connected # NoTrader /\ lpEnabling = NotEnabling
    /\ lpGate \in {"need-optin-rwa", "need-unfreeze", "need-optin-lp"}
    /\ lpEnabling' = [step |-> lpGate, wallet |-> connected]
    /\ UNCHANGED <<holding, connected, swapOnlyVars, lpHeld, lpTab, lpGate, lpAnswers, lpTyped,
                   lpTimer, lpQuoting, lpQuote, lpBusy, lpMoves>>

RwaOptedIn ==
    /\ lpEnabling.step = "need-optin-rwa"
    /\ holding' = [holding EXCEPT ![lpEnabling.wallet] = IF @ = "none" THEN "frozen" ELSE @]
    /\ lpEnabling' = [lpEnabling EXCEPT !.step = "need-unfreeze"]
    /\ UNCHANGED <<connected, swapOnlyVars, lpHeld, lpTab, lpGate, lpAnswers, lpTyped, lpTimer,
                   lpQuoting, lpQuote, lpBusy, lpMoves>>

(* dev-unfreeze, or the opt-in to the LP token; the gate is asked again.   *)
EnabledLp ==
    LET w == lpEnabling.wallet IN
    /\ \/ /\ lpEnabling.step = "need-unfreeze" /\ holding[w] # "none"
          /\ holding' = [holding EXCEPT ![w] = "free"]
          /\ UNCHANGED lpHeld
       \/ /\ lpEnabling.step = "need-optin-lp"
          /\ lpHeld' = [lpHeld EXCEPT ![w] = IF @ = NotIn THEN 0 ELSE @]
          /\ UNCHANGED holding
    /\ lpEnabling' = NotEnabling
    /\ AskGate(connected)
    /\ UNCHANGED <<connected, swapOnlyVars, lpTab, lpTyped, lpTimer, lpQuoting, lpQuote,
                   lpBusy, lpMoves>>

NotEnabledLp ==
    /\ lpEnabling # NotEnabling
    /\ lpEnabling' = NotEnabling
    /\ UNCHANGED <<holding, connected, swapOnlyVars, lpHeld, lpTab, lpGate, lpAnswers, lpTyped,
                   lpTimer, lpQuoting, lpQuote, lpBusy, lpMoves>>

(* The form is there while the gate is open. *)
FormShown == connected # NoTrader /\ lpGate = "ready"

SwitchTab ==
    /\ FormShown
    /\ lpTab' = CHOOSE t \in Tabs : t # lpTab
    /\ UNCHANGED <<holding, connected, swapOnlyVars, lpHeld, lpGate, lpAnswers, lpEnabling,
                   lpTyped, lpTimer, lpQuoting, lpQuote, lpBusy, lpMoves>>

(* onUsdcInput, onLpInput: also while a transaction is under way.          *)
TypeLp(n) ==
    /\ FormShown /\ n # lpTyped[lpTab]
    /\ lpTyped' = [lpTyped EXCEPT ![lpTab] = n]
    /\ lpTimer' = [lpTimer EXCEPT ![lpTab] = n]
    /\ lpQuote' = [lpQuote EXCEPT ![lpTab] = 0]
    /\ UNCHANGED <<holding, connected, swapOnlyVars, lpHeld, lpTab, lpGate, lpAnswers,
                   lpEnabling, lpQuoting, lpBusy, lpMoves>>

(* getUsdcAddLiquidityQuote, getUsdcRemoveLiquidityQuote *)
GetLpQuote(t) ==
    /\ lpTimer[t] > 0
    /\ Cardinality(lpQuoting) < MaxAnswers
    /\ lpQuoting' = lpQuoting \cup {<<t, lpTimer[t]>>}
    /\ lpTimer' = [lpTimer EXCEPT ![t] = 0]
    /\ UNCHANGED <<holding, connected, swapOnlyVars, lpHeld, lpTab, lpGate, lpAnswers,
                   lpEnabling, lpTyped, lpQuote, lpBusy, lpMoves>>

LpQuoted(q) ==
    /\ q \in lpQuoting
    /\ lpQuoting' = lpQuoting \ {q}
    /\ \E n \in {q[2], 0} : lpQuote' = [lpQuote EXCEPT ![q[1]] = n]
    /\ UNCHANGED <<holding, connected, swapOnlyVars, lpHeld, lpTab, lpGate, lpAnswers,
                   lpEnabling, lpTyped, lpTimer, lpBusy, lpMoves>>

(* Fault: each form looks at a flag of its own. *)
MayMove_OwnForm(t) == ~lpBusy \/ \A m \in lpMoves : m.tab # t

(* Both buttons are disabled while busy. *)
MayMove(t) == ~lpBusy

(* handleAdd, handleRemove *)
Move ==
    /\ FormShown /\ lpTyped[lpTab] > 0 /\ MayMove(lpTab)
    /\ lpBusy' = TRUE
    /\ lpMoves' = lpMoves \cup
           {[wallet |-> connected, tab |-> lpTab, amount |-> lpTyped[lpTab]]}
    /\ UNCHANGED <<holding, connected, swapOnlyVars, lpHeld, lpTab, lpGate, lpAnswers,
                   lpEnabling, lpTyped, lpTimer, lpQuoting, lpQuote>>

(* addLiquidityUsdc, removeLiquidityToUsdc: confirmed.  The form, whatever *)
(* has been typed since, is emptied, and the gate asked again.             *)
Moved(m) ==
    /\ m \in lpMoves /\ lpHeld[m.wallet] # NotIn
    /\ \/ m.tab = "add" /\ lpHeld' = [lpHeld EXCEPT ![m.wallet] = 1]
       \/ m.tab = "remove" /\ lpHeld[m.wallet] > 0 /\ lpHeld' \in
              {[lpHeld EXCEPT ![m.wallet] = n] : n \in {0, 1}}
    /\ lpMoves' = lpMoves \ {m} /\ lpBusy' = FALSE
    /\ lpTyped' = [lpTyped EXCEPT ![m.tab] = 0]
    /\ lpQuote' = [lpQuote EXCEPT ![m.tab] = 0]
    /\ AskGate(connected)
    /\ UNCHANGED <<holding, connected, swapOnlyVars, lpTab, lpEnabling, lpTimer, lpQuoting>>

(* Declined, refused, or not confirmed in time, though it may have been    *)
(* sent.                                                                   *)
NotMoved(m) ==
    /\ m \in lpMoves
    /\ lpMoves' = lpMoves \ {m} /\ lpBusy' = FALSE
    /\ UNCHANGED <<holding, connected, swapOnlyVars, lpHeld, lpTab, lpGate, lpAnswers,
                   lpEnabling, lpTyped, lpTimer, lpQuoting, lpQuote>>

LiquidityNext ==
    \/ \E w \in Traders \cup {NoTrader} : ConnectLp(w)
    \/ \E w \in lpAnswers : GateAnswered(w)
    \/ EnableLp \/ RwaOptedIn \/ EnabledLp \/ NotEnabledLp \/ SwitchTab \/ Move
    \/ \E n \in 0..MaxSpend : TypeLp(n)
    \/ \E t \in Tabs : GetLpQuote(t)
    \/ \E q \in lpQuoting : LpQuoted(q)
    \/ \E m \in lpMoves : Moved(m) \/ NotMoved(m)

LiquiditySpec == SwapInit /\ LiquidityInit /\ [][LiquidityNext]_<<swapVars, lpVars>>

-----------------------------------------------------------------------------
(* Whichever tab, wallet or gate is shown by now, one addition or removal  *)
(* is under way at a time, so that the answer that empties a form and      *)
(* frees the buttons is that of the transaction the user waits for         *)
(* (liquidity-panel.tsx:194, 213).                                         *)
OneMoveAtATime ==
    \A m \in lpMoves : lpBusy /\ lpMoves = {m}
=============================================================================
