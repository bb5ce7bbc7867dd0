---------------------------- MODULE TradeLedger ----------------------------
(***************************************************************************)
(* What settlement promises, with no service, transaction or retry in it:  *)
(* an order's USDC is held, given back, or exchanged for tokens in one     *)
(* indivisible step; and the platform reports a trade as settled only      *)
(* after its exchange has taken place.  Settlement implements this module. *)
(***************************************************************************)
CONSTANTS
    Trades,
    Orders,
    OrderOf    \* trade -> its buy order; outside Orders: not held in escrow

VARIABLES
    custody,   \* order -> what the escrow holds of it
    exchanged, \* trades whose tokens and USDC have changed hands
    reported   \* trades the platform's records call settled

ledgerVars == <<custody, exchanged, reported>>

Custody == {"none", "held", "released"}

Init ==
    /\ custody = [o \in Orders |-> "none"]
    /\ exchanged = {}
    /\ reported = {}

HoldFunds(o) ==
    /\ custody[o] = "none"
    /\ custody' = [custody EXCEPT ![o] = "held"]
    /\ UNCHANGED <<exchanged, reported>>

Refund(o) ==
    /\ custody[o] = "held"
    /\ custody' = [custody EXCEPT ![o] = "none"]
    /\ UNCHANGED <<exchanged, reported>>

(* The only step that moves tokens for an order: it uses up the order's    *)
(* USDC for good, so no second trade of the order can follow.              *)
Exchange(t) ==
    /\ OrderOf[t] \in Orders
    /\ custody[OrderOf[t]] = "held"
    /\ custody' = [custody EXCEPT ![OrderOf[t]] = "released"]
    /\ exchanged' = exchanged \cup {t}
    /\ UNCHANGED reported

(* A trade with no escrowed order is paid from the admin's own wallet.     *)
ExchangeDirect(t) ==
    /\ OrderOf[t] \notin Orders
    /\ exchanged' = exchanged \cup {t}
    /\ UNCHANGED <<custody, reported>>

Report(t) ==
    /\ t \in exchanged
    /\ reported' = reported \cup {t}
    /\ UNCHANGED <<custody, exchanged>>

(* A settlement that is triggered again takes its report back. *)
Retract(t) ==
    /\ reported' = reported \ {t}
    /\ UNCHANGED <<custody, exchanged>>

Next ==
    \/ \E o \in Orders : HoldFunds(o) \/ Refund(o)
    \/ \E t \in Trades : \/ Exchange(t) \/ ExchangeDirect(t)
                         \/ Report(t) \/ Retract(t)

Spec == Init /\ [][Next]_ledgerVars

-----------------------------------------------------------------------------
(* What follows from the promise: an order's money is gone exactly when    *)
(* one trade of it has been exchanged, and only exchanged trades are       *)
(* reported.                                                               *)
LedgerInv ==
    /\ \A o \in Orders :
           custody[o] = "released" <=> \E t \in exchanged : OrderOf[t] = o
    /\ \A t, u \in exchanged :
           (OrderOf[t] = OrderOf[u] /\ OrderOf[t] \in Orders) => t = u
    /\ reported \subseteq exchanged
=============================================================================
