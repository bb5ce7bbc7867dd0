----------------------------- MODULE Settlement -----------------------------
(***************************************************************************)
(* The settlement service (services/settlement), the Algorand network as   *)
(* it sees it, and the escrow contract its transaction groups call.        *)
(*                                                                         *)
(* Every delivery of a matched trade starts a run of processMatch: an      *)
(* asynchronous task that stops at each await.  Runs of one trade share    *)
(* its database row and interleave freely; a timer that waits to retry     *)
(* lives in memory only.  A broadcast group stays pending until the        *)
(* network executes it (all of it, or nothing) or drops it, long after     *)
(* the run that sent it may have given up waiting.                         *)
(***************************************************************************)
EXTENDS Escrow, FiniteSets

CONSTANTS
    Trades,
    OrderOf,        \* trade -> buyOrderId; outside Orders: no escrow is used
    SellerOf,       \* trade -> seller's address
    UsdcAmount,     \* trade -> price * quantity / USDC_SCALE
    FeeDivisor,     \* 1 / TAKER_FEE_RATE
    MinFee,         \* MIN_FEE_USDC
    MaxRetries,     \* SETTLEMENT_MAX_RETRIES
    SellerTokens,   \* bound: lots each seller holds; a trade moves one lot
    Runs,           \* bound: runs that can be in progress together
    MaxDeliveries,  \* bound: times one trade is delivered to the service
    Txs,            \* bound: transaction groups ever broadcast
    NoTrade, NoTx,
    Faults          \* what may go wrong around the service, see FaultKinds

FaultKinds == {"crash",   \* the service process restarts
               "net",     \* a call to the node fails, or only its reply is lost
               "db",      \* a database write fails
               "lookup"}  \* node and indexer do not answer a lookup

VARIABLES
    runs,           \* run -> program counter, trade, attempt, known txid
    deliveries,     \* trade -> how often it was delivered
    record,         \* trade -> its row in the Settlement table
    txState,        \* group -> unused, pending, confirmed, rejected, dropped
    txTrade,        \* group -> the trade it settles
    sellerTokens,   \* seller -> lots of the asset held
    delivered,      \* trade -> lots its buyer received for it
    buyersOptedIn,  \* trades whose buyer has opted in to the asset
    unfrozen        \* trades whose buyer has been unfrozen afterwards

chainVars == <<txState, txTrade, sellerTokens, delivered, escrowVars>>
vars == <<runs, deliveries, record, buyersOptedIn, unfrozen, chainVars>>

ASSUME SettlementAssumption ==
    /\ OrderOf \in [Trades -> Orders \cup {NoHold}]
    /\ NoHold \notin Orders
    /\ SellerOf \in [Trades -> Accounts]
    /\ UsdcAmount \in [Trades -> Nat]
    /\ FeeDivisor \in Nat \ {0}
    /\ MinFee \in Nat
    /\ MaxRetries \in Nat
    /\ SellerTokens \in Nat
    /\ MaxDeliveries \in Nat
    /\ NoTrade \notin Trades
    /\ NoTx \notin Txs
    /\ Faults \subseteq FaultKinds
    /\ IsFiniteSet(Runs) /\ IsFiniteSet(Txs)

-----------------------------------------------------------------------------
PC == {"idle", "attempt", "checking", "sending", "sent", "waiting",
       "confirmed", "finishing", "asserted", "lookup", "backoff"}

Status == {"NONE", "AWAITING_SIGNATURES", "SUBMITTING", "CONFIRMING",
           "SETTLED", "FAILED"}

TxStatus == {"unused", "pending", "confirmed", "rejected", "dropped"}

Reason == {"none", "already released", "max retries"}

Run == [pc: PC, trade: Trades \cup {NoTrade}, attempt: Nat,
        tx: Txs \cup {NoTx}]

Row == [status: Status, onChainTxId: Txs \cup {NoTx}, reason: Reason]

IdleRun == [pc |-> "idle", trade |-> NoTrade, attempt |-> 0, tx |-> NoTx]

NoRecord == [status |-> "NONE", onChainTxId |-> NoTx, reason |-> "none"]

Backed(t) == OrderOf[t] \in Orders

(* computePlatformFee: a rate, but never less than the minimum fee. *)
PlatformFee(t) ==
    LET fee == UsdcAmount[t] \div FeeDivisor
    IN  IF fee < MinFee THEN MinFee ELSE fee

(* The seller's share cannot be encoded when it is negative. *)
Payable(t) == PlatformFee(t) <= UsdcAmount[t]

ConfirmedTxs == {x \in Txs : txState[x] = "confirmed"}
Confirmed(x) == x \in ConfirmedTxs

Terminal(t) == record[t].status \in {"SETTLED", "FAILED"}

Init ==
    /\ EscrowInit
    /\ runs = [r \in Runs |-> IdleRun]
    /\ deliveries = [t \in Trades |-> 0]
    /\ record = [t \in Trades |-> NoRecord]
    /\ txState = [x \in Txs |-> "unused"]
    /\ txTrade = [x \in Txs |-> NoTrade]
    /\ sellerTokens = [s \in Accounts |-> SellerTokens]
    /\ delivered = [t \in Trades |-> 0]
    /\ buyersOptedIn = {}
    /\ unfrozen = {}

-----------------------------------------------------------------------------
(* Steps of a run.  Goto keeps the trade and attempt, Done frees the run.  *)
Goto(r, pc)       == runs' = [runs EXCEPT ![r].pc = pc]
GotoWith(r, pc, x) == runs' = [runs EXCEPT ![r].pc = pc, ![r].tx = x]
Done(r)           == runs' = [runs EXCEPT ![r] = IdleRun]

(* updateStatus: the transaction id and the reason change only when given. *)
SetStatus(t, status) ==
    record' = [record EXCEPT ![t].status = status]
SetStatusTx(t, status, x) ==
    record' = [record EXCEPT ![t].status = status, ![t].onChainTxId = x]
SetFailed(t, reason) ==
    record' = [record EXCEPT ![t].status = "FAILED", ![t].reason = reason]

rest == <<deliveries, buyersOptedIn, unfrozen, chainVars>>

(* POST /internal/settle or an ORDER_MATCHED message: processMatch upserts *)
(* the row, whatever it says, and starts the first attempt.                *)
Deliver(r, t) ==
    /\ runs[r].pc = "idle"
    /\ deliveries[t] < MaxDeliveries
    /\ deliveries' = [deliveries EXCEPT ![t] = @ + 1]
    /\ record' = [record EXCEPT ![t].status = "AWAITING_SIGNATURES",
                                ![t].reason = "none"]
    /\ runs' = [runs EXCEPT ![r] = [pc |-> "attempt", trade |-> t,
                                    attempt |-> 1, tx |-> NoTx]]
    /\ UNCHANGED <<buyersOptedIn, unfrozen, chainVars>>

OutOfRetries(r) == runs[r].attempt > MaxRetries

BeginAttempt(r) ==
    /\ runs[r].pc = "attempt"
    /\ ~OutOfRetries(r)
    /\ SetStatus(runs[r].trade, "SUBMITTING")
    /\ Goto(r, "checking")
    /\ UNCHANGED rest

GiveUp(r) ==
    /\ runs[r].pc = "attempt"
    /\ OutOfRetries(r)
    /\ SetFailed(runs[r].trade, "max retries")
    /\ Done(r)
    /\ UNCHANGED rest

(* What the service reads from the node before it builds the group. *)
ReadyToBuild(t) ==
    /\ t \in buyersOptedIn
    /\ sellerTokens[SellerOf[t]] > 0

CheckPasses(r) ==
    /\ runs[r].pc = "checking"
    /\ ReadyToBuild(runs[r].trade)
    /\ Payable(runs[r].trade)
    /\ Goto(r, "sending")
    /\ UNCHANGED <<record, rest>>

CheckFails(r) ==
    /\ runs[r].pc = "checking"
    /\ \/ ~ReadyToBuild(runs[r].trade)
       \/ ~Payable(runs[r].trade)
       \/ "net" \in Faults
    /\ Goto(r, "backoff")
    /\ UNCHANGED <<record, rest>>

-----------------------------------------------------------------------------
(* A node evaluates a group against the chain and the pending groups P it  *)
(* happens to have in its pool.  The clawback runs first, so the escrow's  *)
(* assertions are reached only when the clawback succeeds.                 *)
ClawbackWorks(t, P) ==
    /\ t \in buyersOptedIn
    /\ Cardinality({x \in P : SellerOf[txTrade[x]] = SellerOf[t]})
         < sellerTokens[SellerOf[t]]

EscrowAsserts(t, P) ==
    /\ Backed(t)
    /\ \/ isPaused
       \/ ~MayRelease(OrderOf[t], UsdcAmount[t])
       \/ \E x \in P : OrderOf[txTrade[x]] = OrderOf[t]

EscrowCanPay(t) == Backed(t) => UsdcAmount[t] <= usdc

Pending == {x \in Txs : txState[x] = "pending"}

Submit(x, t) ==
    /\ txState[x] = "unused"
    /\ txState' = [txState EXCEPT ![x] = "pending"]
    /\ txTrade' = [txTrade EXCEPT ![x] = t]

Accepted(t) == \E P \in SUBSET Pending :
    ClawbackWorks(t, P) /\ ~EscrowAsserts(t, P) /\ EscrowCanPay(t)

Broadcast(r) ==
    /\ runs[r].pc = "sending"
    /\ Accepted(runs[r].trade)
    /\ \E x \in Txs : Submit(x, runs[r].trade) /\ GotoWith(r, "sent", x)
    /\ UNCHANGED <<deliveries, record, buyersOptedIn, unfrozen,
                   sellerTokens, delivered, escrowVars>>

(* The group is in the network, but the service saw an error. *)
BroadcastReplyLost(r) ==
    /\ "net" \in Faults
    /\ runs[r].pc = "sending"
    /\ Accepted(runs[r].trade)
    /\ \E x \in Txs : Submit(x, runs[r].trade)
    /\ Goto(r, "backoff")
    /\ UNCHANGED <<deliveries, record, buyersOptedIn, unfrozen,
                   sellerTokens, delivered, escrowVars>>

BroadcastAsserts(r) ==
    /\ runs[r].pc = "sending"
    /\ \E P \in SUBSET Pending : /\ ClawbackWorks(runs[r].trade, P)
                                 /\ EscrowAsserts(runs[r].trade, P)
    /\ Goto(r, "asserted")
    /\ UNCHANGED <<record, rest>>

BroadcastRejected(r) ==
    /\ runs[r].pc = "sending"
    /\ \E P \in SUBSET Pending :
           \/ ~ClawbackWorks(runs[r].trade, P)
           \/ ~EscrowAsserts(runs[r].trade, P) /\ ~EscrowCanPay(runs[r].trade)
           \/ "net" \in Faults
    /\ Goto(r, "backoff")
    /\ UNCHANGED <<record, rest>>

(* The id is written after the broadcast, over the id of an earlier group. *)
RecordTx(r) ==
    /\ runs[r].pc = "sent"
    /\ SetStatusTx(runs[r].trade, "CONFIRMING", runs[r].tx)
    /\ Goto(r, "waiting")
    /\ UNCHANGED rest

-----------------------------------------------------------------------------
(* A bug the wait could have: any group that left the pool counts. *)
SeenConfirmed_NotPending(x) == txState[x] # "pending"

(* waitForConfirmation returns, times out, or throws the node's pool error. *)
SeenConfirmed(x) == Confirmed(x)

WaitSucceeds(r) ==
    /\ runs[r].pc = "waiting"
    /\ SeenConfirmed(runs[r].tx)
    /\ Goto(r, "confirmed")
    /\ UNCHANGED <<record, rest>>

WaitTimesOut(r) ==
    /\ runs[r].pc = "waiting"
    /\ ~Confirmed(runs[r].tx) \/ "net" \in Faults
    /\ Goto(r, "backoff")
    /\ UNCHANGED <<record, rest>>

WaitAsserts(r) ==
    /\ runs[r].pc = "waiting"
    /\ txState[runs[r].tx] = "rejected"
    /\ Goto(r, "asserted")
    /\ UNCHANGED <<record, rest>>

MarkSettled(r) ==
    /\ runs[r].pc = "confirmed"
    /\ SetStatusTx(runs[r].trade, "SETTLED", runs[r].tx)
    /\ Goto(r, "finishing")
    /\ UNCHANGED rest

(* setConfirmedRound, unfreezeBuyer (a failure is ignored), emitSettled    *)
(* (no handler is registered).                                             *)
Finish(r) ==
    /\ runs[r].pc = "finishing"
    /\ \/ unfrozen' = unfrozen \cup {runs[r].trade}
       \/ UNCHANGED unfrozen
    /\ Done(r)
    /\ UNCHANGED <<deliveries, record, buyersOptedIn, chainVars>>

-----------------------------------------------------------------------------
(* The catch block.  An error that mentions a failed assertion is taken as *)
(* "the escrow was released before": the row's transaction decides whether *)
(* this trade did it.                                                      *)
ReadTxId(r) ==
    /\ runs[r].pc = "asserted"
    /\ GotoWith(r, "lookup", record[runs[r].trade].onChainTxId)
    /\ UNCHANGED <<record, rest>>

(* The node or the indexer gives a round in which it was confirmed. *)
FoundConfirmed(x) == Confirmed(x)

LookupSettles(r) ==
    /\ runs[r].pc = "lookup"
    /\ FoundConfirmed(runs[r].tx)
    /\ SetStatusTx(runs[r].trade, "SETTLED", runs[r].tx)
    /\ Done(r)
    /\ UNCHANGED rest

(* A bug the catch block could have: it returns without closing the row. *)
CloseFailed_NoWrite(t) == UNCHANGED record

CloseFailed(t) == SetFailed(t, "already released")

LookupFails(r) ==
    /\ runs[r].pc = "lookup"
    /\ \/ ~Confirmed(runs[r].tx)
       \/ Faults \cap {"lookup", "db"} # {}
    /\ CloseFailed(runs[r].trade)
    /\ Done(r)
    /\ UNCHANGED rest

(* A bug the timer could have: the attempt is made again, not counted. *)
TimerFires_SameAttempt(r) ==
    /\ runs[r].pc = "backoff"
    /\ runs' = [runs EXCEPT ![r].pc = "attempt", ![r].tx = NoTx]
    /\ UNCHANGED <<record, rest>>

(* Every other error: setTimeout, then the next attempt. *)
TimerFires(r) ==
    /\ runs[r].pc = "backoff"
    /\ runs' = [runs EXCEPT ![r].pc = "attempt", ![r].attempt = @ + 1,
                            ![r].tx = NoTx]
    /\ UNCHANGED <<record, rest>>

(* A database write inside the try block throws and lands in the catch     *)
(* block, even after the group has been broadcast or has confirmed.        *)
WriteFails(r) ==
    /\ "db" \in Faults
    /\ runs[r].pc \in {"attempt", "sent", "confirmed", "finishing"}
    /\ ~(runs[r].pc = "attempt" /\ OutOfRetries(r))
    /\ Goto(r, "backoff")
    /\ UNCHANGED <<record, rest>>

(* A write that fails outside the try block ends the run for good. *)
RunDies(r) ==
    /\ "db" \in Faults
    /\ \/ runs[r].pc \in {"asserted", "lookup", "backoff"}
       \/ runs[r].pc = "attempt" /\ OutOfRetries(r)
    /\ Done(r)
    /\ UNCHANGED <<record, rest>>

(* A restart loses every run and every retry timer; nothing picks the      *)
(* rows up again (findPending has no caller).                              *)
Crash ==
    /\ "crash" \in Faults
    /\ runs' = [r \in Runs |-> IdleRun]
    /\ UNCHANGED <<record, rest>>

-----------------------------------------------------------------------------
(* The network.  A pending group executes as a whole, is rejected by an    *)
(* escrow assertion, or is dropped: it expired or failed for other reasons. *)
(* A bug the group could have: the USDC leg is not part of it. *)
PayLeg_Separate(t) == UNCHANGED escrowVars

(* Without an escrowed order the admin's own wallet pays instead. *)
PayLeg(t) ==
    IF Backed(t)
    THEN ReleaseToSeller(Admin, OrderOf[t], UsdcAmount[t] - PlatformFee(t),
                         PlatformFee(t))
    ELSE UNCHANGED escrowVars

Confirm(x) ==
    /\ txState[x] = "pending"
    /\ ClawbackWorks(txTrade[x], {})
    /\ Payable(txTrade[x])
    /\ PayLeg(txTrade[x])
    /\ sellerTokens' = [sellerTokens EXCEPT ![SellerOf[txTrade[x]]] = @ - 1]
    /\ delivered' = [delivered EXCEPT ![txTrade[x]] = @ + 1]
    /\ txState' = [txState EXCEPT ![x] = "confirmed"]
    /\ UNCHANGED <<runs, deliveries, record, buyersOptedIn, unfrozen, txTrade>>

Reject(x) ==
    /\ txState[x] = "pending"
    /\ ClawbackWorks(txTrade[x], {})
    /\ EscrowAsserts(txTrade[x], {})
    /\ txState' = [txState EXCEPT ![x] = "rejected"]
    /\ UNCHANGED <<runs, deliveries, record, buyersOptedIn, unfrozen,
                   txTrade, sellerTokens, delivered, escrowVars>>

Drop(x) ==
    /\ txState[x] = "pending"
    /\ txState' = [txState EXCEPT ![x] = "dropped"]
    /\ UNCHANGED <<runs, deliveries, record, buyersOptedIn, unfrozen,
                   txTrade, sellerTokens, delivered, escrowVars>>

(* Users and the admin: opt-in, deposit and lock, cancellation, pause. *)
BuyerOptsIn(t) ==
    /\ t \notin buyersOptedIn
    /\ buyersOptedIn' = buyersOptedIn \cup {t}
    /\ UNCHANGED <<runs, deliveries, record, unfrozen, chainVars>>

EscrowCall ==
    \/ \E amount \in 1..MaxAmount : Deposit(amount)
    \/ \E o \in Orders, buyer \in Accounts, amount \in 1..MaxAmount :
           RecordLock(o, buyer, amount)
    \/ \E caller \in Accounts, o \in Orders : ReturnToBuyer(caller, o)
    \/ \E caller \in Accounts : OptIntoUsdc(caller) \/ Pause(caller) \/ Unpause(caller)
    \/ \E caller, new \in Accounts : UpdateSettlementContract(caller, new)

EscrowUsed ==
    /\ EscrowCall
    /\ UNCHANGED <<runs, deliveries, record, buyersOptedIn, unfrozen,
                   txState, txTrade, sellerTokens, delivered>>

RunStep(r) ==
    \/ BeginAttempt(r) \/ GiveUp(r) \/ CheckPasses(r) \/ CheckFails(r)
    \/ Broadcast(r) \/ BroadcastReplyLost(r)
    \/ BroadcastAsserts(r) \/ BroadcastRejected(r) \/ RecordTx(r)
    \/ WaitSucceeds(r) \/ WaitTimesOut(r) \/ WaitAsserts(r)
    \/ MarkSettled(r) \/ Finish(r)
    \/ ReadTxId(r) \/ LookupSettles(r) \/ LookupFails(r) \/ TimerFires(r)

TxStep(x) == Confirm(x) \/ Reject(x) \/ Drop(x)

Next ==
    \/ \E r \in Runs, t \in Trades : Deliver(r, t)
    \/ \E r \in Runs : RunStep(r) \/ WriteFails(r) \/ RunDies(r)
    \/ Crash
    \/ \E x \in Txs : TxStep(x)
    \/ \E t \in Trades : BuyerOptsIn(t)
    \/ EscrowUsed

Spec == Init /\ [][Next]_vars

(* The event loop resumes every run whose await is over and fires every    *)
(* timer; the network decides on every pending group.                      *)
Fairness ==
    /\ \A r \in Runs : WF_vars(RunStep(r))
    /\ \A x \in Txs : WF_vars(TxStep(x))

FairSpec == Spec /\ Fairness

-----------------------------------------------------------------------------
(* Type correctness of the whole system. *)
ServiceTypeOK ==
    /\ runs \in [Runs -> Run]
    /\ \A r \in Runs : runs[r].pc # "idle" => runs[r].trade \in Trades
    /\ deliveries \in [Trades -> Nat]
    /\ record \in [Trades -> Row]
    /\ txState \in [Txs -> TxStatus]
    /\ txTrade \in [Txs -> Trades \cup {NoTrade}]
    /\ \A x \in Txs : txState[x] # "unused" => txTrade[x] \in Trades
    /\ sellerTokens \in [Accounts -> Nat]
    /\ delivered \in [Trades -> Nat]
    /\ buyersOptedIn \subseteq Trades
    /\ unfrozen \subseteq Trades

TypeOK == EscrowTypeOK /\ ServiceTypeOK

(* A row that says SETTLED names a group of this very trade that the       *)
(* network has executed, whatever retries, duplicate deliveries, restarts  *)
(* and concurrent runs have written to the row before.                     *)
SettledIsOnChain ==
    \A t \in Trades : record[t].status = "SETTLED" =>
        \E x \in Txs : /\ x = record[t].onChainTxId
                       /\ Confirmed(x)
                       /\ txTrade[x] = t

(* Delivery versus payment: an escrowed order's USDC has gone to a seller  *)
(* exactly when one group that delivered tokens for it was executed, and   *)
(* never a second one, for this trade or another trade of the order.       *)
DeliveryVersusPayment ==
    \A o \in Orders :
        /\ Released(o) <=> \E x \in Txs : Confirmed(x) /\ OrderOf[txTrade[x]] = o
        /\ \A x, y \in Txs :
               (/\ Confirmed(x) /\ Confirmed(y)
                /\ OrderOf[txTrade[x]] = o /\ OrderOf[txTrade[y]] = o) => x = y

(* A buyer is unfrozen only for an asset whose tokens have arrived. *)
UnfrozenAfterDelivery ==
    \A t \in unfrozen : delivered[t] > 0

(* One delivery of a trade broadcasts at most SETTLEMENT_MAX_RETRIES       *)
(* groups.                                                                 *)
RetryBudget ==
    \A t \in Trades :
        Cardinality({x \in Txs : txTrade[x] = t}) <= MaxRetries * deliveries[t]

(* A delivered trade that is not closed has a run at work on it that will  *)
(* write its row again (one in "finishing" has written it for the last     *)
(* time), although another run of the trade may end at any moment and      *)
(* leave the row as it finds it: nothing but a run's own memory knows that *)
(* the trade is open (findPending, settlement.repository.ts:67, has no     *)
(* caller).  It holds while the process and its database live.             *)
OpenTradesHaveARun ==
    \A t \in Trades : deliveries[t] > 0 =>
        \/ Terminal(t)
        \/ \E r \in Runs : /\ runs[r].trade = t
                           /\ runs[r].pc \notin {"idle", "finishing"}

(* How far a run is from its end: attempts first, then the awaits of the   *)
(* attempt and of its catch block.                                         *)
Ahead == [pc \in PC |->
    CASE pc = "attempt" -> 8   [] pc = "checking" -> 7 [] pc = "sending" -> 6
      [] pc = "sent" -> 5      [] pc = "waiting" -> 4
      [] pc \in {"confirmed", "asserted"} -> 3
      [] pc \in {"finishing", "lookup"} -> 2
      [] pc = "backoff" -> 1   [] pc = "idle" -> 0]

ToGo(run) == IF run.pc = "idle" THEN 0
             ELSE 9 * (MaxRetries + 1 - run.attempt) + Ahead[run.pc]

(* No path through the attempt, its catch block and its timer leads a run  *)
(* back to where it was: every step it takes brings it nearer to its end,  *)
(* whatever the network, the database and the other runs do.               *)
RunsMoveOn ==
    [][\A r \in Runs : runs[r].pc # "idle" /\ runs'[r] # runs[r] =>
           ToGo(runs'[r]) \in 0..(ToGo(runs[r]) - 1)]_vars

(* Every delivered trade is closed in the end, SETTLED or FAILED, and      *)
(* stays closed once deliveries stop, if the process keeps running.        *)
EventuallyClosed ==
    \A t \in Trades : (deliveries[t] > 0) ~> []Terminal(t)

(* settlement.service.ts 244-246: when the escrow was already released by  *)
(* an earlier group of this trade, the trade is treated as SETTLED.  So a  *)
(* row closed as "already released" belongs to a trade that never moved.   *)
ReleasedElsewhere ==
    \A t \in Trades :
        (record[t].status = "FAILED" /\ record[t].reason = "already released")
            => delivered[t] = 0

(* The abstract ledger, read off the concrete state. *)
CustodyOf(o) == IF IsLocked(o) THEN "held"
                ELSE IF Exists(o) THEN "released" ELSE "none"

custodyBar   == [o \in Orders |-> CustodyOf(o)]
exchangedBar == {txTrade[x] : x \in ConfirmedTxs}
reportedBar  == {t \in Trades : record[t].status = "SETTLED"}

Ledger == INSTANCE TradeLedger WITH
    custody <- custodyBar, exchanged <- exchangedBar, reported <- reportedBar

(* The service, the network and the escrow together implement the ledger. *)
ImplementsLedger == Ledger!Spec
=============================================================================
