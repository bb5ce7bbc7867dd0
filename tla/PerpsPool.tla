----------------------------- MODULE PerpsPool -----------------------------
(***************************************************************************)
(* The PerpetualsPool application (contracts/perpetuals_pool.py): the LPs' *)
(* ALGO, counterparty of every position.  reserve_liquidity,               *)
(* release_liquidity, update_open_interest and process_funding assert that *)
(* the market calls them, and no line of the market does: the reserve, the *)
(* pool's open interest and the funding rate stay 0 and are left out.      *)
(***************************************************************************)
EXTENDS TxnGroup, FiniteSetsExt

CONSTANTS
    LPs,             \* accounts that hold the LP token
    PoolPayments,    \* ALGO that is paid to the pool as transaction 0
    MinDeposit,      \* min_deposit
    Withdrawals,     \* shares an LP may burn in one call
    DepositFee, WithdrawFee,   \* basis points
    TxnFee,          \* Global.min_txn_fee, paid by the sending account
    PoolFunds,       \* ALGO the deployer sends to the pool's account
    PoolMinBalance,  \* minimum balance of the pool's account
    TradingFees,     \* amounts collect_trading_fee is told
    MaxPoolTxns,     \* bound: inner transactions the pool sends
    MaxPoolBalance   \* bound: ALGO up to which the pool is paid

ASSUME PoolAssumption ==
    /\ {DepositFee, WithdrawFee} \subseteq 0..10000
    /\ {TxnFee, PoolFunds, PoolMinBalance, MaxPoolTxns, MinDeposit,
        MaxPoolBalance} \subseteq Nat
    /\ PoolPayments \subseteq Nat /\ TradingFees \subseteq Nat
    /\ Withdrawals \subseteq Nat \ {0}

VARIABLES
    totalLiquidity,  \* total_liquidity
    totalShares,     \* total_shares
    poolPaused,      \* is_paused
    lpTokens,        \* LP tokens each account holds (the ASA, not the boxes)
    poolBalance,     \* ALGO of the pool's account
    poolTxns,        \* inner transactions the pool has paid TxnFee for
    overbooked       \* history: ALGO booked again from a payment already booked

poolVars == <<totalLiquidity, totalShares, poolPaused, lpTokens, poolBalance,
              poolTxns, overbooked>>

BasisPoints(x, rate) == (x * rate) \div 10000

(* The account's ALGO after n inner transactions that send it out; the     *)
(* node refuses a group that leaves it under its minimum.                  *)
PoolSends(balance, n) ==
    /\ poolTxns + n <= MaxPoolTxns
    /\ poolTxns' = poolTxns + n
    /\ poolBalance' = balance - n * TxnFee
    /\ poolBalance' >= PoolMinBalance

PoolInit ==
    /\ totalLiquidity = 0 /\ totalShares = 0 /\ poolTxns = 0
    /\ overbooked = 0 /\ group = NoGroup
    /\ poolPaused = FALSE
    /\ lpTokens = [a \in LPs |-> 0]
    /\ poolBalance = PoolFunds

-----------------------------------------------------------------------------
(* _calculate_shares_for_deposit *)
SharesForDeposit(amount) ==
    IF totalShares = 0 \/ totalLiquidity = 0
    THEN amount
    ELSE (amount * totalShares) \div totalLiquidity

(* Fault: the burnt shares are taken from total_shares before the division. *)
AlgoForShares_AfterBurn(shares) ==
    IF totalShares <= shares THEN totalLiquidity
    ELSE (shares * totalLiquidity) \div (totalShares - shares)

(* _calculate_algo_for_shares *)
AlgoForShares(shares) ==
    IF totalShares = 0 THEN 0 ELSE (shares * totalLiquidity) \div totalShares

(* Transaction 0 pays the pool. *)
PayPool(amount) ==
    /\ Begin("algo", "pool", amount)
    /\ poolBalance + amount <= MaxPoolBalance
    /\ poolBalance' = poolBalance + amount
    /\ UNCHANGED <<totalLiquidity, totalShares, poolPaused, lpTokens, poolTxns, overbooked>>

(* Transaction 0 sends LP tokens, an unfrozen ASA, to the pool or to any   *)
(* account, the sender's own too.                                          *)
SendLp(a, to, amount) ==
    /\ Begin("lp", to, amount)
    /\ amount <= lpTokens[a]
    /\ lpTokens' = [b \in LPs |-> lpTokens[b] - (IF b = a THEN amount ELSE 0)
                                            + (IF b = to THEN amount ELSE 0)]
    /\ UNCHANGED <<totalLiquidity, totalShares, poolPaused, poolBalance, poolTxns, overbooked>>

(* deposit: the payment is in the account already; the LP tokens and the   *)
(* fee for staking leave it.                                               *)
Deposit(a) ==
    LET payment == group.amount
        fee     == BasisPoints(payment, DepositFee)
        shares  == SharesForDeposit(payment - fee)
    IN  /\ ~poolPaused
        /\ Carries("algo", "pool") /\ payment >= MinDeposit
        /\ Book(payment)
        /\ overbooked' = overbooked + BookedAgain(payment)
        /\ lpTokens' = [lpTokens EXCEPT ![a] = @ + shares]
        /\ totalLiquidity' = totalLiquidity + payment - fee
        /\ totalShares' = totalShares + shares
        /\ PoolSends(poolBalance - fee, IF fee > 0 THEN 2 ELSE 1)
        /\ UNCHANGED poolPaused

(* withdraw: transaction 0 sends enough LP tokens, to whomever; what it    *)
(* sends over "shares" is kept.  The fee stays in the account, outside     *)
(* total_liquidity.                                                        *)
Withdraw(shares) ==
    LET amount == AlgoForShares(shares)
        net    == amount - BasisPoints(amount, WithdrawFee)
    IN  /\ ~poolPaused
        /\ group.asset = "lp" /\ Book(shares)
        /\ amount <= totalLiquidity /\ shares <= totalShares
        /\ totalLiquidity' = totalLiquidity - amount
        /\ totalShares' = totalShares - shares
        /\ PoolSends(poolBalance - net, 1)
        /\ UNCHANGED <<poolPaused, lpTokens, overbooked>>

(* Fault: the subtraction of total_liquidity is missing. *)
ProcessPnl_Unbooked(amount, isProfit) ==
    /\ isProfit
    /\ amount <= totalLiquidity
    /\ UNCHANGED <<totalLiquidity, overbooked>>
    /\ PoolSends(poolBalance - amount, 1)

(* process_pnl, from the market: a profit is paid out of total_liquidity.  *)
(* The branch of a loss asserts that transaction 0 of its group is a       *)
(* payment; the market's inner group is this one call, so it cannot pass.  *)
ProcessPnl(amount, isProfit) ==
    /\ isProfit
    /\ amount <= totalLiquidity
    /\ totalLiquidity' = totalLiquidity - amount
    /\ PoolSends(poolBalance - amount, 1)
    /\ UNCHANGED overbooked

(* A plain payment from the market: no line of the pool runs.              *)
PoolReceives(amount) ==
    /\ poolBalance' = poolBalance + amount
    /\ UNCHANGED <<totalLiquidity, poolTxns, overbooked>>

(* pause, unpause *)
PausePool ==
    /\ poolPaused' = ~poolPaused
    /\ UNCHANGED <<totalLiquidity, totalShares, lpTokens, poolBalance, poolTxns,
                   overbooked, group>>

(* collect_trading_fee: anyone, behind a payment that covers the amount.   *)
CollectTradingFee(amount) ==
    /\ Carries("algo", "pool") /\ Book(amount)
    /\ overbooked' = overbooked + BookedAgain(amount)
    /\ totalLiquidity' = totalLiquidity + amount
    /\ UNCHANGED <<totalShares, poolPaused, lpTokens, poolBalance, poolTxns>>

PoolNext ==
    \/ \E x \in PoolPayments : PayPool(x)
    \/ \E a \in LPs, to \in LPs \cup {"pool"}, x \in Withdrawals : SendLp(a, to, x)
    \/ \E a \in LPs : Deposit(a)
    \/ \E s \in Withdrawals : Withdraw(s)
    \/ \E x \in TradingFees : CollectTradingFee(x)
    \/ PausePool
    \/ End /\ UNCHANGED poolVars
=============================================================================
