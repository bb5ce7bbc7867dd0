---------------------------- MODULE OptionsPool ----------------------------
(***************************************************************************)
(* The OptionsPool application (contracts/options_pool.py): the LPs' ALGO  *)
(* that pays every option.  lock_collateral and release_collateral assert  *)
(* that the market calls them and no line of the market does:              *)
(* utilized_liquidity stays 0 and is left out, as are the statistics.      *)
(***************************************************************************)
EXTENDS TxnGroup, FiniteSetsExt, Functions

CONSTANTS
    LPs,             \* accounts that hold the LP token
    PoolPayments,    \* ALGO that is paid to the pool as transaction 0
    MinDeposit,      \* min_deposit
    Burns,           \* shares an LP may burn in one call
    DepositFee, WithdrawFee,   \* basis points
    TxnFee,          \* Global.min_txn_fee, paid by the sending account
    PoolFunds,       \* ALGO the deployer sends to the pool's account
    PoolMinBalance,  \* minimum balance of the pool's account
    LpBoxRent,       \* minimum balance of one LP position box
    MaxPoolTxns,     \* bound: inner transactions the pool sends
    MaxPoolBalance   \* bound: ALGO up to which the pool is paid

ASSUME PoolAssumption ==
    /\ {DepositFee, WithdrawFee} \subseteq 0..10000
    /\ {TxnFee, PoolFunds, PoolMinBalance, LpBoxRent, MaxPoolTxns, MinDeposit,
        MaxPoolBalance} \subseteq Nat
    /\ PoolPayments \subseteq Nat /\ Burns \subseteq Nat \ {0}
    /\ IsFiniteSet(LPs)

VARIABLES
    liquidity,     \* total_liquidity
    shares,        \* total_shares
    lpTokens,      \* LP tokens each account holds (the ASA)
    lpBoxes,       \* lp_positions: the shares the boxes record, per account
    poolPaused,    \* is_paused
    poolBalance,   \* ALGO of the pool's account
    poolTxns,      \* inner transactions the pool has paid TxnFee for
    overbooked,    \* history: ALGO booked again from a payment already booked
    overburned     \* history: shares burned again for tokens already booked

poolVars == <<liquidity, shares, lpTokens, lpBoxes, poolPaused, poolBalance,
              poolTxns, overbooked, overburned>>

PoolInit ==
    /\ liquidity = 0 /\ shares = 0 /\ poolTxns = 0
    /\ lpTokens = [a \in LPs |-> 0] /\ lpBoxes = <<>>
    /\ poolPaused = FALSE /\ poolBalance = PoolFunds
    /\ overbooked = 0 /\ overburned = 0 /\ group = NoGroup

BasisPoints(x, rate) == (x * rate) \div 10000

(* The account after n inner transactions that send "amount" out of it.    *)
PoolSends(amount, n) ==
    /\ poolTxns + n <= MaxPoolTxns
    /\ poolTxns' = poolTxns + n
    /\ poolBalance' = poolBalance - amount - n * TxnFee
    /\ poolBalance' >= PoolMinBalance + Cardinality(DOMAIN lpBoxes') * LpBoxRent

(* Fault: the division rounds up, in favour of who deposits. *)
SharesFor_RoundedUp(amount) ==
    IF shares = 0 \/ liquidity = 0 THEN amount
    ELSE (amount * shares + liquidity - 1) \div liquidity

(* _calculate_shares_for_deposit *)
SharesFor(amount) ==
    IF shares = 0 \/ liquidity = 0 THEN amount
    ELSE (amount * shares) \div liquidity

(* _calculate_algo_for_shares *)
AlgoFor(s) == IF shares = 0 THEN 0 ELSE (s * liquidity) \div shares

BoxOf(a) == IF a \in DOMAIN lpBoxes THEN lpBoxes[a] ELSE 0

WithBox(a, s) ==
    [b \in DOMAIN lpBoxes \cup {a} |-> IF b = a THEN s ELSE lpBoxes[b]]

(* Transaction 0 pays the pool. *)
PayPool(amount) ==
    /\ Begin("algo", "pool", amount)
    /\ poolBalance + amount <= MaxPoolBalance
    /\ poolBalance' = poolBalance + amount
    /\ UNCHANGED <<liquidity, shares, lpTokens, lpBoxes, poolPaused, poolTxns,
                   overbooked, overburned>>

(* Transaction 0 sends LP tokens, an unfrozen ASA, to the pool or to any   *)
(* account.                                                                *)
SendLp(a, to, amount) ==
    /\ Begin("lp", to, amount)
    /\ a # to /\ amount <= lpTokens[a]
    /\ lpTokens' = IF to = "pool" THEN [lpTokens EXCEPT ![a] = @ - amount]
                   ELSE [lpTokens EXCEPT ![a] = @ - amount, ![to] = @ + amount]
    /\ UNCHANGED <<liquidity, shares, lpBoxes, poolPaused, poolBalance, poolTxns,
                   overbooked, overburned>>

(* deposit: the payment is in the account; the LP tokens and the fee leave.*)
Deposit(a) ==
    LET payment == group.amount
        fee     == BasisPoints(payment, DepositFee)
        minted  == SharesFor(payment - fee)
    IN  /\ ~poolPaused
        /\ Carries("algo", "pool") /\ payment >= MinDeposit
        /\ Book(payment)
        /\ overbooked' = overbooked + BookedAgain(payment)
        /\ lpTokens' = [lpTokens EXCEPT ![a] = @ + minted]
        /\ liquidity' = liquidity + payment - fee
        /\ shares' = shares + minted
        /\ lpBoxes' = WithBox(a, BoxOf(a) + minted)
        /\ PoolSends(fee, IF fee > 0 THEN 2 ELSE 1)
        /\ UNCHANGED <<poolPaused, overburned>>

(* Fault: the comparison is the wrong way round. *)
BoxesAfterBurn_Swapped(a, s) ==
    IF BoxOf(a) < s THEN lpBoxes
    ELSE Restrict(lpBoxes, DOMAIN lpBoxes \ {a})

(* The box of the caller after it burns s shares: deleted when it records  *)
(* no more than s.                                                         *)
BoxesAfterBurn(a, s) ==
    IF BoxOf(a) > s THEN WithBox(a, BoxOf(a) - s)
    ELSE Restrict(lpBoxes, DOMAIN lpBoxes \ {a})

(* withdraw: transaction 0 sent the tokens, whoever calls.  The fee stays  *)
(* in the account, outside total_liquidity, and so do the tokens sent      *)
(* beyond those the call burns.                                            *)
Withdraw(a, s) ==
    LET amount == AlgoFor(s)
        net    == amount - BasisPoints(amount, WithdrawFee)
    IN  /\ ~poolPaused
        /\ Carries("lp", "pool") /\ Book(s)
        /\ overburned' = overburned + BookedAgain(s)
        /\ amount <= liquidity /\ s <= shares
        /\ liquidity' = liquidity - amount
        /\ shares' = shares - s
        /\ lpBoxes' = BoxesAfterBurn(a, s)
        /\ PoolSends(net, 1)
        /\ UNCHANGED <<poolPaused, lpTokens, overbooked>>

(* pause, unpause *)
PausePool ==
    /\ poolPaused' = ~poolPaused
    /\ UNCHANGED <<liquidity, shares, lpTokens, lpBoxes, poolBalance, poolTxns,
                   overbooked, overburned, group>>

(* The market pays a premium, then calls receive_premium, which trusts the *)
(* amount it is told.                                                      *)
ReceivePremium(amount) ==
    /\ poolBalance' = poolBalance + amount
    /\ liquidity' = liquidity + amount
    /\ UNCHANGED <<shares, lpTokens, lpBoxes, poolPaused, poolTxns, overbooked,
                   overburned>>

(* Fault: the payout is not taken off total_liquidity. *)
PaySettlement_Unbooked(amount) ==
    /\ amount <= liquidity
    /\ UNCHANGED <<liquidity, shares, lpTokens, lpBoxes, poolPaused, overbooked,
                   overburned>>
    /\ PoolSends(amount, 1)

(* pay_settlement: not stopped by the pool's pause. *)
PaySettlement(amount) ==
    /\ amount <= liquidity
    /\ liquidity' = liquidity - amount
    /\ UNCHANGED <<shares, lpTokens, lpBoxes, poolPaused, overbooked, overburned>>
    /\ PoolSends(amount, 1)

PoolNext ==
    \/ \E x \in PoolPayments : PayPool(x)
    \/ \E a \in LPs, to \in LPs \cup {"pool"}, x \in Burns : SendLp(a, to, x)
    \/ \E a \in LPs : Deposit(a)
    \/ \E a \in LPs, s \in Burns : Withdraw(a, s)
    \/ PausePool
    \/ End /\ UNCHANGED poolVars
=============================================================================
