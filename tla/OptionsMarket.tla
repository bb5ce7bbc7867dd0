--------------------------- MODULE OptionsMarket ---------------------------
(***************************************************************************)
(* The OptionsMarket application (contracts/options_market.py) over its    *)
(* pool and the oracle whose current_price it reads, whatever its age.     *)
(* One call is one atomic group: with the inner calls to the pool it       *)
(* happens whole or not at all.                                            *)
(***************************************************************************)
EXTENDS OptionsPool, Oracle, Sequences

CONSTANTS
    Buyers, Strikes, Sizes,   \* what create_option is called with
    MarketPayments,           \* ALGO that is paid to the market as transaction 0
    MinExpiry, MaxExpiry,     \* min_expiry, max_expiry
    Precision,                \* one ALGO
    TradingFee,               \* basis points of the premium
    MinOperational, ReserveTarget,   \* thresholds of _route_fee
    MarketFunds, MarketMinBalance,
    BoxRent,                  \* minimum balance of one option box
    MaxOptions,               \* bound: options ever created
    MaxMarketBalance          \* bound: ALGO up to which the market is paid

ASSUME MarketAssumption ==
    /\ Strikes \subseteq Nat \ {0} /\ Sizes \subseteq Nat \ {0}
    /\ MarketPayments \subseteq Nat /\ TradingFee \in 0..10000
    /\ Precision \in Nat \ {0}
    /\ {MinExpiry, MaxExpiry, MinOperational, ReserveTarget, MarketFunds,
        MarketMinBalance, BoxRent, MaxOptions, MaxMarketBalance} \subseteq Nat

VARIABLES
    options,         \* id -> box
    active,          \* total_active_options
    callOi, putOi,   \* total_call_oi, total_put_oi
    reserve,         \* operational_reserve
    marketPaused,    \* is_paused
    marketBalance    \* ALGO of the market's account

marketVars == <<options, active, callOi, putOi, reserve, marketPaused, marketBalance>>
vars       == <<poolVars, oracleVars, marketVars, group>>

-----------------------------------------------------------------------------
(* _calculate_premium.  The time value, at most 28 * 0.000001 ALGO per     *)
(* ALGO and 30 days, is below the unit of the model: what is left is the   *)
(* intrinsic value, scaled by the size twice as in the code, and the floor *)
(* of half a percent.                                                      *)
Premium(isCall, strike, size) ==
    LET intrinsic == IF isCall
                     THEN (Floored(currentPrice - strike) * size) \div currentPrice
                     ELSE (Floored(strike - currentPrice) * size) \div strike
    IN  Max({(intrinsic * size) \div Precision, size \div 200})

(* The payoff of settle_option and get_payoff. *)
Payoff(o) ==
    IF o.isCall
    THEN (Floored(currentPrice - o.strike) * o.size) \div currentPrice
    ELSE (Floored(o.strike - currentPrice) * o.size) \div o.strike

(* _route_fee: the part of a fee that stays; the balance it reads holds    *)
(* the payment of the group already.                                       *)
OperationalFee(fee, balance) ==
    IF balance < MinOperational THEN fee
    ELSE IF balance < ReserveTarget THEN BasisPoints(fee, 5000)
    ELSE BasisPoints(fee, 1000)

MarketSends(balance, amount, n) ==
    /\ marketBalance' = balance - amount - n * TxnFee
    /\ marketBalance' >= MarketMinBalance + Len(options') * BoxRent

(* The open interest after s enters or leaves the options of one kind; the *)
(* subtraction is skipped when it would go below zero.                     *)
Counted(oi, s)   == oi + s
Discounted(oi, s) == IF oi >= s THEN oi - s ELSE oi

(* Transaction 0 pays the market. *)
PayMarket(amount) ==
    /\ Begin("algo", "market", amount)
    /\ marketBalance + amount <= MaxMarketBalance
    /\ marketBalance' = marketBalance + amount
    /\ UNCHANGED <<options, active, callOi, putOi, reserve, marketPaused, poolVars,
                   oracleVars>>

(* create_option: the payment is in the account; the premium goes to the   *)
(* pool, part of the fee to the staking contract's account.  The collateral*)
(* is written into the box and locked nowhere.                             *)
CreateOption(b, isCall, strike, life, size) ==
    LET premium == Premium(isCall, strike, size)
        fee     == BasisPoints(premium, TradingFee)
        kept    == OperationalFee(fee, marketBalance)
    IN  /\ ~marketPaused /\ Len(options) < MaxOptions
        /\ life \in MinExpiry..MaxExpiry
        /\ currentPrice > 0
        /\ Carries("algo", "market") /\ Book(premium + fee)
        /\ options' = Append(options,
               [isCall |-> isCall, strike |-> strike, expiry |-> now + life,
                size |-> size, buyer |-> b, settlementPrice |-> 0,
                isSettled |-> FALSE])
        /\ active' = active + 1
        /\ IF isCall THEN callOi' = Counted(callOi, size) /\ UNCHANGED putOi
                     ELSE putOi' = Counted(putOi, size) /\ UNCHANGED callOi
        /\ ReceivePremium(premium)
        /\ reserve' = reserve + kept
        /\ MarketSends(marketBalance, premium + (fee - kept), IF fee > kept THEN 3 ELSE 2)
        /\ UNCHANGED <<marketPaused, oracleVars>>

MaySettle(o) == ~marketPaused /\ o.expiry <= now /\ ~o.isSettled

(* settle_option, by anyone, at the current_price of that moment.  A pool  *)
(* without the payoff makes the whole call fail.                           *)
SettleOption(i) ==
    LET o == options[i] IN
    /\ MaySettle(o) /\ currentPrice > 0
    /\ options' = [options EXCEPT ![i].isSettled = TRUE,
                                  ![i].settlementPrice = currentPrice]
    /\ IF Payoff(o) > 0
       THEN PaySettlement(Payoff(o)) /\ MarketSends(marketBalance, 0, 1)
       ELSE UNCHANGED <<poolVars, marketBalance>>
    /\ active' = active - 1
    /\ IF o.isCall THEN callOi' = Discounted(callOi, o.size) /\ UNCHANGED putOi
                   ELSE putOi' = Discounted(putOi, o.size) /\ UNCHANGED callOi
    /\ UNCHANGED <<reserve, marketPaused, oracleVars, group>>

(* pause, unpause *)
PauseMarket ==
    /\ marketPaused' = ~marketPaused
    /\ UNCHANGED <<options, active, callOi, putOi, reserve, marketBalance,
                   poolVars, oracleVars, group>>

Init ==
    /\ PoolInit /\ OracleInit
    /\ options = <<>> /\ active = 0 /\ callOi = 0 /\ putOi = 0 /\ reserve = 0
    /\ marketPaused = FALSE /\ marketBalance = MarketFunds

Next ==
    \/ PoolNext /\ UNCHANGED <<oracleVars, marketVars>>
    \/ OracleNext /\ UNCHANGED <<poolVars, marketVars, group>>
    \/ \E x \in MarketPayments : PayMarket(x)
    \/ \E b \in Buyers, c \in BOOLEAN, k \in Strikes, l \in MinExpiry..MaxExpiry,
          s \in Sizes : CreateOption(b, c, k, l, s)
    \/ \E i \in DOMAIN options : SettleOption(i)
    \/ PauseMarket

Spec == Init /\ [][Next]_vars

-----------------------------------------------------------------------------
Held(f) == SumFunctionOnSet(f, DOMAIN f)

(* receive_premium believes the amount it is told, withdraw keeps its fee  *)
(* outside total_liquidity, and every inner transaction is paid by the     *)
(* account itself (options_pool.py:373, :199): what the pool says it owes  *)
(* is in its account but for those transaction fees, the deployer's funds  *)
(* and what the deposits of one group booked of the same payment (:172).   *)
PoolCoversBooks ==
    poolBalance + poolTxns * TxnFee + overbooked >= PoolFunds + liquidity

(* The LP token moves between accounts and the boxes do not follow         *)
(* (options_pool.py:284): the tokens outside the pool exceed total_shares  *)
(* by no more than the withdrawals of one group burned for tokens that one *)
(* of them had burned already (:255), and the boxes, which also count      *)
(* tokens long sold, never show less.                                      *)
SharesAccounted == Held(lpTokens) <= shares + overburned /\ shares <= Held(lpBoxes)

(* Only a settlement may lower the value of a share: deposits, withdrawals *)
(* and premiums, with all their roundings and fees, never do               *)
(* (options_pool.py:549, :558).                                            *)
NoDilution ==
    [][shares > 0 /\ active' >= active => liquidity' * shares >= liquidity * shares']_vars
=============================================================================
