---------------------------- MODULE PerpsMarket ----------------------------
(***************************************************************************)
(* The PerpetualsMarket application (contracts/perpetuals_market.py) over  *)
(* its pool.  One call is one atomic group: a step happens whole or not at *)
(* all.  The pool's funding rate stays 0 (see PerpsPool), so apply_funding *)
(* returns before it writes and is no action here; total_* statistics,     *)
(* timestamps and the leverage field are left out.                         *)
(***************************************************************************)
EXTENDS PerpsPool, Sequences, Functions

CONSTANTS
    Traders,
    Sizes, Leverages,           \* what open_position is called with
    MarketPayments,             \* ALGO that is paid to the market as transaction 0
    MarginMoves,                \* amounts of add_margin and remove_margin
    Prices,                     \* values of the oracle's current_price
    Maintenances,               \* maintenance_margin the admin may set
    MaxPositions,               \* bound: positions ever opened
    MaxCollateral,              \* bound: collateral up to which margin is added
    MaxMarketBalance,           \* bound: ALGO up to which the market is paid
    MinMargin, OpenFee, CloseFee, LiquidatorReward,
    MinOperational, ReserveTarget,  \* thresholds of _route_fee
    MarketFunds, MarketMinBalance,
    BoxRent                     \* minimum balance of one position box

ASSUME MarketAssumption ==
    /\ Sizes \subseteq Nat \ {0} /\ Leverages \subseteq Nat \ {0}
    /\ Prices \subseteq Nat \ {0} /\ MarginMoves \subseteq Nat
    /\ MarketPayments \subseteq Nat
    /\ {MaxPositions, MaxCollateral, MaxMarketBalance, MinMargin, MinOperational,
        ReserveTarget, MarketFunds, MarketMinBalance, BoxRent} \subseteq Nat

ASSUME RatesAssumption ==
    /\ Maintenances \subseteq 100..10000
    /\ {OpenFee, CloseFee, LiquidatorReward} \subseteq 0..10000

VARIABLES
    positions,         \* id -> box, for the ids given out so far
    longOi, shortOi,   \* total_long_oi, total_short_oi
    activePositions,   \* active_positions
    operationalReserve,
    maintenance,       \* maintenance_margin
    marketPaused,      \* is_paused
    marketBalance,     \* ALGO of the market's account
    price              \* current_price of the oracle application

books      == <<longOi, shortOi, activePositions>>
marketVars == <<positions, books, operationalReserve, maintenance, marketPaused,
                marketBalance, price>>
vars       == <<poolVars, marketVars, group>>

Position == [trader: Traders, isLong: BOOLEAN, size: Sizes, collateral: Nat,
             entryPrice: Prices, liquidationPrice: Nat, isOpen: BOOLEAN]

PositionIds == DOMAIN positions
Open(i)     == positions[i].isOpen
OpenIds     == {i \in PositionIds : Open(i)}

-----------------------------------------------------------------------------
(* The market's account after it sends "amount" in n inner transactions.   *)
MarketSends(balance, amount, n) ==
    /\ marketBalance' = balance - amount - n * TxnFee
    /\ marketBalance' >= MarketMinBalance + Cardinality(DOMAIN positions') * BoxRent

(* _route_fee: the part of a fee that stays in the account.  The balance   *)
(* it reads already holds the payment of the group.                        *)
OperationalFee(fee, balance) ==
    IF balance < MinOperational THEN fee
    ELSE IF balance < ReserveTarget THEN BasisPoints(fee, 5000)
    ELSE BasisPoints(fee, 1000)

OneIf(amount) == IF amount > 0 THEN 1 ELSE 0

InProfit(p) == IF p.isLong THEN price >= p.entryPrice ELSE p.entryPrice >= price

Pnl(p) ==
    LET diff == IF price >= p.entryPrice THEN price - p.entryPrice
                                         ELSE p.entryPrice - price
    IN  (diff * p.size) \div p.entryPrice

(* Collateral with the PnL of the current price, never below 0.            *)
EffectiveMargin(p) ==
    IF InProfit(p) THEN p.collateral + Pnl(p) ELSE Floored(p.collateral - Pnl(p))

NetReturn(p) == Floored(EffectiveMargin(p) - BasisPoints(p.size, CloseFee))

(* Fault: the initial margin of 5% is compared. *)
Liquidatable_AtInitial(p) == (EffectiveMargin(p) * 10000) \div p.size < 500

Liquidatable(p) == (EffectiveMargin(p) * 10000) \div p.size < maintenance

(* _calculate_liquidation_price *)
LiquidationPrice(isLong, entry, collateral, size) ==
    LET maintAmount == BasisPoints(size, maintenance)
        change      == ((collateral - maintAmount) * entry) \div size
    IN  IF collateral <= maintAmount THEN entry
        ELSE IF ~isLong THEN entry + change
        ELSE IF entry > change THEN entry - change ELSE 1

WithCollateral(p, c) ==
    [p EXCEPT !.collateral = c,
              !.liquidationPrice = LiquidationPrice(p.isLong, p.entryPrice, c, p.size)]

-----------------------------------------------------------------------------
MarketInit ==
    /\ positions = <<>>
    /\ longOi = 0 /\ shortOi = 0 /\ activePositions = 0
    /\ operationalReserve = 0
    /\ maintenance \in Maintenances
    /\ marketPaused = FALSE
    /\ marketBalance = MarketFunds
    /\ price \in Prices

Init == PoolInit /\ MarketInit

(* Transaction 0 pays the market. *)
PayMarket(amount) ==
    /\ Begin("algo", "market", amount)
    /\ marketBalance + amount <= MaxMarketBalance
    /\ marketBalance' = marketBalance + amount
    /\ UNCHANGED <<poolVars, positions, books, operationalReserve, maintenance,
                   marketPaused, price>>

(* open_position: the margin is transaction 0's amount, in the account.    *)
OpenPosition(t, isLong, size, leverage) ==
    LET required  == (size * 100) \div leverage
        payment   == group.amount
        fee       == BasisPoints(size, OpenFee)
        net       == payment - fee
        operating == OperationalFee(fee, marketBalance)
        staking   == fee - operating
    IN  /\ ~marketPaused
        /\ Len(positions) < MaxPositions
        /\ Carries("algo", "market") /\ Book(payment)
        /\ required >= MinMargin
        /\ payment >= required
        /\ net >= 0
        /\ positions' = Append(positions,
               [trader |-> t, isLong |-> isLong, size |-> size,
                collateral |-> net, entryPrice |-> price,
                liquidationPrice |-> LiquidationPrice(isLong, price, net, size),
                isOpen |-> TRUE])
        /\ longOi' = longOi + IF isLong THEN size ELSE 0
        /\ shortOi' = shortOi + IF isLong THEN 0 ELSE size
        /\ activePositions' = activePositions + 1
        /\ operationalReserve' = operationalReserve + operating
        /\ PoolReceives(net)
        /\ MarketSends(marketBalance, net + staking, 1 + OneIf(staking))
        /\ UNCHANGED <<totalShares, poolPaused, lpTokens, maintenance,
                       marketPaused, price>>

(* Fault: >= became >. *)
Less_Strict(oi, size) == IF oi > size THEN oi - size ELSE oi

(* What close_position and liquidate do to the box and the counters.       *)
Less(oi, size) == IF oi >= size THEN oi - size ELSE oi

CloseBox(i) ==
    LET p == positions[i]
    IN  /\ positions' = [positions EXCEPT ![i].isOpen = FALSE]
        /\ activePositions > 0
        /\ activePositions' = activePositions - 1
        /\ longOi' = IF p.isLong THEN Less(longOi, p.size) ELSE longOi
        /\ shortOi' = IF p.isLong THEN shortOi ELSE Less(shortOi, p.size)

(* close_position, by the trader.  The pool is called only for a positive  *)
(* return; the call and the staking fee are sent by the market.            *)
ClosePosition(i) ==
    LET p         == positions[i]
        fee       == BasisPoints(p.size, CloseFee)
        operating == OperationalFee(fee, marketBalance)
        staking   == fee - operating
        net       == NetReturn(p)
    IN  /\ ~marketPaused
        /\ Open(i)
        /\ CloseBox(i)
        /\ \/ net > 0 /\ ProcessPnl(net, InProfit(p))
           \/ net = 0 /\ UNCHANGED <<totalLiquidity, poolBalance, poolTxns, overbooked>>
        /\ operationalReserve' = operationalReserve + operating
        /\ MarketSends(marketBalance, staking, OneIf(net) + OneIf(staking))
        /\ UNCHANGED <<totalShares, poolPaused, lpTokens, maintenance,
                       marketPaused, price, group>>

(* add_margin: the amount goes on to the pool.                             *)
AddMargin(i, amount) ==
    /\ ~marketPaused
    /\ Open(i)
    /\ Carries("algo", "market") /\ Book(amount)
    /\ positions[i].collateral + amount <= MaxCollateral
    /\ positions' = [positions EXCEPT
           ![i] = WithCollateral(@, @.collateral + amount)]
    /\ PoolReceives(amount)
    /\ MarketSends(marketBalance, amount, 1)
    /\ UNCHANGED <<totalShares, poolPaused, lpTokens, books, operationalReserve,
                   maintenance, marketPaused, price>>

(* Fault: no maintenance margin has to remain. *)
MayRemove_Any(p, amount) == p.collateral > amount

(* remove_margin: the check uses the collateral alone, not the price; the  *)
(* payment leaves the market's own account.                                *)
MayRemove(p, amount) ==
    /\ p.collateral > amount
    /\ p.collateral - amount >= BasisPoints(p.size, maintenance)

RemoveMargin(i, amount) ==
    /\ ~marketPaused
    /\ Open(i)
    /\ MayRemove(positions[i], amount)
    /\ positions' = [positions EXCEPT
           ![i] = WithCollateral(@, @.collateral - amount)]
    /\ MarketSends(marketBalance, amount, 1)
    /\ UNCHANGED <<poolVars, books, operationalReserve, maintenance,
                   marketPaused, price, group>>

(* liquidate, by anyone: reward and remainder leave the market's account.  *)
Liquidate(i) ==
    LET p         == positions[i]
        margin    == EffectiveMargin(p)
        reward    == BasisPoints(margin, LiquidatorReward)
        remainder == margin - reward
    IN  /\ ~marketPaused
        /\ Open(i)
        /\ Liquidatable(p)
        /\ CloseBox(i)
        /\ PoolReceives(remainder)
        /\ MarketSends(marketBalance, margin, OneIf(reward) + OneIf(remainder))
        /\ UNCHANGED <<totalShares, poolPaused, lpTokens, operationalReserve,
                       maintenance, marketPaused, price, group>>

(* set_margin_requirements; pause, unpause; the oracle's keeper.           *)
SetMaintenance(m) ==
    /\ maintenance' = m
    /\ UNCHANGED <<poolVars, positions, books, operationalReserve, marketPaused,
                   marketBalance, price, group>>

PauseMarket ==
    /\ marketPaused' = ~marketPaused
    /\ UNCHANGED <<poolVars, positions, books, operationalReserve, maintenance,
                   marketBalance, price, group>>

UpdatePrice(p) ==
    /\ price' = p
    /\ UNCHANGED <<poolVars, positions, books, operationalReserve, maintenance,
                   marketPaused, marketBalance, group>>

Next ==
    \/ PoolNext /\ UNCHANGED marketVars
    \/ \E x \in MarketPayments : PayMarket(x)
    \/ \E t \in Traders, l \in BOOLEAN, s \in Sizes, x \in Leverages :
           OpenPosition(t, l, s, x)
    \/ \E i \in PositionIds : ClosePosition(i) \/ Liquidate(i)
    \/ \E i \in PositionIds, a \in MarginMoves : AddMargin(i, a) \/ RemoveMargin(i, a)
    \/ \E m \in Maintenances : SetMaintenance(m)
    \/ PauseMarket
    \/ \E p \in Prices : UpdatePrice(p)

Spec == Init /\ [][Next]_vars

-----------------------------------------------------------------------------
Longs  == {i \in OpenIds : positions[i].isLong}
Shorts == OpenIds \ Longs

SizeOf(ids) == SumFunctionOnSet([i \in PositionIds |-> positions[i].size], ids)
Margins     == SumFunctionOnSet([i \in PositionIds |-> positions[i].collateral], OpenIds)

(* The counters that open_position, close_position and liquidate keep by   *)
(* hand are what the boxes say: the open interest of a side is the size of *)
(* its open positions, although the code skips a subtraction it cannot do. *)
BooksMatchBoxes ==
    /\ longOi = SizeOf(Longs) /\ shortOi = SizeOf(Shorts)
    /\ activePositions = Cardinality(OpenIds)

(* The pool's account holds the LPs' liquidity and the margin of every open*)
(* position at once, up to the transaction fees it paid and what several   *)
(* calls of one group booked of the same payment (perpetuals_pool.py:193,  *)
(* :430): nothing else counts money as liquidity that a position still has *)
(* a claim on, and a booked payment is never missing more than once a call.*)
PoolCoversBooks ==
    poolBalance + poolTxns * TxnFee + overbooked
        >= PoolFunds + totalLiquidity + Margins

(* A deposit or a withdrawal never lowers the booked value of the shares of*)
(* the others: both divisions of the pool round in favour of who stays,    *)
(* whatever transfer the call rests on.                                    *)
SharePriceKept ==
    [][totalShares > 0 /\ totalShares' > 0 /\ totalShares' # totalShares
       => totalLiquidity' * totalShares >= totalLiquidity * totalShares']_vars

(* The two formulas for liquidation agree: a call of liquidate succeeds    *)
(* only at a price at or beyond the one _calculate_liquidation_price gives *)
(* for the box at the maintenance margin of the moment, unless that margin *)
(* was raised over the whole collateral.                                   *)
Beyond(p) ==
    LET l == LiquidationPrice(p.isLong, p.entryPrice, p.collateral, p.size)
    IN  IF p.isLong THEN price <= l ELSE price >= l

LiquidatedBeyondPrice ==
    [][\A i \in OpenIds :
          Liquidate(i) /\ positions[i].collateral > BasisPoints(positions[i].size, maintenance)
          => Beyond(positions[i])]_vars

(* A trader cannot open a position, or take margin out of one, so that it  *)
(* is liquidatable at the price it was entered at, except for the basis    *)
(* point that the division in remove_margin's check rounds away: the       *)
(* leverage limit, the opening fee and that check leave the maintenance    *)
(* margin.  (add_margin may leave less, once the admin has raised it.)     *)
HealthyAtEntry ==
    [][\A i \in DOMAIN positions' :
          /\ positions'[i].isOpen
          /\ i \notin PositionIds \/ positions'[i].collateral < positions[i].collateral
          => (positions'[i].collateral * 10000) \div positions'[i].size + 1
                 >= maintenance']_vars

(* close_position "Close an open position ... Amount returned to trader    *)
(* (margin +/- PnL - fees)": a trader at a loss who has margin left can    *)
(* close, when the pool has the liquidity and the market its fees.         *)
LosingTraderMayClose ==
    \A i \in OpenIds :
        /\ ~marketPaused /\ ~InProfit(positions[i])
        /\ NetReturn(positions[i]) \in 1..totalLiquidity
        /\ poolTxns < MaxPoolTxns
        /\ marketBalance >= MarketFunds
        => ENABLED ClosePosition(i)
=============================================================================
