----------------------------- MODULE PerpsProofs -----------------------------
(* Proofs about the perpetuals pool and market: no deposit or withdrawal    *)
(* lowers the value of a share, the counters match the boxes, the pool's    *)
(* account covers liquidity and margins, and liquidation and entry agree    *)
(* with the prices shown.                                                   *)
EXTENDS PerpsMarket, SumTheorems, SequenceTheorems

-----------------------------------------------------------------------------
(* Arithmetic *)

LEMMA Quotient ==
    ASSUME NEW x \in Nat, NEW y \in Nat \ {0}
    PROVE  x \div y \in Nat /\ (x \div y) * y <= x
OBVIOUS

LEMMA ScaledIsNat ==
    ASSUME NEW a \in Nat, NEW b \in Nat, NEW c \in Nat \ {0}
    PROVE  (a * b) \div c \in Nat /\ ((a * b) \div c) * c <= a * b
<1> DEFINE product == a * b
<1>1. product \in Nat
  OBVIOUS
<1> HIDE DEF product
<1>2. product \div c \in Nat /\ (product \div c) * c <= product
  BY <1>1, Quotient
<1>3. QED
  BY <1>2 DEF product

(* What a quotient bounds: every truncation of the market is one of these.  *)
LEMMA Cancel ==
    ASSUME NEW a \in Int, NEW b \in Int, NEW y \in Nat \ {0}, a * y < b * y
    PROVE  a < b
OBVIOUS

LEMMA QuotientIs ==
    ASSUME NEW x \in Nat, NEW y \in Nat \ {0}
    PROVE  x \div y \in Nat /\ (x \div y) * y <= x /\ x < (x \div y + 1) * y
OBVIOUS

LEMMA AtMostQuotient ==
    ASSUME NEW x \in Nat, NEW y \in Nat \ {0}, NEW k \in Int
    PROVE  k <= x \div y <=> k * y <= x
<1> DEFINE q == x \div y
<1>1. q \in Nat /\ q * y <= x /\ x < (q + 1) * y
  BY QuotientIs
<1> HIDE DEF q
<1>2. ASSUME k <= q PROVE k * y <= x
  <2>1. q - k \in Nat
    BY <1>1, <1>2
  <2>2. (q - k) * y >= 0 /\ (q - k) * y = q * y - k * y
    BY <1>1, <2>1
  <2>3. QED
    BY <1>1, <2>2
<1>3. ASSUME k * y <= x PROVE k <= q
  <2>1. k * y < (q + 1) * y
    BY <1>1, <1>3
  <2>2. k < q + 1
    BY <1>1, <2>1, Cancel
  <2>3. QED
    BY <1>1, <2>2
<1>4. QED
  BY <1>2, <1>3 DEF q

(* A rate in basis points.  The provers take the interval as one set.       *)
Rates == 0..10000

LEMMA FeesAreRates ==
    /\ DepositFee \in Rates /\ OpenFee \in Rates /\ CloseFee \in Rates
BY PoolAssumption, RatesAssumption DEF Rates

LEMMA TermsAreNat ==
    /\ Sizes \subseteq Nat \ {0} /\ Leverages \subseteq Nat \ {0} /\ Prices \subseteq Nat \ {0}
    /\ MarginMoves \subseteq Nat /\ MarketPayments \subseteq Nat
BY MarketAssumption

LEMMA MaintenanceIsNat ==
    ASSUME NEW m \in Maintenances
    PROVE  m \in Nat
BY RatesAssumption

LEMMA BasisPointsOf ==
    ASSUME NEW x \in Nat, NEW rate \in Rates
    PROVE  BasisPoints(x, rate) \in Nat /\ BasisPoints(x, rate) <= x
<1> DEFINE part == (x * rate) \div 10000
<1>1. part \in Nat /\ part * 10000 <= x * rate
  BY ScaledIsNat DEF Rates
<1>2. x * rate <= x * 10000
  BY DEF Rates
<1>3. part * 10000 <= x * 10000
  <2> DEFINE product == x * rate
  <2>1. product \in Int /\ part * 10000 <= product /\ product <= x * 10000
    BY <1>1, <1>2 DEF Rates
  <2> HIDE DEF part, product
  <2>2. QED
    BY <1>1, <2>1
<1>4. part <= x
  <2> HIDE DEF part
  <2>1. QED
    BY <1>1, <1>3
<1>5. QED
  BY <1>1, <1>4 DEF BasisPoints

(* Shares that cost no less than they are worth do not dilute the others,   *)
(* and shares that bring no more than they are worth leave them no less.    *)
LEMMA BoughtDear ==
    ASSUME NEW l \in Nat, NEW s \in Nat, NEW amount \in Nat, NEW new \in Nat,
           new * l <= amount * s
    PROVE  (l + amount) * s >= l * (s + new)
<1>1. (l + amount) * s = l * s + amount * s /\ l * (s + new) = l * s + new * l
  OBVIOUS
<1>2. l * s \in Nat /\ amount * s \in Nat /\ new * l \in Nat
  OBVIOUS
<1>3. QED
  BY <1>1, <1>2

LEMMA SoldCheap ==
    ASSUME NEW l \in Nat, NEW s \in Nat, NEW amount \in Nat, NEW burnt \in Nat,
           amount * s <= burnt * l
    PROVE  (l - amount) * s >= l * (s - burnt)
<1>1. (l - amount) * s = l * s - amount * s /\ l * (s - burnt) = l * s - burnt * l
  OBVIOUS
<1>2. l * s \in Nat /\ amount * s \in Nat /\ burnt * l \in Nat
  OBVIOUS
<1>3. QED
  BY <1>1, <1>2

-----------------------------------------------------------------------------
(* The group: transaction 0 carries ALGO or LP tokens.                      *)

GroupTyped ==
    group \in [asset: {"none", "algo", "lp"}, to: LPs \cup {"none", "pool", "market"},
               amount: Nat, unbooked: Nat, calls: Nat]

LEMMA BegunGroup ==
    ASSUME NEW asset \in {"algo", "lp"}, NEW to \in LPs \cup {"pool", "market"},
           NEW amount \in Nat, Begin(asset, to, amount)
    PROVE  GroupTyped'
BY GroupAssumption DEF Begin, GroupTyped

(* A call moves what it books from the unbooked part of the transfer to     *)
(* what was booked again, so the two together tell how much was booked.     *)
LEMMA BookedGroup ==
    ASSUME GroupTyped, NEW x \in Nat, Book(x)
    PROVE  /\ GroupTyped'
           /\ group'.asset = group.asset /\ group'.to = group.to
           /\ BookedAgain(x) \in Nat
           /\ BookedAgain(x) - group'.unbooked = x - group.unbooked
<1>1. group.amount \in Nat /\ group.unbooked \in Nat /\ group.calls \in Nat
  BY DEF GroupTyped
<1>2. /\ group.calls > 0 /\ x <= group.amount
      /\ group' = [group EXCEPT !.calls = group.calls - 1,
                                !.unbooked = Floored(group.unbooked - x)]
  BY <1>1 DEF Book
<1>3. Floored(group.unbooked - x) \in Nat /\ group.calls - 1 \in Nat
  BY <1>1, <1>2 DEF Floored
<1>4. /\ GroupTyped' /\ group'.unbooked = Floored(group.unbooked - x)
      /\ group'.asset = group.asset /\ group'.to = group.to
  BY <1>2, <1>3 DEF GroupTyped
<1>5. BookedAgain(x) = Floored(x - group.unbooked)
  BY <1>2 DEF BookedAgain
<1>6. QED
  BY <1>1, <1>4, <1>5 DEF Floored

-----------------------------------------------------------------------------
(* The pool *)

PoolTyped == totalLiquidity \in Nat /\ totalShares \in Nat

(* The value of a share does not fall. *)
ValueKept == totalShares > 0 => totalLiquidity' * totalShares >= totalLiquidity * totalShares'

LEMMA DepositStep ==
    ASSUME PoolTyped, GroupTyped, NEW a \in LPs, Deposit(a)
    PROVE  PoolTyped' /\ ValueKept
<1> DEFINE payment == group.amount
           fee == BasisPoints(payment, DepositFee)
           net == payment - fee
           new == SharesForDeposit(net)
<1>1. payment \in Nat /\ fee \in Nat /\ fee <= payment
  <2>1. payment \in Nat /\ DepositFee \in Rates
    BY FeesAreRates DEF GroupTyped
  <2>2. QED
    BY <2>1, BasisPointsOf
<1>2. net \in Nat
  <2> HIDE DEF fee
  <2>1. QED
    BY <1>1
<1>3. totalLiquidity \in Nat /\ totalShares \in Nat
  BY DEF PoolTyped
<1>4. new \in Nat /\ (totalShares > 0 => new * totalLiquidity <= net * totalShares)
  <2> HIDE DEF net
  <2>1. CASE totalShares = 0 \/ totalLiquidity = 0
    <3>1. new = net
      BY <2>1 DEF SharesForDeposit
    <3>2. totalShares > 0 => totalLiquidity = 0
      BY <1>3, <2>1
    <3>3. net * totalShares \in Nat /\ net * 0 = 0
      BY <1>2, <1>3
    <3>4. QED
      BY <1>2, <1>3, <3>1, <3>2, <3>3
  <2>2. CASE ~(totalShares = 0 \/ totalLiquidity = 0)
    BY <1>2, <1>3, <2>2, ScaledIsNat DEF SharesForDeposit
  <2>3. QED
    BY <2>1, <2>2
<1>5. totalLiquidity' = totalLiquidity + net /\ totalShares' = totalShares + new
  <2>1. totalLiquidity' = totalLiquidity + payment - fee /\ totalShares' = totalShares + new
    BY DEF Deposit
  <2> HIDE DEF fee, new
  <2>2. QED
    BY <1>1, <1>3, <2>1
<1> HIDE DEF net, new
<1>6. PoolTyped'
  BY <1>2, <1>3, <1>4, <1>5 DEF PoolTyped
<1>7. ValueKept
  BY <1>2, <1>3, <1>4, <1>5, BoughtDear DEF ValueKept
<1>8. QED
  BY <1>6, <1>7

LEMMA WithdrawStep ==
    ASSUME PoolTyped, NEW s \in Withdrawals, Withdraw(s)
    PROVE  PoolTyped' /\ ValueKept
<1> DEFINE amount == AlgoForShares(s)
<1>1. s \in Nat /\ totalLiquidity \in Nat /\ totalShares \in Nat
  BY PoolAssumption DEF PoolTyped
<1>2. amount \in Nat /\ (totalShares > 0 => amount * totalShares <= s * totalLiquidity)
  BY <1>1, ScaledIsNat DEF AlgoForShares
<1>3. /\ amount <= totalLiquidity /\ s <= totalShares
      /\ totalLiquidity' = totalLiquidity - amount /\ totalShares' = totalShares - s
  BY DEF Withdraw
<1> HIDE DEF amount
<1>4. PoolTyped'
  BY <1>1, <1>2, <1>3 DEF PoolTyped
<1>5. ValueKept
  BY <1>1, <1>2, <1>3, SoldCheap DEF ValueKept
<1>6. QED
  BY <1>4, <1>5

-----------------------------------------------------------------------------
(* The market: boxes are well formed, so what a position returns is a       *)
(* number.                                                                  *)

MarketTyped ==
    /\ positions \in Seq(Position)
    /\ price \in Prices
    /\ maintenance \in Nat

IInv == PoolTyped /\ MarketTyped /\ GroupTyped

(* What every step keeps: the invariant, and the value of a share unless    *)
(* their number stays.                                                      *)
StepKept == PoolTyped' /\ MarketTyped' /\ (totalShares' # totalShares => ValueKept)

LEMMA ReturnIsNat ==
    ASSUME MarketTyped, NEW p \in Position
    PROVE  Pnl(p) \in Nat /\ EffectiveMargin(p) \in Nat /\ NetReturn(p) \in Nat
<1>1. /\ price \in Nat \ {0} /\ p.entryPrice \in Nat \ {0} /\ p.size \in Nat
      /\ p.collateral \in Nat
  <2>1. Prices \subseteq Nat \ {0} /\ Sizes \subseteq Nat \ {0}
    BY TermsAreNat
  <2>2. price \in Prices /\ p.entryPrice \in Prices /\ p.size \in Sizes /\ p.collateral \in Nat
    BY DEF MarketTyped, Position
  <2>3. QED
    BY <2>1, <2>2
<1> DEFINE diff == IF price >= p.entryPrice THEN price - p.entryPrice ELSE p.entryPrice - price
<1>2. diff \in Nat
  BY <1>1
<1>3. Pnl(p) \in Nat
  <2>1. Pnl(p) = (diff * p.size) \div p.entryPrice
    BY DEF Pnl
  <2> HIDE DEF diff
  <2>2. QED
    BY <1>1, <1>2, <2>1, ScaledIsNat
<1>4. EffectiveMargin(p) \in Nat
  BY <1>1, <1>3 DEF EffectiveMargin, Floored
<1>5. BasisPoints(p.size, CloseFee) \in Nat
  BY <1>1, FeesAreRates, BasisPointsOf
<1>6. NetReturn(p) \in Nat
  BY <1>4, <1>5 DEF NetReturn, Floored
<1>7. QED
  BY <1>3, <1>4, <1>6

LEMMA LiquidationPriceIsNat ==
    ASSUME NEW isLong \in BOOLEAN, NEW entry \in Prices, NEW collateral \in Nat,
           NEW size \in Sizes, maintenance \in Nat
    PROVE  LiquidationPrice(isLong, entry, collateral, size) \in Nat
<1> DEFINE maintAmount == (size * maintenance) \div 10000
           change == ((collateral - maintAmount) * entry) \div size
<1>1. entry \in Nat \ {0} /\ size \in Nat \ {0}
  BY TermsAreNat
<1>2. maintAmount \in Nat
  BY <1>1, ScaledIsNat
<1>3. ~(collateral <= maintAmount) => change \in Nat
  <2>1. ~(collateral <= maintAmount) => collateral - maintAmount \in Nat
    <3> HIDE DEF maintAmount
    <3>1. QED
      BY <1>2
  <2> HIDE DEF maintAmount
  <2>2. QED
    BY <1>1, <2>1, ScaledIsNat
<1>4. LiquidationPrice(isLong, entry, collateral, size)
        = IF collateral <= maintAmount THEN entry
          ELSE IF ~isLong THEN entry + change
          ELSE IF entry > change THEN entry - change ELSE 1
  BY DEF LiquidationPrice, BasisPoints
<1> HIDE DEF maintAmount, change
<1>5. QED
  BY <1>1, <1>2, <1>3, <1>4

LEMMA BoxWithCollateral ==
    ASSUME NEW p \in Position, NEW c \in Nat, maintenance \in Nat
    PROVE  WithCollateral(p, c) \in Position
<1>1. LiquidationPrice(p.isLong, p.entryPrice, c, p.size) \in Nat
  BY LiquidationPriceIsNat DEF Position
<1>2. QED
  BY <1>1 DEF WithCollateral, Position

LEMMA BoxReplaced ==
    ASSUME MarketTyped, NEW i \in PositionIds, NEW p \in Position,
           positions' = [positions EXCEPT ![i] = p],
           price' = price, maintenance' = maintenance
    PROVE  MarketTyped'
<1>1. positions \in Seq(Position)
  BY DEF MarketTyped
<1>2. i \in 1..Len(positions)
  BY <1>1 DEF PositionIds
<1>3. positions' \in Seq(Position)
  BY <1>1, <1>2, ExceptSeq
<1>4. QED
  BY <1>3 DEF MarketTyped

LEMMA BoxClosed ==
    ASSUME MarketTyped, NEW i \in PositionIds, CloseBox(i),
           price' = price, maintenance' = maintenance
    PROVE  MarketTyped'
<1> DEFINE p == [positions[i] EXCEPT !.isOpen = FALSE]
<1>1. positions[i] \in Position
  BY DEF MarketTyped, PositionIds
<1>2. p \in Position
  BY <1>1 DEF Position
<1>3. positions' = [positions EXCEPT ![i] = p]
  BY DEF CloseBox
<1> HIDE DEF p
<1>4. QED
  BY <1>2, <1>3, BoxReplaced

LEMMA OpenedBox ==
    ASSUME IInv, NEW t \in Traders, NEW isLong \in BOOLEAN, NEW size \in Sizes,
           NEW leverage \in Leverages, OpenPosition(t, isLong, size, leverage)
    PROVE  \E box \in Position :
              /\ positions' = Append(positions, box)
              /\ box.isOpen /\ box.isLong = isLong /\ box.size = size
              /\ box.collateral = group.amount - BasisPoints(size, OpenFee)
              /\ box.collateral \in Nat
<1> DEFINE net == group.amount - BasisPoints(size, OpenFee)
           box == [trader |-> t, isLong |-> isLong, size |-> size, collateral |-> net,
                   entryPrice |-> price,
                   liquidationPrice |-> LiquidationPrice(isLong, price, net, size),
                   isOpen |-> TRUE]
<1>1. net \in Nat
  <2>1. size \in Nat
    BY TermsAreNat
  <2>2. BasisPoints(size, OpenFee) \in Nat
    BY <2>1, FeesAreRates, BasisPointsOf
  <2>3. net >= 0 /\ group.amount \in Nat
    BY DEF OpenPosition, IInv, GroupTyped
  <2>4. QED
    BY <2>2, <2>3
<1>2. positions' = Append(positions, box)
  BY DEF OpenPosition
<1> HIDE DEF net
<1>3. LiquidationPrice(isLong, price, net, size) \in Nat
  BY <1>1, LiquidationPriceIsNat DEF IInv, MarketTyped
<1>4. box \in Position
  BY <1>1, <1>3 DEF Position, IInv, MarketTyped
<1>5. box.isOpen /\ box.isLong = isLong /\ box.size = size /\ box.collateral = net
  OBVIOUS
<1> HIDE DEF box
<1>6. QED
  BY <1>1, <1>2, <1>4, <1>5 DEF net

LEMMA OpenStep ==
    ASSUME IInv, NEW t \in Traders, NEW isLong \in BOOLEAN, NEW size \in Sizes,
           NEW leverage \in Leverages, OpenPosition(t, isLong, size, leverage)
    PROVE  StepKept
<1>1. PICK box \in Position : positions' = Append(positions, box)
  BY OpenedBox
<1>2. /\ price' = price /\ maintenance' = maintenance
      /\ totalShares' = totalShares /\ totalLiquidity' = totalLiquidity
  BY DEF OpenPosition, PoolReceives
<1>3. MarketTyped'
  BY <1>1, <1>2, AppendProperties DEF IInv, MarketTyped
<1>4. QED
  BY <1>2, <1>3 DEF IInv, PoolTyped, StepKept

LEMMA CloseStep ==
    ASSUME IInv, NEW i \in PositionIds, ClosePosition(i)
    PROVE  StepKept
<1> DEFINE p == positions[i]
           net == NetReturn(p)
<1>1. p \in Position
  BY DEF IInv, MarketTyped, PositionIds
<1>2. net \in Nat
  BY <1>1, ReturnIsNat DEF IInv
<1>3. CloseBox(i) /\ price' = price /\ maintenance' = maintenance /\ totalShares' = totalShares
  BY DEF ClosePosition
<1>4. \/ net <= totalLiquidity /\ totalLiquidity' = totalLiquidity - net
      \/ totalLiquidity' = totalLiquidity
  BY DEF ClosePosition, ProcessPnl
<1>5. MarketTyped'
  BY <1>3, BoxClosed DEF IInv
<1> HIDE DEF net
<1>6. PoolTyped'
  BY <1>2, <1>3, <1>4 DEF IInv, PoolTyped
<1>7. QED
  BY <1>3, <1>5, <1>6 DEF IInv, StepKept

LEMMA LiquidateStep ==
    ASSUME IInv, NEW i \in PositionIds, Liquidate(i)
    PROVE  StepKept
<1>1. /\ CloseBox(i) /\ price' = price /\ maintenance' = maintenance
      /\ totalShares' = totalShares /\ totalLiquidity' = totalLiquidity
  BY DEF Liquidate, PoolReceives
<1>2. MarketTyped'
  BY <1>1, BoxClosed DEF IInv
<1>3. QED
  BY <1>1, <1>2 DEF IInv, PoolTyped, StepKept

(* add_margin and remove_margin write the box anew with another collateral. *)
LEMMA MovedBox ==
    ASSUME IInv, NEW i \in PositionIds, NEW amount \in MarginMoves,
           AddMargin(i, amount) \/ RemoveMargin(i, amount)
    PROVE  \E c \in Nat :
              /\ positions' = [positions EXCEPT ![i] = WithCollateral(positions[i], c)]
              /\ WithCollateral(positions[i], c) \in Position
              /\ \/ c = positions[i].collateral + amount /\ AddMargin(i, amount)
                 \/ /\ c = positions[i].collateral - amount
                    /\ c >= BasisPoints(positions[i].size, maintenance)
                    /\ RemoveMargin(i, amount)
<1>1. positions[i] \in Position /\ amount \in Nat
  BY TermsAreNat DEF IInv, MarketTyped, PositionIds
<1>2. CASE AddMargin(i, amount)
  <2> DEFINE c == positions[i].collateral + amount
  <2>1. c \in Nat
    BY <1>1 DEF Position
  <2>2. positions' = [positions EXCEPT ![i] = WithCollateral(positions[i], c)]
    BY <1>2 DEF AddMargin
  <2>3. WithCollateral(positions[i], c) \in Position
    BY <1>1, <2>1, BoxWithCollateral DEF IInv, MarketTyped
  <2>4. QED
    BY <1>2, <2>1, <2>2, <2>3
<1>3. CASE RemoveMargin(i, amount)
  <2> DEFINE c == positions[i].collateral - amount
  <2>1. c \in Nat
    BY <1>1, <1>3 DEF Position, RemoveMargin, MayRemove
  <2>2. /\ positions' = [positions EXCEPT ![i] = WithCollateral(positions[i], c)]
        /\ c >= BasisPoints(positions[i].size, maintenance)
    BY <1>3 DEF RemoveMargin, MayRemove
  <2>3. WithCollateral(positions[i], c) \in Position
    BY <1>1, <2>1, BoxWithCollateral DEF IInv, MarketTyped
  <2>4. QED
    BY <1>3, <2>1, <2>2, <2>3
<1>4. QED
  BY <1>2, <1>3

LEMMA MarginStep ==
    ASSUME IInv, NEW i \in PositionIds, NEW amount \in MarginMoves,
           AddMargin(i, amount) \/ RemoveMargin(i, amount)
    PROVE  StepKept
<1>1. PICK c \in Nat :
         /\ positions' = [positions EXCEPT ![i] = WithCollateral(positions[i], c)]
         /\ WithCollateral(positions[i], c) \in Position
  BY MovedBox
<1>2. /\ price' = price /\ maintenance' = maintenance
      /\ totalShares' = totalShares /\ totalLiquidity' = totalLiquidity
  BY DEF AddMargin, RemoveMargin, PoolReceives, poolVars
<1>3. MarketTyped'
  BY <1>1, <1>2, BoxReplaced DEF IInv
<1>4. QED
  BY <1>2, <1>3 DEF IInv, PoolTyped, StepKept

LEMMA PoolStep ==
    ASSUME IInv, PoolNext, UNCHANGED marketVars
    PROVE  StepKept
<1>1. MarketTyped'
  BY DEF IInv, MarketTyped, marketVars
<1>2. ASSUME NEW a \in LPs, Deposit(a)
      PROVE  PoolTyped' /\ ValueKept
  BY <1>2, DepositStep DEF IInv
<1>3. ASSUME NEW s \in Withdrawals, Withdraw(s)
      PROVE  PoolTyped' /\ ValueKept
  BY <1>3, WithdrawStep DEF IInv
<1>4. ASSUME UNCHANGED <<totalLiquidity, totalShares>>
      PROVE  PoolTyped' /\ totalShares' = totalShares
  BY <1>4 DEF IInv, PoolTyped
<1>5. ASSUME NEW x \in TradingFees, CollectTradingFee(x)
      PROVE  PoolTyped' /\ totalShares' = totalShares
  <2>1. x \in Nat
    BY PoolAssumption
  <2>2. QED
    BY <1>5, <2>1 DEF CollectTradingFee, IInv, PoolTyped
<1>6. QED
  BY <1>1, <1>2, <1>3, <1>4, <1>5
  DEF PoolNext, PayPool, SendLp, PausePool, poolVars, StepKept

(* A group begins, goes on or ends.                                         *)
LEMMA GroupStep ==
    ASSUME IInv, [Next]_vars
    PROVE  GroupTyped'
<1>1. GroupTyped
  BY DEF IInv
<1>2. UNCHANGED group => GroupTyped'
  BY <1>1 DEF GroupTyped
<1>3. \A x \in Nat : Book(x) => GroupTyped'
  BY <1>1, BookedGroup
<1>4. CASE PoolNext /\ UNCHANGED marketVars
  <2>1. ASSUME NEW x \in PoolPayments, PayPool(x)
        PROVE  GroupTyped'
    BY <2>1, PoolAssumption, BegunGroup DEF PayPool
  <2>2. ASSUME NEW a \in LPs, NEW to \in LPs \cup {"pool"}, NEW x \in Withdrawals,
               SendLp(a, to, x)
        PROVE  GroupTyped'
    BY <2>2, PoolAssumption, BegunGroup DEF SendLp
  <2>3. ASSUME NEW a \in LPs, Deposit(a)
        PROVE  GroupTyped'
    <3>1. group.amount \in Nat /\ Book(group.amount)
      BY <1>1, <2>3 DEF GroupTyped, Deposit
    <3>2. QED
      BY <1>3, <3>1
  <2>4. ASSUME NEW s \in Withdrawals, Withdraw(s)
        PROVE  GroupTyped'
    BY <1>3, <2>4, PoolAssumption DEF Withdraw
  <2>5. ASSUME NEW x \in TradingFees, CollectTradingFee(x)
        PROVE  GroupTyped'
    BY <1>3, <2>5, PoolAssumption DEF CollectTradingFee
  <2>6. CASE PausePool
    BY <1>2, <2>6 DEF PausePool
  <2>7. CASE End
    BY <2>7 DEF End, NoGroup, GroupTyped
  <2>8. QED
    BY <1>4, <2>1, <2>2, <2>3, <2>4, <2>5, <2>6, <2>7 DEF PoolNext
<1>5. ASSUME NEW x \in MarketPayments, PayMarket(x)
      PROVE  GroupTyped'
  BY <1>5, TermsAreNat, BegunGroup DEF PayMarket
<1>6. ASSUME NEW t \in Traders, NEW l \in BOOLEAN, NEW s \in Sizes, NEW x \in Leverages,
             OpenPosition(t, l, s, x)
      PROVE  GroupTyped'
  <2>1. group.amount \in Nat /\ Book(group.amount)
    BY <1>1, <1>6 DEF GroupTyped, OpenPosition
  <2>2. QED
    BY <1>3, <2>1
<1>7. ASSUME NEW i \in PositionIds, ClosePosition(i) \/ Liquidate(i)
      PROVE  GroupTyped'
  BY <1>2, <1>7 DEF ClosePosition, Liquidate
<1>8. ASSUME NEW i \in PositionIds, NEW a \in MarginMoves, AddMargin(i, a) \/ RemoveMargin(i, a)
      PROVE  GroupTyped'
  BY <1>2, <1>3, <1>8, TermsAreNat DEF AddMargin, RemoveMargin
<1>9. QED
  BY <1>2, <1>4, <1>5, <1>6, <1>7, <1>8 DEF Next, SetMaintenance, PauseMarket, UpdatePrice, vars

LEMMA EveryStep ==
    ASSUME IInv, [Next]_vars
    PROVE  IInv' /\ StepKept
<1> SUFFICES StepKept
  BY GroupStep DEF StepKept, IInv
<1>1. CASE PoolNext /\ UNCHANGED marketVars
  BY <1>1, PoolStep
<1>2. ASSUME NEW t \in Traders, NEW l \in BOOLEAN, NEW s \in Sizes, NEW x \in Leverages,
             OpenPosition(t, l, s, x)
      PROVE  StepKept
  BY <1>2, OpenStep
<1>3. ASSUME NEW i \in PositionIds, ClosePosition(i) \/ Liquidate(i)
      PROVE  StepKept
  BY <1>3, CloseStep, LiquidateStep
<1>4. ASSUME NEW i \in PositionIds, NEW a \in MarginMoves, AddMargin(i, a) \/ RemoveMargin(i, a)
      PROVE  StepKept
  BY <1>4, MarginStep
<1>5. ASSUME NEW m \in Maintenances, SetMaintenance(m)
      PROVE  StepKept
  <2>1. m \in Nat
    BY MaintenanceIsNat
  <2>2. QED
    BY <1>5, <2>1 DEF SetMaintenance, poolVars, IInv, PoolTyped, MarketTyped, StepKept
<1>6. ASSUME NEW x \in MarketPayments, PayMarket(x)
      PROVE  StepKept
  BY <1>6 DEF PayMarket, poolVars, IInv, PoolTyped, MarketTyped, StepKept
<1>7. CASE PauseMarket
  BY <1>7 DEF PauseMarket, poolVars, IInv, PoolTyped, MarketTyped, StepKept
<1>8. ASSUME NEW p \in Prices, UpdatePrice(p)
      PROVE  StepKept
  BY <1>8 DEF UpdatePrice, poolVars, IInv, PoolTyped, MarketTyped, StepKept
<1>9. CASE UNCHANGED vars
  BY <1>9 DEF vars, poolVars, marketVars, IInv, PoolTyped, MarketTyped, StepKept
<1>10. QED
  BY <1>1, <1>2, <1>3, <1>4, <1>5, <1>6, <1>7, <1>8, <1>9 DEF Next

LEMMA InitHolds ==
    ASSUME Init
    PROVE  IInv
<1>1. PoolTyped
  BY DEF Init, PoolInit, PoolTyped
<1>2. MarketTyped
  <2>1. maintenance \in Nat
    BY MaintenanceIsNat DEF Init, MarketInit
  <2>2. QED
    BY <2>1 DEF Init, MarketInit, MarketTyped
<1>3. GroupTyped
  BY DEF Init, PoolInit, NoGroup, GroupTyped
<1>4. QED
  BY <1>1, <1>2, <1>3 DEF IInv

(* Deposits and withdrawals of any amount, at any fees, leave the shares of *)
(* the others worth no less: the two divisions of the pool round its way    *)
(* (perpetuals_pool.py:718, :727).                                          *)
THEOREM SharePriceIsKept == Spec => SharePriceKept
<1>1. Init => IInv
  BY InitHolds
<1>2. IInv /\ [Next]_vars => IInv'
  BY EveryStep DEF StepKept
<1>3. IInv /\ [Next]_vars
        => [totalShares > 0 /\ totalShares' > 0 /\ totalShares' # totalShares
            => totalLiquidity' * totalShares >= totalLiquidity * totalShares']_vars
  BY EveryStep DEF StepKept, ValueKept
<1>4. QED
  BY <1>1, <1>2, <1>3, PTL DEF Spec, SharePriceKept

-----------------------------------------------------------------------------
(* The counters and the boxes *)

LEMMA OpenIdsFinite ==
    ASSUME MarketTyped
    PROVE  /\ PositionIds = 1..Len(positions) /\ Len(positions) \in Nat
           /\ IsFiniteSet(OpenIds) /\ IsFiniteSet(Longs) /\ IsFiniteSet(Shorts)
           /\ Longs \subseteq OpenIds /\ Shorts \subseteq OpenIds
           /\ OpenIds \subseteq PositionIds
           /\ \A i \in PositionIds : positions[i] \in Position
<1>1. PositionIds = 1..Len(positions) /\ Len(positions) \in Nat
  BY DEF MarketTyped, PositionIds
<1>2. OpenIds \subseteq PositionIds /\ Longs \subseteq OpenIds /\ Shorts \subseteq OpenIds
  BY DEF OpenIds, Longs, Shorts
<1>3. IsFiniteSet(PositionIds)
  BY <1>1, FS_Interval
<1>4. IsFiniteSet(OpenIds)
  BY <1>2, <1>3, FS_Subset
<1>5. IsFiniteSet(Longs) /\ IsFiniteSet(Shorts)
  BY <1>2, <1>4, FS_Subset
<1>6. \A i \in PositionIds : positions[i] \in Position
  BY DEF MarketTyped, PositionIds
<1>7. QED
  BY <1>1, <1>2, <1>4, <1>5, <1>6

LEMMA AmountsInBoxes ==
    ASSUME MarketTyped
    PROVE  \A i \in PositionIds : positions[i].size \in Nat \ {0} /\ positions[i].collateral \in Nat
<1>1. Sizes \subseteq Nat \ {0}
  BY TermsAreNat
<1>2. \A i \in PositionIds : positions[i] \in Position
  BY OpenIdsFinite
<1>3. QED
  BY <1>1, <1>2 DEF Position

LEMMA SumsAreNat ==
    ASSUME MarketTyped
    PROVE  SizeOf(Longs) \in Nat /\ SizeOf(Shorts) \in Nat /\ Margins \in Nat
<1> DEFINE sizes == [i \in PositionIds |-> positions[i].size]
           margins == [i \in PositionIds |-> positions[i].collateral]
<1>1. \A i \in PositionIds : sizes[i] \in Nat /\ margins[i] \in Nat
  BY AmountsInBoxes
<1>2. /\ IsFiniteSet(OpenIds) /\ IsFiniteSet(Longs) /\ IsFiniteSet(Shorts)
      /\ Longs \subseteq PositionIds /\ Shorts \subseteq PositionIds /\ OpenIds \subseteq PositionIds
  BY OpenIdsFinite
<1> HIDE DEF sizes, margins
<1>3. /\ SumFunctionOnSet(sizes, Longs) \in Nat /\ SumFunctionOnSet(sizes, Shorts) \in Nat
      /\ SumFunctionOnSet(margins, OpenIds) \in Nat
  <2>1. \A i \in Longs : sizes[i] \in Nat
    BY <1>1, <1>2
  <2>2. \A i \in Shorts : sizes[i] \in Nat
    BY <1>1, <1>2
  <2>3. \A i \in OpenIds : margins[i] \in Nat
    BY <1>1, <1>2
  <2>4. QED
    BY <1>2, <2>1, <2>2, <2>3, SumIsNat
<1>4. QED
  BY <1>3 DEF sizes, margins, SizeOf, Margins

(* A new box joins its side of the book. *)
LEMMA BooksAfterOpen ==
    ASSUME MarketTyped, NEW box \in Position, box.isOpen,
           positions' = Append(positions, box)
    PROVE  /\ SizeOf(Longs)' = SizeOf(Longs) + IF box.isLong THEN box.size ELSE 0
           /\ SizeOf(Shorts)' = SizeOf(Shorts) + IF box.isLong THEN 0 ELSE box.size
           /\ Margins' = Margins + box.collateral
           /\ Cardinality(OpenIds)' = Cardinality(OpenIds) + 1
<1> DEFINE n == Len(positions) + 1
           sizes == [i \in PositionIds |-> positions[i].size]
           margins == [i \in PositionIds |-> positions[i].collateral]
           newSizes == [i \in PositionIds' |-> positions'[i].size]
           newMargins == [i \in PositionIds' |-> positions'[i].collateral]
<1>1. positions \in Seq(Position)
  BY DEF MarketTyped
<1>2. /\ n \notin PositionIds /\ PositionIds' = PositionIds \cup {n}
      /\ positions'[n] = box
      /\ \A i \in PositionIds : positions'[i] = positions[i]
  BY <1>1, AppendProperties, OpenIdsFinite DEF PositionIds
<1>3. /\ IsFiniteSet(OpenIds) /\ IsFiniteSet(Longs) /\ IsFiniteSet(Shorts)
      /\ Longs \subseteq PositionIds /\ Shorts \subseteq PositionIds /\ OpenIds \subseteq PositionIds
  BY OpenIdsFinite
<1>4. OpenIds' = OpenIds \cup {n}
  BY <1>2 DEF OpenIds, Open
<1>5. /\ Longs' = IF box.isLong THEN Longs \cup {n} ELSE Longs
      /\ Shorts' = IF box.isLong THEN Shorts ELSE Shorts \cup {n}
  BY <1>2, <1>3, <1>4 DEF Longs, Shorts
<1>6. \A i \in PositionIds : sizes[i] \in Nat /\ margins[i] \in Nat
  BY AmountsInBoxes
<1>7. /\ \A i \in PositionIds : newSizes[i] = sizes[i] /\ newMargins[i] = margins[i]
      /\ newSizes[n] = box.size /\ newMargins[n] = box.collateral
  BY <1>2
<1>8. box.size \in Nat /\ box.collateral \in Nat /\ box.isLong \in BOOLEAN
  BY TermsAreNat DEF Position
<1>9. /\ SizeOf(Longs) = SumFunctionOnSet(sizes, Longs)
      /\ SizeOf(Longs)' = SumFunctionOnSet(newSizes, Longs')
      /\ SizeOf(Shorts) = SumFunctionOnSet(sizes, Shorts)
      /\ SizeOf(Shorts)' = SumFunctionOnSet(newSizes, Shorts')
      /\ Margins = SumFunctionOnSet(margins, OpenIds)
      /\ Margins' = SumFunctionOnSet(newMargins, OpenIds')
  BY DEF SizeOf, Margins
<1>10. Cardinality(OpenIds)' = Cardinality(OpenIds) + 1
  BY <1>2, <1>3, <1>4, FS_AddElement
<1>11. SizeOf(Longs) \in Nat /\ SizeOf(Shorts) \in Nat
  BY SumsAreNat
<1> HIDE DEF sizes, margins, newSizes, newMargins, n
<1>12. Margins' = Margins + box.collateral
  <2>1. /\ n \notin OpenIds /\ newMargins[n] \in Int
        /\ \A i \in OpenIds : margins[i] \in Int /\ newMargins[i] = margins[i]
    BY <1>2, <1>3, <1>6, <1>7, <1>8
  <2>2. SumFunctionOnSet(newMargins, OpenIds \cup {n}) = SumFunctionOnSet(margins, OpenIds) + newMargins[n]
    BY <1>3, <2>1, SumJoined
  <2>3. QED
    BY <1>4, <1>7, <1>9, <2>2
<1>13. /\ SizeOf(Longs)' = SizeOf(Longs) + IF box.isLong THEN box.size ELSE 0
       /\ SizeOf(Shorts)' = SizeOf(Shorts) + IF box.isLong THEN 0 ELSE box.size
  <2>1. /\ n \notin Longs /\ n \notin Shorts /\ newSizes[n] \in Int
        /\ \A i \in Longs : sizes[i] \in Int /\ newSizes[i] = sizes[i]
        /\ \A i \in Shorts : sizes[i] \in Int /\ newSizes[i] = sizes[i]
    BY <1>2, <1>3, <1>6, <1>7, <1>8
  <2>2. /\ SumFunctionOnSet(newSizes, Longs \cup {n}) = SumFunctionOnSet(sizes, Longs) + newSizes[n]
        /\ SumFunctionOnSet(newSizes, Shorts \cup {n}) = SumFunctionOnSet(sizes, Shorts) + newSizes[n]
    BY <1>3, <2>1, SumJoined
  <2>3. /\ SumFunctionOnSet(newSizes, Longs) = SumFunctionOnSet(sizes, Longs)
        /\ SumFunctionOnSet(newSizes, Shorts) = SumFunctionOnSet(sizes, Shorts)
    BY <1>3, <2>1, SumAgrees
  <2>4. CASE box.isLong
    BY <1>5, <1>7, <1>8, <1>9, <1>11, <2>2, <2>3, <2>4
  <2>5. CASE ~box.isLong
    BY <1>5, <1>7, <1>8, <1>9, <1>11, <2>2, <2>3, <2>5
  <2>6. QED
    BY <2>4, <2>5
<1>14. QED
  BY <1>10, <1>12, <1>13

(* A box that changes in nothing but its collateral and what follows it. *)
LEMMA BooksAfterMargin ==
    ASSUME MarketTyped, NEW i \in PositionIds, NEW p \in Position,
           p.isOpen = positions[i].isOpen, Open(i),
           p.isLong = positions[i].isLong, p.size = positions[i].size,
           positions' = [positions EXCEPT ![i] = p]
    PROVE  /\ SizeOf(Longs)' = SizeOf(Longs) /\ SizeOf(Shorts)' = SizeOf(Shorts)
           /\ Margins' = Margins - positions[i].collateral + p.collateral
           /\ OpenIds' = OpenIds
<1> DEFINE sizes == [j \in PositionIds |-> positions[j].size]
           margins == [j \in PositionIds |-> positions[j].collateral]
           newSizes == [j \in PositionIds' |-> positions'[j].size]
           newMargins == [j \in PositionIds' |-> positions'[j].collateral]
<1>1. /\ IsFiniteSet(OpenIds) /\ IsFiniteSet(Longs) /\ IsFiniteSet(Shorts)
      /\ Longs \subseteq PositionIds /\ Shorts \subseteq PositionIds /\ OpenIds \subseteq PositionIds
  BY OpenIdsFinite
<1>2. /\ PositionIds' = PositionIds /\ positions'[i] = p
      /\ \A j \in PositionIds \ {i} : positions'[j] = positions[j]
  BY DEF PositionIds
<1>3. OpenIds' = OpenIds
  BY <1>2 DEF OpenIds, Open
<1>4. Longs' = Longs /\ Shorts' = Shorts
  BY <1>1, <1>2, <1>3 DEF Longs, Shorts
<1>5. /\ \A j \in PositionIds : newSizes[j] = sizes[j] /\ sizes[j] \in Nat /\ margins[j] \in Nat
      /\ \A j \in PositionIds \ {i} : newMargins[j] = margins[j]
      /\ newMargins[i] = p.collateral /\ margins[i] = positions[i].collateral
  BY <1>2, AmountsInBoxes
<1>6. i \in OpenIds /\ p.collateral \in Nat
  BY DEF OpenIds, Position
<1>7. /\ SizeOf(Longs) = SumFunctionOnSet(sizes, Longs)
      /\ SizeOf(Longs)' = SumFunctionOnSet(newSizes, Longs')
      /\ SizeOf(Shorts) = SumFunctionOnSet(sizes, Shorts)
      /\ SizeOf(Shorts)' = SumFunctionOnSet(newSizes, Shorts')
      /\ Margins = SumFunctionOnSet(margins, OpenIds)
      /\ Margins' = SumFunctionOnSet(newMargins, OpenIds')
  BY DEF SizeOf, Margins
<1> HIDE DEF sizes, margins, newSizes, newMargins
<1>8. /\ SumFunctionOnSet(newSizes, Longs) = SumFunctionOnSet(sizes, Longs)
      /\ SumFunctionOnSet(newSizes, Shorts) = SumFunctionOnSet(sizes, Shorts)
  <2>1. \A j \in Longs : newSizes[j] = sizes[j]
    BY <1>1, <1>5
  <2>2. \A j \in Shorts : newSizes[j] = sizes[j]
    BY <1>1, <1>5
  <2>3. QED
    BY <1>1, <2>1, <2>2, SumAgrees
<1>9. SumFunctionOnSet(newMargins, OpenIds)
        = SumFunctionOnSet(margins, OpenIds) - margins[i] + newMargins[i]
  <2>1. /\ \A j \in OpenIds : margins[j] \in Int
        /\ \A j \in OpenIds : j # i => newMargins[j] = margins[j]
        /\ newMargins[i] \in Int
    BY <1>1, <1>5, <1>6
  <2>2. QED
    BY <1>1, <1>6, <2>1, SumChanged
<1>10. QED
  BY <1>3, <1>4, <1>5, <1>7, <1>8, <1>9

(* A closed box leaves its side, which was at least as large as the box.    *)
LEMMA BooksAfterClose ==
    ASSUME MarketTyped, NEW i \in PositionIds, Open(i),
           positions' = [positions EXCEPT ![i].isOpen = FALSE]
    PROVE  LET p == positions[i]
           IN  /\ SizeOf(Longs)' = SizeOf(Longs) - IF p.isLong THEN p.size ELSE 0
               /\ SizeOf(Shorts)' = SizeOf(Shorts) - IF p.isLong THEN 0 ELSE p.size
               /\ SizeOf(Longs)' \in Nat /\ SizeOf(Shorts)' \in Nat
               /\ Margins' = Margins - p.collateral
               /\ Cardinality(OpenIds)' = Cardinality(OpenIds) - 1
<1> DEFINE p == positions[i]
           sizes == [j \in PositionIds |-> positions[j].size]
           margins == [j \in PositionIds |-> positions[j].collateral]
           newSizes == [j \in PositionIds' |-> positions'[j].size]
           newMargins == [j \in PositionIds' |-> positions'[j].collateral]
<1>1. /\ IsFiniteSet(OpenIds) /\ IsFiniteSet(Longs) /\ IsFiniteSet(Shorts)
      /\ Longs \subseteq PositionIds /\ Shorts \subseteq PositionIds /\ OpenIds \subseteq PositionIds
  BY OpenIdsFinite
<1>2. p \in Position
  BY OpenIdsFinite
<1>3. /\ PositionIds' = PositionIds
      /\ \A j \in PositionIds \ {i} : positions'[j] = positions[j]
      /\ positions'[i] = [p EXCEPT !.isOpen = FALSE]
  BY DEF PositionIds
<1>4. /\ positions'[i].isOpen = FALSE /\ positions'[i].isLong = p.isLong
      /\ positions'[i].size = p.size /\ positions'[i].collateral = p.collateral
  BY <1>2, <1>3 DEF Position
<1>5. OpenIds' = OpenIds \ {i} /\ i \in OpenIds
  BY <1>3, <1>4 DEF OpenIds, Open
<1>6. /\ p.isLong => i \in Longs /\ Longs' = Longs \ {i} /\ Shorts' = Shorts
      /\ ~p.isLong => i \in Shorts /\ Shorts' = Shorts \ {i} /\ Longs' = Longs
  BY <1>1, <1>3, <1>4, <1>5 DEF Longs, Shorts
<1>7. /\ \A j \in PositionIds : newSizes[j] = sizes[j] /\ newMargins[j] = margins[j]
      /\ \A j \in PositionIds : sizes[j] \in Nat /\ margins[j] \in Nat
      /\ sizes[i] = p.size /\ margins[i] = p.collateral
  BY <1>3, <1>4, AmountsInBoxes
<1>8. /\ SizeOf(Longs) = SumFunctionOnSet(sizes, Longs)
      /\ SizeOf(Longs)' = SumFunctionOnSet(newSizes, Longs')
      /\ SizeOf(Shorts) = SumFunctionOnSet(sizes, Shorts)
      /\ SizeOf(Shorts)' = SumFunctionOnSet(newSizes, Shorts')
      /\ Margins = SumFunctionOnSet(margins, OpenIds)
      /\ Margins' = SumFunctionOnSet(newMargins, OpenIds')
  BY DEF SizeOf, Margins
<1>9. SizeOf(Longs) \in Nat /\ SizeOf(Shorts) \in Nat /\ p.size \in Nat
  BY SumsAreNat, AmountsInBoxes
<1>10. Cardinality(OpenIds)' = Cardinality(OpenIds) - 1
  BY <1>1, <1>5, FS_RemoveElement
<1> HIDE DEF p, sizes, margins, newSizes, newMargins
<1>11. Margins' = Margins - p.collateral
  <2>1. /\ IsFiniteSet(OpenIds) /\ i \in OpenIds /\ OpenIds' = OpenIds \ {i}
        /\ \A j \in OpenIds : margins[j] \in Int
        /\ \A j \in OpenIds' : newMargins[j] = margins[j]
    BY <1>1, <1>5, <1>7
  <2>2. SumFunctionOnSet(newMargins, OpenIds') = SumFunctionOnSet(margins, OpenIds) - margins[i]
    BY <2>1, SumLeft
  <2>3. QED
    BY <1>7, <1>8, <2>2
<1>12. /\ \A j \in Longs : sizes[j] \in Int /\ newSizes[j] = sizes[j] /\ newSizes[j] \in Nat
       /\ \A j \in Shorts : sizes[j] \in Int /\ newSizes[j] = sizes[j] /\ newSizes[j] \in Nat
  BY <1>1, <1>7
<1>13. /\ SumFunctionOnSet(newSizes, Longs) = SumFunctionOnSet(sizes, Longs)
       /\ SumFunctionOnSet(newSizes, Shorts) = SumFunctionOnSet(sizes, Shorts)
  BY <1>1, <1>12, SumAgrees
<1>14. /\ SizeOf(Longs)' = SizeOf(Longs) - (IF p.isLong THEN p.size ELSE 0)
       /\ SizeOf(Shorts)' = SizeOf(Shorts) - (IF p.isLong THEN 0 ELSE p.size)
  <2>1. CASE p.isLong
    <3>1. i \in Longs /\ Longs' = Longs \ {i} /\ Shorts' = Shorts
      BY <1>6, <2>1
    <3>2. \A j \in Longs' : newSizes[j] = sizes[j]
      BY <1>12, <3>1
    <3>3. SumFunctionOnSet(newSizes, Longs') = SumFunctionOnSet(sizes, Longs) - sizes[i]
      BY <1>1, <1>12, <3>1, <3>2, SumLeft
    <3>4. QED
      BY <1>7, <1>8, <1>9, <1>13, <2>1, <3>1, <3>3
  <2>2. CASE ~p.isLong
    <3>1. i \in Shorts /\ Shorts' = Shorts \ {i} /\ Longs' = Longs
      BY <1>6, <2>2
    <3>2. \A j \in Shorts' : newSizes[j] = sizes[j]
      BY <1>12, <3>1
    <3>3. SumFunctionOnSet(newSizes, Shorts') = SumFunctionOnSet(sizes, Shorts) - sizes[i]
      BY <1>1, <1>12, <3>1, <3>2, SumLeft
    <3>4. QED
      BY <1>7, <1>8, <1>9, <1>13, <2>2, <3>1, <3>3
  <2>3. QED
    BY <2>1, <2>2
<1>15. SizeOf(Longs)' \in Nat /\ SizeOf(Shorts)' \in Nat
  <2>1. Longs' \in SUBSET Longs /\ Shorts' \in SUBSET Shorts
    BY <1>6
  <2>2. IsFiniteSet(Longs') /\ IsFiniteSet(Shorts')
    BY <1>1, <2>1, FS_Subset
  <2>3. /\ \A j \in Longs' : newSizes[j] \in Nat
        /\ \A j \in Shorts' : newSizes[j] \in Nat
    BY <1>12, <2>1
  <2>4. QED
    BY <1>8, <2>2, <2>3, SumIsNat
<1>16. QED
  BY <1>10, <1>11, <1>14, <1>15 DEF p

LEMMA MovedBooks ==
    ASSUME IInv, NEW i \in PositionIds, NEW amount \in MarginMoves,
           AddMargin(i, amount) \/ RemoveMargin(i, amount)
    PROVE  /\ SizeOf(Longs)' = SizeOf(Longs) /\ SizeOf(Shorts)' = SizeOf(Shorts)
           /\ OpenIds' = OpenIds
           /\ \/ AddMargin(i, amount) /\ Margins' = Margins + amount
              \/ RemoveMargin(i, amount) /\ Margins' = Margins - amount
<1>1. PICK c \in Nat :
         /\ positions' = [positions EXCEPT ![i] = WithCollateral(positions[i], c)]
         /\ WithCollateral(positions[i], c) \in Position
         /\ \/ c = positions[i].collateral + amount /\ AddMargin(i, amount)
            \/ c = positions[i].collateral - amount /\ RemoveMargin(i, amount)
  BY MovedBox
<1> DEFINE p == WithCollateral(positions[i], c)
<1>2. Open(i)
  BY DEF AddMargin, RemoveMargin
<1>3. positions[i] \in Position /\ amount \in Nat /\ MarketTyped
  BY TermsAreNat, OpenIdsFinite DEF IInv
<1>4. /\ p.isOpen = positions[i].isOpen /\ p.isLong = positions[i].isLong
      /\ p.size = positions[i].size /\ p.collateral = c
  BY <1>3 DEF WithCollateral, Position
<1>5. p \in Position /\ positions' = [positions EXCEPT ![i] = p]
  BY <1>1
<1>6. Margins \in Nat /\ positions[i].collateral \in Nat
  BY <1>3, SumsAreNat DEF Position
<1> HIDE DEF p
<1>7. /\ SizeOf(Longs)' = SizeOf(Longs) /\ SizeOf(Shorts)' = SizeOf(Shorts)
      /\ Margins' = Margins - positions[i].collateral + p.collateral
      /\ OpenIds' = OpenIds
  BY <1>2, <1>3, <1>4, <1>5, BooksAfterMargin
<1>8. QED
  BY <1>1, <1>3, <1>4, <1>6, <1>7

LEMMA BooksStep ==
    ASSUME IInv, BooksMatchBoxes, [Next]_vars
    PROVE  BooksMatchBoxes'
<1>1. MarketTyped
  BY DEF IInv
<1>2. /\ SizeOf(Longs) \in Nat /\ SizeOf(Shorts) \in Nat
      /\ longOi = SizeOf(Longs) /\ shortOi = SizeOf(Shorts)
      /\ activePositions = Cardinality(OpenIds) /\ Cardinality(OpenIds) \in Nat
  BY <1>1, SumsAreNat, OpenIdsFinite, FS_CardinalityType DEF BooksMatchBoxes
<1>3. ASSUME UNCHANGED <<positions, books>>
      PROVE  BooksMatchBoxes'
  BY <1>3 DEF books, BooksMatchBoxes, SizeOf, Longs, Shorts, OpenIds, Open, PositionIds
<1>4. ASSUME NEW i \in PositionIds, Open(i), CloseBox(i)
      PROVE  BooksMatchBoxes'
  <2> DEFINE p == positions[i]
  <2>1. positions' = [positions EXCEPT ![i].isOpen = FALSE]
    BY <1>4 DEF CloseBox
  <2>2. p.isLong \in BOOLEAN /\ p.size \in Nat
    BY <1>1, OpenIdsFinite, AmountsInBoxes DEF Position
  <2>3. /\ longOi' = IF p.isLong THEN Less(longOi, p.size) ELSE longOi
        /\ shortOi' = IF p.isLong THEN shortOi ELSE Less(shortOi, p.size)
        /\ activePositions' = activePositions - 1
    BY <1>4 DEF CloseBox
  <2>4. /\ SizeOf(Longs)' = SizeOf(Longs) - IF p.isLong THEN p.size ELSE 0
        /\ SizeOf(Shorts)' = SizeOf(Shorts) - IF p.isLong THEN 0 ELSE p.size
        /\ SizeOf(Longs)' \in Nat /\ SizeOf(Shorts)' \in Nat
        /\ Cardinality(OpenIds)' = Cardinality(OpenIds) - 1
    BY <1>1, <1>4, <2>1, BooksAfterClose
  <2> HIDE DEF p
  <2>5. longOi' = SizeOf(Longs)' /\ shortOi' = SizeOf(Shorts)'
    BY <1>2, <2>2, <2>3, <2>4 DEF Less
  <2>6. QED
    BY <1>2, <2>3, <2>4, <2>5 DEF BooksMatchBoxes
<1>5. ASSUME NEW t \in Traders, NEW l \in BOOLEAN, NEW s \in Sizes, NEW x \in Leverages,
             OpenPosition(t, l, s, x)
      PROVE  BooksMatchBoxes'
  <2>1. PICK box \in Position :
           /\ positions' = Append(positions, box)
           /\ box.isOpen /\ box.isLong = l /\ box.size = s
    BY <1>5, OpenedBox
  <2>2. /\ SizeOf(Longs)' = SizeOf(Longs) + IF l THEN s ELSE 0
        /\ SizeOf(Shorts)' = SizeOf(Shorts) + IF l THEN 0 ELSE s
        /\ Cardinality(OpenIds)' = Cardinality(OpenIds) + 1
    BY <1>1, <2>1, BooksAfterOpen
  <2>3. /\ longOi' = longOi + IF l THEN s ELSE 0
        /\ shortOi' = shortOi + IF l THEN 0 ELSE s
        /\ activePositions' = activePositions + 1
    BY <1>5 DEF OpenPosition
  <2>4. QED
    BY <1>2, <2>2, <2>3 DEF BooksMatchBoxes
<1>6. ASSUME NEW i \in PositionIds, ClosePosition(i) \/ Liquidate(i)
      PROVE  BooksMatchBoxes'
  BY <1>4, <1>6 DEF ClosePosition, Liquidate
<1>7. ASSUME NEW i \in PositionIds, NEW a \in MarginMoves, AddMargin(i, a) \/ RemoveMargin(i, a)
      PROVE  BooksMatchBoxes'
  <2>1. /\ SizeOf(Longs)' = SizeOf(Longs) /\ SizeOf(Shorts)' = SizeOf(Shorts)
        /\ OpenIds' = OpenIds
    BY <1>7, MovedBooks
  <2>2. UNCHANGED books
    BY <1>7 DEF AddMargin, RemoveMargin
  <2>3. QED
    BY <1>2, <2>1, <2>2 DEF books, BooksMatchBoxes
<1>8. CASE PoolNext /\ UNCHANGED marketVars
  BY <1>3, <1>8 DEF marketVars
<1>9. ASSUME NEW x \in MarketPayments, PayMarket(x)
      PROVE  BooksMatchBoxes'
  BY <1>3, <1>9 DEF PayMarket
<1>10. ASSUME NEW m \in Maintenances, SetMaintenance(m)
       PROVE  BooksMatchBoxes'
  BY <1>3, <1>10 DEF SetMaintenance
<1>11. CASE PauseMarket
  BY <1>3, <1>11 DEF PauseMarket
<1>12. ASSUME NEW p \in Prices, UpdatePrice(p)
       PROVE  BooksMatchBoxes'
  BY <1>3, <1>12 DEF UpdatePrice
<1>13. CASE UNCHANGED vars
  BY <1>3, <1>13 DEF vars, marketVars
<1>14. QED
  BY <1>5, <1>6, <1>7, <1>8, <1>9, <1>10, <1>11, <1>12, <1>13 DEF Next

(* The open interest and the number of positions that the code keeps by     *)
(* hand are those of the boxes: the skipped subtraction of close_position   *)
(* and liquidate never happens (perpetuals_market.py:391, :594).            *)
THEOREM BooksMatch == Spec => []BooksMatchBoxes
<1>1. Init => IInv /\ BooksMatchBoxes
  <2>1. SUFFICES ASSUME Init PROVE BooksMatchBoxes
    BY InitHolds
  <2>2. OpenIds = {} /\ Longs = {} /\ Shorts = {}
    BY <2>1 DEF Init, MarketInit, OpenIds, Longs, Shorts, PositionIds
  <2>3. Cardinality({}) = 0
    BY FS_EmptySet
  <2>4. longOi = 0 /\ shortOi = 0 /\ activePositions = 0
    BY <2>1 DEF Init, MarketInit
  <2>5. QED
    BY <2>2, <2>3, <2>4, SumEmpty DEF BooksMatchBoxes, SizeOf
<1>2. IInv /\ BooksMatchBoxes /\ [Next]_vars => IInv' /\ BooksMatchBoxes'
  BY EveryStep, BooksStep DEF StepKept
<1>3. QED
  BY <1>1, <1>2, PTL DEF Spec

-----------------------------------------------------------------------------
(* The pool's account *)

(* What of the payment of the group is in the account and in no book yet.   *)
Spare(g) == IF g.asset = "algo" /\ g.to = "pool" THEN g.unbooked ELSE 0

Held == poolBalance + poolTxns * TxnFee + (overbooked - Spare(group))

Covered ==
    /\ poolBalance \in Int /\ poolTxns \in Nat /\ overbooked \in Nat
    /\ Held >= PoolFunds + totalLiquidity + Margins

LEMMA SpareIsNat ==
    ASSUME GroupTyped
    PROVE  Spare(group) \in Nat
BY DEF GroupTyped, Spare

LEMMA CoveredIsEnough ==
    ASSUME IInv, Covered
    PROVE  PoolCoversBooks
<1> DEFINE paid == poolTxns * TxnFee
<1>1. TxnFee \in Nat /\ poolTxns \in Nat /\ poolBalance \in Int /\ overbooked \in Nat
  BY PoolAssumption DEF Covered
<1>2. /\ paid \in Int /\ Spare(group) \in Nat /\ Margins \in Int /\ totalLiquidity \in Int
      /\ PoolFunds \in Int
  BY <1>1, SpareIsNat, SumsAreNat, PoolAssumption DEF IInv, PoolTyped
<1>3. poolBalance + paid + (overbooked - Spare(group)) >= PoolFunds + totalLiquidity + Margins
  BY DEF Covered, Held
<1> HIDE DEF paid
<1>4. poolBalance + paid + overbooked >= PoolFunds + totalLiquidity + Margins
  BY <1>1, <1>2, <1>3
<1>5. QED
  BY <1>4 DEF paid, PoolCoversBooks

(* The books stay covered when they gain no more than the account.          *)
LEMMA GainsLess ==
    ASSUME NEW held \in Int, NEW gain \in Int, NEW funds \in Int, NEW l \in Int,
           NEW dl \in Int, NEW m \in Int, NEW m2 \in Int, NEW dm \in Int,
           held >= funds + l + m, m2 <= m + dm, dl + dm <= gain
    PROVE  held + gain >= funds + (l + dl) + m2
OBVIOUS

LEMMA HeldGains ==
    ASSUME NEW b \in Int, NEW db \in Int, NEW paid \in Int, NEW more \in Int,
           NEW o \in Int, NEW o2 \in Int, NEW dg \in Int, dg <= o2 - o
    PROVE  /\ b + paid + o \in Int
           /\ ((b + db) - more) + (paid + more) + o2 \in Int
           /\ ((b + db) - more) + (paid + more) + o2 >= (b + paid + o) + (db + dg)
OBVIOUS

LEMMA StaysCovered ==
    ASSUME IInv, Covered,
           NEW n \in 0..2, poolTxns' = poolTxns + n,
           NEW db \in Int, poolBalance' = (poolBalance + db) - n * TxnFee,
           overbooked' \in Nat, Spare(group') \in Nat,
           NEW dg \in Int, dg <= (overbooked' - Spare(group')) - (overbooked - Spare(group)),
           NEW dl \in Int, totalLiquidity' = totalLiquidity + dl,
           NEW dm \in Int, Margins' \in Int, Margins' <= Margins + dm, dl + dm <= db + dg
    PROVE  Covered'
<1> DEFINE paid == poolTxns * TxnFee
           more == n * TxnFee
<1>1. /\ TxnFee \in Nat /\ poolTxns \in Nat /\ poolBalance \in Int /\ overbooked \in Nat
      /\ n \in Nat /\ Spare(group) \in Nat
  BY PoolAssumption, SpareIsNat DEF Covered, IInv
<1>2. (poolTxns + n) * TxnFee = paid + more /\ paid \in Nat /\ more \in Nat
  <2>1. CASE n = 0
    BY <1>1, <2>1
  <2>2. CASE n = 1
    BY <1>1, <2>2
  <2>3. CASE n = 2
    BY <1>1, <2>3
  <2>4. QED
    BY <2>1, <2>2, <2>3
<1>3. Margins \in Int /\ totalLiquidity \in Int /\ PoolFunds \in Int
  BY SumsAreNat, PoolAssumption DEF IInv, PoolTyped
<1>4. /\ Held = poolBalance + paid + (overbooked - Spare(group))
      /\ Held' = ((poolBalance + db) - more) + (paid + more) + (overbooked' - Spare(group'))
  BY <1>2 DEF Held
<1>5. Held >= PoolFunds + totalLiquidity + Margins
  BY DEF Covered
<1> HIDE DEF paid, more
<1> DEFINE held2 == ((poolBalance + db) - more) + (paid + more) + (overbooked' - Spare(group'))
<1>6. Held \in Int /\ db + dg \in Int /\ held2 \in Int /\ held2 >= Held + (db + dg)
  <2> DEFINE o == overbooked - Spare(group)
             o2 == overbooked' - Spare(group')
  <2>1. o \in Int /\ o2 \in Int /\ dg <= o2 - o /\ paid \in Int /\ more \in Int
    BY <1>1, <1>2
  <2>2. Held = poolBalance + paid + o /\ held2 = ((poolBalance + db) - more) + (paid + more) + o2
    BY <1>4
  <2> HIDE DEF o, o2, held2
  <2>3. QED
    BY <1>1, <2>1, <2>2, HeldGains
<1>7. Held' = held2
  BY <1>4
<1> HIDE DEF held2
<1>8. Held' >= PoolFunds + totalLiquidity' + Margins'
  <2> DEFINE books2 == PoolFunds + (totalLiquidity + dl) + Margins'
  <2>1. Held + (db + dg) >= books2
    BY <1>3, <1>5, <1>6, GainsLess
  <2>2. books2 \in Int
    BY <1>3
  <2> HIDE DEF books2
  <2>3. held2 >= books2
    BY <1>6, <2>1, <2>2
  <2>4. QED
    BY <1>7, <2>3, Zenon DEF books2
<1>9. poolBalance' \in Int /\ poolTxns' \in Nat
  <2>1. more \in Nat /\ poolBalance' = (poolBalance + db) - more
    BY <1>2 DEF more
  <2>2. QED
    BY <1>1, <2>1
<1>10. QED
  BY <1>8, <1>9 DEF Covered

(* Inner transactions of the pool, behind a call that books "dg" of the     *)
(* payment: the fees are counted as paid.                                   *)
LEMMA SendCovers ==
    ASSUME IInv, Covered, NEW balance \in Int, NEW n \in {1, 2}, PoolSends(balance, n),
           NEW db \in Int, balance = poolBalance + db,
           overbooked' \in Nat, Spare(group') \in Nat,
           NEW dg \in Int, dg <= (overbooked' - Spare(group')) - (overbooked - Spare(group)),
           NEW dl \in Int, totalLiquidity' = totalLiquidity + dl,
           NEW dm \in Int, Margins' \in Int, Margins' <= Margins + dm, dl + dm <= db + dg
    PROVE  Covered'
<1>1. poolTxns' = poolTxns + n /\ poolBalance' = balance - n * TxnFee
  BY DEF PoolSends
<1>2. poolBalance' = (poolBalance + db) - n * TxnFee
  BY <1>1, Zenon
<1>3. n \in 0..2
  OBVIOUS
<1>4. QED
  BY <1>1, <1>2, <1>3, StaysCovered

LEMMA BalanceCovers ==
    ASSUME IInv, Covered, NEW db \in Int, poolBalance' = poolBalance + db, UNCHANGED poolTxns,
           overbooked' \in Nat, Spare(group') \in Nat,
           NEW dg \in Int, dg <= (overbooked' - Spare(group')) - (overbooked - Spare(group)),
           NEW dl \in Int, totalLiquidity' = totalLiquidity + dl,
           NEW dm \in Int, Margins' \in Int, Margins' <= Margins + dm, dl + dm <= db + dg
    PROVE  Covered'
<1>1. /\ TxnFee \in Nat /\ poolTxns \in Nat /\ poolBalance \in Int
      /\ 0 \in 0..2
  BY PoolAssumption DEF Covered
<1>2. poolTxns' = poolTxns + 0 /\ poolBalance' = (poolBalance + db) - 0 * TxnFee
  BY <1>1
<1>3. QED
  BY <1>1, <1>2, StaysCovered

(* What a step of the group does to the part that is in no book.            *)
LEMMA SpareBegins ==
    ASSUME NEW to \in LPs \cup {"pool", "market"}, NEW asset \in {"algo", "lp"},
           NEW amount \in Nat, Begin(asset, to, amount)
    PROVE  Spare(group) = 0 /\ Spare(group') = IF asset = "algo" /\ to = "pool" THEN amount ELSE 0
BY DEF Begin, NoGroup, Spare, Carries

LEMMA SpareBooked ==
    ASSUME GroupTyped, Carries("algo", "pool"), NEW x \in Nat, Book(x)
    PROVE  Spare(group') \in Nat /\ BookedAgain(x) \in Nat /\ BookedAgain(x) - Spare(group') = x - Spare(group)
<1>1. /\ GroupTyped' /\ group'.asset = group.asset /\ group'.to = group.to
      /\ BookedAgain(x) \in Nat
      /\ BookedAgain(x) - group'.unbooked = x - group.unbooked
  BY BookedGroup
<1>2. Spare(group) = group.unbooked /\ Spare(group') = group'.unbooked /\ group'.unbooked \in Nat
  BY <1>1 DEF Spare, Carries, GroupTyped
<1>3. QED
  BY <1>1, <1>2

LEMMA SpareElsewhere ==
    ASSUME GroupTyped, ~Carries("algo", "pool"), NEW x \in Nat, Book(x)
    PROVE  Spare(group) = 0 /\ Spare(group') = 0
BY BookedGroup DEF Spare, Carries

(* A step that books nothing of a payment to the pool.                      *)
Untouched == overbooked' = overbooked /\ Spare(group') = Spare(group)

LEMMA UntouchedGain ==
    ASSUME IInv, Covered, Untouched
    PROVE  /\ overbooked' \in Nat /\ Spare(group') \in Nat
           /\ 0 <= (overbooked' - Spare(group')) - (overbooked - Spare(group))
<1>1. overbooked \in Nat /\ Spare(group) \in Nat
  BY SpareIsNat DEF Covered, IInv
<1>2. QED
  BY <1>1 DEF Untouched

LEMMA GroupKept ==
    ASSUME UNCHANGED <<group, overbooked>>
    PROVE  Untouched
BY DEF Untouched, Spare, Carries

LEMMA PoolStepCovers ==
    ASSUME IInv, Covered, PoolNext, UNCHANGED marketVars
    PROVE  Covered'
<1>1. Margins' \in Int /\ Margins' <= Margins + 0
  <2>1. Margins' = Margins
    BY DEF marketVars, Margins, OpenIds, Open, PositionIds
  <2>2. QED
    BY <2>1, SumsAreNat DEF IInv
<1>2. /\ totalLiquidity \in Nat /\ totalShares \in Nat /\ poolBalance \in Int /\ poolTxns \in Nat
      /\ overbooked \in Nat /\ GroupTyped /\ Spare(group) \in Nat
  BY SpareIsNat DEF IInv, PoolTyped, Covered
<1>3. ASSUME NEW a \in LPs, Deposit(a)
      PROVE  Covered'
  <2> DEFINE payment == group.amount
             fee == BasisPoints(payment, DepositFee)
             net == payment - fee
  <2>1. payment \in Nat /\ fee \in Nat
    <3>1. payment \in Nat /\ DepositFee \in Rates
      BY <1>2, FeesAreRates DEF GroupTyped
    <3>2. QED
      BY <3>1, BasisPointsOf
  <2>2. /\ totalLiquidity' = totalLiquidity + payment - fee
        /\ PoolSends(poolBalance - fee, IF fee > 0 THEN 2 ELSE 1)
        /\ Carries("algo", "pool") /\ Book(payment)
        /\ overbooked' = overbooked + BookedAgain(payment)
    BY <1>3 DEF Deposit
  <2> HIDE DEF fee, payment
  <2>3. Spare(group') \in Nat /\ BookedAgain(payment) \in Nat /\ BookedAgain(payment) - Spare(group') = payment - Spare(group)
    BY <1>2, <2>1, <2>2, SpareBooked
  <2>4. /\ overbooked' \in Nat /\ payment \in Int
        /\ payment <= (overbooked' - Spare(group')) - (overbooked - Spare(group))
    BY <1>2, <2>1, <2>2, <2>3
  <2>5. net \in Int /\ -fee \in Int /\ net + 0 <= -fee + payment
        /\ (IF fee > 0 THEN 2 ELSE 1) \in {1, 2}
    BY <2>1
  <2>6. /\ poolBalance - fee \in Int /\ poolBalance - fee = poolBalance + (-fee)
        /\ totalLiquidity' = totalLiquidity + net
    BY <1>2, <2>1, <2>2
  <2> HIDE DEF net
  <2>7. QED
    BY <1>1, <2>2, <2>3, <2>4, <2>5, <2>6, SendCovers
<1>4. ASSUME NEW s \in Withdrawals, Withdraw(s)
      PROVE  Covered'
  <2> DEFINE amount == AlgoForShares(s)
             fee == BasisPoints(amount, WithdrawFee)
             net == amount - fee
  <2>1. s \in Nat /\ amount \in Nat
    <3>1. s \in Nat
      BY PoolAssumption
    <3>2. QED
      BY <1>2, <3>1, ScaledIsNat DEF AlgoForShares
  <2>2. /\ totalLiquidity' = totalLiquidity - amount /\ PoolSends(poolBalance - net, 1)
        /\ ~Carries("algo", "pool") /\ Book(s) /\ overbooked' = overbooked
    BY <1>4 DEF Withdraw, Carries
  <2> HIDE DEF amount
  <2>3. fee \in Nat /\ fee <= amount
    <3>1. WithdrawFee \in Rates
      BY PoolAssumption DEF Rates
    <3>2. QED
      BY <2>1, <3>1, BasisPointsOf
  <2> HIDE DEF fee
  <2>4. Untouched
    BY <1>2, <2>1, <2>2, SpareElsewhere DEF Untouched
  <2>5. -net \in Int /\ -amount \in Int /\ (-amount) + 0 <= -net + 0
    BY <2>1, <2>3
  <2>6. /\ poolBalance - net \in Int /\ poolBalance - net = poolBalance + (-net)
        /\ totalLiquidity' = totalLiquidity + (-amount)
    BY <1>2, <2>1, <2>2, <2>3
  <2> HIDE DEF net
  <2>7. QED
    BY <1>1, <2>2, <2>4, <2>5, <2>6, UntouchedGain, SendCovers
<1>5. ASSUME NEW x \in TradingFees, CollectTradingFee(x)
      PROVE  Covered'
  <2>1. x \in Nat
    BY PoolAssumption
  <2>2. /\ Carries("algo", "pool") /\ Book(x) /\ overbooked' = overbooked + BookedAgain(x)
        /\ totalLiquidity' = totalLiquidity + x /\ UNCHANGED <<poolBalance, poolTxns>>
    BY <1>5 DEF CollectTradingFee
  <2>3. Spare(group') \in Nat /\ BookedAgain(x) \in Nat /\ BookedAgain(x) - Spare(group') = x - Spare(group)
    BY <1>2, <2>1, <2>2, SpareBooked
  <2>4. /\ overbooked' \in Nat /\ x \in Int /\ x <= (overbooked' - Spare(group')) - (overbooked - Spare(group))
        /\ poolBalance' = poolBalance + 0 /\ x + 0 <= 0 + x
    BY <1>2, <2>1, <2>2, <2>3
  <2>5. QED
    BY <1>1, <2>2, <2>3, <2>4, BalanceCovers
<1>6. ASSUME NEW x \in PoolPayments, PayPool(x)
      PROVE  Covered'
  <2>1. x \in Nat
    BY PoolAssumption
  <2>2. /\ poolBalance' = poolBalance + x /\ UNCHANGED <<totalLiquidity, poolTxns, overbooked>>
        /\ Spare(group) = 0 /\ Spare(group') = x
    BY <1>6, <2>1, SpareBegins DEF PayPool
  <2> DEFINE paid == poolTxns * TxnFee
  <2>3. paid \in Int /\ PoolFunds \in Int
    BY <1>2, PoolAssumption
  <2>4. /\ Held = poolBalance + paid + (overbooked - 0)
        /\ Held' = (poolBalance + x) + paid + (overbooked - x)
    BY <2>2 DEF Held
  <2>5. Held >= PoolFunds + totalLiquidity + Margins /\ Margins' = Margins
    BY DEF Covered, marketVars, Margins, OpenIds, Open, PositionIds
  <2> HIDE DEF paid
  <2>6. Held' = Held
    BY <1>2, <2>1, <2>3, <2>4
  <2>7. poolBalance' \in Int
    BY <1>2, <2>1, <2>2
  <2>8. QED
    BY <1>2, <2>2, <2>5, <2>6, <2>7 DEF Covered
<1>7. ASSUME UNCHANGED <<totalLiquidity, poolBalance, poolTxns, overbooked>>,
             Spare(group') \in Nat, Spare(group') <= Spare(group)
      PROVE  Covered'
  <2>1. poolBalance' = poolBalance + 0 /\ totalLiquidity' = totalLiquidity + 0
    BY <1>2, <1>7
  <2>2. overbooked' = overbooked /\ overbooked' \in Nat
    BY <1>2, <1>7
  <2>3. 0 <= (overbooked' - Spare(group')) - (overbooked - Spare(group))
    BY <1>2, <1>7, <2>2
  <2>4. 0 + 0 <= 0 + 0
    OBVIOUS
  <2>5. QED
    BY <1>1, <1>7, <2>1, <2>2, <2>3, <2>4, BalanceCovers
<1>8. ASSUME NEW a \in LPs, NEW to \in LPs \cup {"pool"}, NEW x \in Withdrawals, SendLp(a, to, x)
      PROVE  Covered'
  <2>1. Spare(group') = 0
    BY <1>8, PoolAssumption, SpareBegins DEF SendLp
  <2>2. QED
    BY <1>2, <1>7, <1>8, <2>1 DEF SendLp
<1>9. CASE PausePool
  <2>1. Spare(group') = Spare(group)
    BY <1>9 DEF PausePool, Spare, Carries
  <2>2. QED
    BY <1>2, <1>7, <1>9, <2>1 DEF PausePool
<1>10. CASE End /\ UNCHANGED poolVars
  <2>1. Spare(group') = 0
    BY <1>10 DEF End, NoGroup, Spare, Carries
  <2>2. QED
    BY <1>2, <1>7, <1>10, <2>1 DEF poolVars
<1>11. QED
  BY <1>3, <1>4, <1>5, <1>6, <1>8, <1>9, <1>10 DEF PoolNext

LEMMA ReceivedCovers ==
    ASSUME IInv, Covered, Untouched, NEW amount \in Nat, poolBalance' = poolBalance + amount,
           UNCHANGED <<totalLiquidity, poolTxns>>,
           Margins' \in Int, Margins' <= Margins + amount
    PROVE  Covered'
<1>1. totalLiquidity' = totalLiquidity + 0 /\ 0 + amount <= amount + 0
  BY DEF IInv, PoolTyped
<1>2. QED
  BY <1>1, UntouchedGain, BalanceCovers

(* The margin of a payment to the market is in no book of the pool.         *)
LEMMA MarketBooks ==
    ASSUME IInv, Carries("algo", "market"), NEW x \in Nat, Book(x), UNCHANGED overbooked
    PROVE  Untouched
<1>1. ~Carries("algo", "pool")
  BY DEF Carries
<1>2. QED
  BY <1>1, SpareElsewhere DEF Untouched, IInv

LEMMA CloseCovers ==
    ASSUME IInv, Covered, NEW i \in PositionIds, ClosePosition(i)
    PROVE  Covered'
<1> DEFINE net == NetReturn(positions[i])
<1>1. net \in Nat /\ positions[i] \in Position
  BY OpenIdsFinite, ReturnIsNat DEF IInv
<1>2. Open(i) /\ positions' = [positions EXCEPT ![i].isOpen = FALSE]
  BY DEF ClosePosition, CloseBox
<1>3. Margins' = Margins - positions[i].collateral /\ positions[i].collateral \in Nat
  BY <1>1, <1>2, BooksAfterClose DEF IInv, Position
<1>4. Margins' \in Int /\ Margins' <= Margins + 0
  BY <1>3, SumsAreNat DEF IInv
<1>5. totalLiquidity \in Nat /\ poolBalance \in Int
  BY DEF IInv, PoolTyped, Covered
<1>6. \/ totalLiquidity' = totalLiquidity - net /\ PoolSends(poolBalance - net, 1)
      \/ UNCHANGED <<totalLiquidity, poolBalance, poolTxns>>
  BY DEF ClosePosition, ProcessPnl
<1>7. Untouched
  BY GroupKept DEF ClosePosition, ProcessPnl
<1> HIDE DEF net
<1>8. CASE totalLiquidity' = totalLiquidity - net /\ PoolSends(poolBalance - net, 1)
  <2>1. -net \in Int /\ (-net) + 0 <= -net + 0
    BY <1>1
  <2>2. /\ poolBalance - net \in Int /\ poolBalance - net = poolBalance + (-net)
        /\ totalLiquidity' = totalLiquidity + (-net)
    BY <1>1, <1>5, <1>8
  <2>3. QED
    BY <1>4, <1>7, <1>8, <2>1, <2>2, UntouchedGain, SendCovers
<1>9. CASE UNCHANGED <<totalLiquidity, poolBalance, poolTxns>>
  <2>1. poolBalance' = poolBalance + 0
    BY <1>5, <1>9
  <2>2. QED
    BY <1>4, <1>7, <1>9, <2>1, ReceivedCovers
<1>10. QED
  BY <1>6, <1>8, <1>9

LEMMA LiquidateCovers ==
    ASSUME IInv, Covered, NEW i \in PositionIds, Liquidate(i)
    PROVE  Covered'
<1> DEFINE margin == EffectiveMargin(positions[i])
           reward == BasisPoints(margin, LiquidatorReward)
<1>1. positions[i] \in Position /\ margin \in Nat
  BY OpenIdsFinite, ReturnIsNat DEF IInv
<1>2. Open(i) /\ positions' = [positions EXCEPT ![i].isOpen = FALSE]
  BY DEF Liquidate, CloseBox
<1>3. /\ Margins' = Margins - positions[i].collateral /\ positions[i].collateral \in Nat
      /\ Margins \in Nat
  BY <1>1, <1>2, BooksAfterClose, SumsAreNat DEF IInv, Position
<1>4. /\ poolBalance' = poolBalance + (margin - reward)
      /\ UNCHANGED <<totalLiquidity, poolTxns, overbooked, group>>
  BY DEF Liquidate, PoolReceives
<1> HIDE DEF margin
<1>5. reward \in Nat /\ reward <= margin
  <2>1. LiquidatorReward \in Rates
    BY RatesAssumption DEF Rates
  <2>2. QED
    BY <1>1, <2>1, BasisPointsOf
<1> HIDE DEF reward
<1>6. margin - reward \in Nat /\ Margins' \in Int /\ Margins' <= Margins + (margin - reward)
  BY <1>1, <1>3, <1>5
<1>7. QED
  BY <1>4, <1>6, GroupKept, ReceivedCovers

LEMMA CoveredStep ==
    ASSUME IInv, Covered, [Next]_vars
    PROVE  Covered'
<1>1. CASE PoolNext /\ UNCHANGED marketVars
  BY <1>1, PoolStepCovers
<1>2. ASSUME NEW t \in Traders, NEW l \in BOOLEAN, NEW s \in Sizes, NEW x \in Leverages,
             OpenPosition(t, l, s, x)
      PROVE  Covered'
  <2>1. PICK box \in Position :
           /\ positions' = Append(positions, box)
           /\ box.isOpen /\ box.collateral = group.amount - BasisPoints(s, OpenFee)
           /\ box.collateral \in Nat
    BY <1>2, OpenedBox
  <2>2. Margins' = Margins + box.collateral /\ Margins \in Nat
    BY <2>1, BooksAfterOpen, SumsAreNat DEF IInv
  <2>3. /\ poolBalance' = poolBalance + box.collateral
        /\ UNCHANGED <<totalLiquidity, poolTxns, overbooked>>
        /\ Carries("algo", "market") /\ Book(group.amount) /\ group.amount \in Nat
    BY <1>2, <2>1 DEF OpenPosition, PoolReceives, IInv, GroupTyped
  <2>4. Untouched
    BY <2>3, MarketBooks
  <2>5. Margins' \in Int /\ Margins' <= Margins + box.collateral
    BY <2>1, <2>2
  <2>6. QED
    BY <2>1, <2>3, <2>4, <2>5, ReceivedCovers
<1>3. ASSUME NEW x \in MarketPayments, PayMarket(x)
      PROVE  Covered'
  <2>1. Spare(group) = 0 /\ Spare(group') = 0 /\ UNCHANGED <<poolVars, positions>>
    BY <1>3, TermsAreNat, SpareBegins DEF PayMarket
  <2>2. QED
    BY <2>1 DEF poolVars, Covered, Held, Margins, OpenIds, Open, PositionIds
<1>4. ASSUME NEW i \in PositionIds, ClosePosition(i) \/ Liquidate(i)
      PROVE  Covered'
  BY <1>4, CloseCovers, LiquidateCovers
<1>5. ASSUME NEW i \in PositionIds, NEW a \in MarginMoves, AddMargin(i, a) \/ RemoveMargin(i, a)
      PROVE  Covered'
  <2>1. a \in Nat /\ Margins \in Nat
    BY TermsAreNat, SumsAreNat DEF IInv
  <2>2. \/ AddMargin(i, a) /\ Margins' = Margins + a
        \/ RemoveMargin(i, a) /\ Margins' = Margins - a
    BY <1>5, MovedBooks
  <2>3. CASE AddMargin(i, a) /\ Margins' = Margins + a
    <3>1. /\ poolBalance' = poolBalance + a /\ UNCHANGED <<totalLiquidity, poolTxns, overbooked>>
          /\ Carries("algo", "market") /\ Book(a)
      BY <2>3 DEF AddMargin, PoolReceives
    <3>2. Untouched
      BY <2>1, <3>1, MarketBooks
    <3>3. QED
      BY <2>1, <2>3, <3>1, <3>2, ReceivedCovers
  <2>4. CASE RemoveMargin(i, a) /\ Margins' = Margins - a
    <3>1. /\ poolBalance' = poolBalance + 0 /\ UNCHANGED <<totalLiquidity, poolTxns>>
          /\ UNCHANGED <<group, overbooked>>
      BY <2>4 DEF RemoveMargin, poolVars, IInv, PoolTyped, Covered
    <3>2. Margins' \in Int /\ Margins' <= Margins + 0
      BY <2>1, <2>4
    <3>3. QED
      BY <3>1, <3>2, GroupKept, ReceivedCovers
  <2>5. QED
    BY <2>2, <2>3, <2>4
<1>6. ASSUME UNCHANGED poolVars, UNCHANGED positions, UNCHANGED group
      PROVE  Covered'
  BY <1>6 DEF poolVars, Covered, Held, Spare, Carries, Margins, OpenIds, Open, PositionIds
<1>7. ASSUME NEW m \in Maintenances, SetMaintenance(m)
      PROVE  Covered'
  BY <1>6, <1>7 DEF SetMaintenance
<1>8. CASE PauseMarket
  BY <1>6, <1>8 DEF PauseMarket
<1>9. ASSUME NEW p \in Prices, UpdatePrice(p)
      PROVE  Covered'
  BY <1>6, <1>9 DEF UpdatePrice
<1>10. CASE UNCHANGED vars
  BY <1>6, <1>10 DEF vars, marketVars
<1>11. QED
  BY <1>1, <1>2, <1>3, <1>4, <1>5, <1>7, <1>8, <1>9, <1>10 DEF Next

(* Whatever is deposited, withdrawn, won, lost or liquidated, the pool's    *)
(* account holds the liquidity and every open margin at once, up to the     *)
(* transaction fees it paid and what calls of one group booked of the same  *)
(* payment.  The invariant counts the unbooked part of a payment apart: it  *)
(* is in the account and in no book yet.                                    *)
THEOREM PoolCovers == Spec => []PoolCoversBooks
<1>1. Init => IInv /\ Covered
  <2>1. SUFFICES ASSUME Init PROVE Covered
    BY InitHolds
  <2>2. PoolFunds \in Nat /\ TxnFee \in Nat
    BY PoolAssumption
  <2>3. /\ totalLiquidity = 0 /\ poolTxns = 0 /\ poolBalance = PoolFunds /\ OpenIds = {}
        /\ overbooked = 0 /\ Spare(group) = 0
    BY <2>1 DEF Init, PoolInit, MarketInit, OpenIds, PositionIds, Spare, Carries, NoGroup
  <2>4. Margins = 0
    BY <2>3, SumEmpty DEF Margins
  <2>5. Held = PoolFunds
    BY <2>2, <2>3 DEF Held
  <2>6. QED
    BY <2>2, <2>3, <2>4, <2>5 DEF Covered
<1>2. IInv /\ Covered /\ [Next]_vars => IInv' /\ Covered'
  BY EveryStep, CoveredStep DEF StepKept
<1>3. IInv /\ Covered => PoolCoversBooks
  BY CoveredIsEnough
<1>4. QED
  BY <1>1, <1>2, <1>3, PTL DEF Spec

-----------------------------------------------------------------------------
(* Liquidation *)

(* A position whose margin was eaten down to the maintenance amount has     *)
(* moved by at least what its liquidation price allows.                     *)
LEMMA MoveIsBeyond ==
    ASSUME NEW diff \in Nat, NEW size \in Nat \ {0}, NEW entry \in Nat \ {0}, NEW spare \in Nat,
           spare <= (diff * size) \div entry
    PROVE  (spare * entry) \div size \in Nat /\ (spare * entry) \div size <= diff
<1> DEFINE moved == diff * size
           needed == spare * entry
           change == needed \div size
<1>1. moved \in Nat /\ needed \in Nat
  OBVIOUS
<1> HIDE DEF moved, needed
<1>2. change \in Nat /\ change * size <= needed
  BY <1>1, QuotientIs
<1>3. needed <= moved
  BY <1>1, AtMostQuotient DEF moved, needed
<1> HIDE DEF change
<1>4. change * size <= diff * size
  BY <1>1, <1>2, <1>3 DEF moved
<1>5. ~(diff < change)
  <2>1. SUFFICES ASSUME diff < change PROVE FALSE
    OBVIOUS
  <2>2. change - diff \in Nat \ {0}
    BY <1>2, <2>1
  <2>3. (change - diff) * size > 0 /\ (change - diff) * size = change * size - diff * size
    BY <1>2, <2>2
  <2>4. change * size \in Int /\ diff * size \in Int
    BY <1>2
  <2>5. QED
    BY <1>4, <2>3, <2>4
<1>6. QED
  BY <1>2, <1>5 DEF change, needed

LEMMA LiquidatableIsBeyond ==
    ASSUME MarketTyped, NEW p \in Position, Liquidatable(p),
           p.collateral > BasisPoints(p.size, maintenance)
    PROVE  Beyond(p)
<1> DEFINE kept == (p.size * maintenance) \div 10000
           spare == p.collateral - kept
           change == (spare * p.entryPrice) \div p.size
           diff == IF price >= p.entryPrice THEN price - p.entryPrice ELSE p.entryPrice - price
           margin == EffectiveMargin(p)
<1>1. /\ price \in Nat \ {0} /\ p.entryPrice \in Nat \ {0} /\ p.size \in Nat \ {0}
      /\ p.collateral \in Nat /\ maintenance \in Nat /\ p.isLong \in BOOLEAN
  <2>1. Prices \subseteq Nat \ {0} /\ Sizes \subseteq Nat \ {0}
    BY TermsAreNat
  <2>2. /\ price \in Prices /\ p.entryPrice \in Prices /\ p.size \in Sizes /\ p.collateral \in Nat
        /\ maintenance \in Nat /\ p.isLong \in BOOLEAN
    BY DEF MarketTyped, Position
  <2>3. QED
    BY <2>1, <2>2
<1>2. /\ kept \in Nat /\ diff \in Nat /\ margin \in Nat /\ Pnl(p) \in Nat
      /\ Pnl(p) = (diff * p.size) \div p.entryPrice
  BY <1>1, ScaledIsNat, ReturnIsNat DEF Pnl
<1>3. p.collateral > kept /\ spare \in Nat
  <2>1. p.collateral > kept
    BY DEF BasisPoints
  <2> HIDE DEF kept
  <2>2. QED
    BY <1>1, <1>2, <2>1
<1>4. margin <= kept
  <2> DEFINE scaled == margin * 10000
             due == p.size * maintenance
  <2>1. scaled \in Nat /\ due \in Nat
    BY <1>1, <1>2
  <2>2. scaled \div p.size < maintenance
    BY DEF Liquidatable
  <2> HIDE DEF scaled
  <2>3. ~(maintenance * p.size <= scaled)
    BY <1>1, <2>1, <2>2, AtMostQuotient, QuotientIs
  <2>4. maintenance * p.size = due
    BY <1>1
  <2> HIDE DEF due
  <2>5. scaled <= due
    BY <2>1, <2>3, <2>4
  <2>6. margin <= due \div 10000
    BY <1>2, <2>1, <2>5, AtMostQuotient DEF scaled
  <2>7. QED
    BY <2>6 DEF due
<1>5. /\ LiquidationPrice(p.isLong, p.entryPrice, p.collateral, p.size)
           = IF ~p.isLong THEN p.entryPrice + change
             ELSE IF p.entryPrice > change THEN p.entryPrice - change ELSE 1
  <2>1. ~(p.collateral <= kept)
    <3> HIDE DEF kept
    <3>1. QED
      BY <1>1, <1>2, <1>3
  <2>2. QED
    BY <2>1 DEF LiquidationPrice, BasisPoints
<1> HIDE DEF kept, diff, margin
<1>6. ~InProfit(p) /\ spare <= Pnl(p)
  <2>1. margin = IF InProfit(p) THEN p.collateral + Pnl(p)
                 ELSE IF p.collateral - Pnl(p) > 0 THEN p.collateral - Pnl(p) ELSE 0
    BY DEF margin, EffectiveMargin, Floored
  <2>2. ~InProfit(p)
    BY <1>1, <1>2, <1>3, <1>4, <2>1
  <2>3. QED
    BY <1>1, <1>2, <1>3, <1>4, <2>1, <2>2
<1> HIDE DEF spare
<1>7. change \in Nat /\ change <= diff
  BY <1>1, <1>2, <1>3, <1>6, MoveIsBeyond
<1> HIDE DEF change
<1>8. IF p.isLong THEN price + diff = p.entryPrice ELSE price = p.entryPrice + diff
  BY <1>1, <1>6 DEF InProfit, diff
<1>9. QED
  BY <1>1, <1>2, <1>5, <1>7, <1>8 DEF Beyond

(* The two formulas of liquidation agree at every size, price and margin,   *)
(* through all four truncations.                                            *)
THEOREM LiquidatedAtPrice == Spec => LiquidatedBeyondPrice
<1>1. Init => IInv
  BY InitHolds
<1>2. IInv /\ [Next]_vars => IInv'
  BY EveryStep DEF StepKept
<1>3. IInv /\ [Next]_vars
        => [\A i \in OpenIds :
               Liquidate(i) /\ positions[i].collateral > BasisPoints(positions[i].size, maintenance)
               => Beyond(positions[i])]_vars
  <2>1. SUFFICES ASSUME IInv, NEW i \in OpenIds, Liquidate(i),
                        positions[i].collateral > BasisPoints(positions[i].size, maintenance)
                 PROVE  Beyond(positions[i])
    OBVIOUS
  <2>2. positions[i] \in Position /\ MarketTyped
    BY <2>1, OpenIdsFinite DEF IInv
  <2>3. Liquidatable(positions[i])
    BY <2>1 DEF Liquidate
  <2>4. QED
    BY <2>1, <2>2, <2>3, LiquidatableIsBeyond
<1>4. QED
  BY <1>1, <1>2, <1>3, PTL DEF Spec, LiquidatedBeyondPrice

-----------------------------------------------------------------------------
(* Entry *)

(* One basis point of margin rounded away is less than the check of one.    *)
LEMMA WithinOnePoint ==
    ASSUME NEW c \in Nat, NEW size \in Nat \ {0}, NEW m \in Nat,
           NEW lost \in Nat, lost <= size, m * size - lost <= c * 10000
    PROVE  (c * 10000) \div size + 1 >= m
<1> DEFINE scaled == c * 10000
           due == m * size
<1>1. scaled \in Nat /\ due \in Nat
  OBVIOUS
<1>2. (m - 1) * size = due - size
  OBVIOUS
<1> HIDE DEF due
<1>3. (m - 1) * size <= scaled
  BY <1>1, <1>2 DEF due
<1> HIDE DEF scaled
<1>4. m - 1 <= scaled \div size /\ scaled \div size \in Nat
  BY <1>1, <1>3, AtMostQuotient, QuotientIs
<1>5. QED
  BY <1>4 DEF scaled

(* The least margin of an opening; room for the fee and the maintenance     *)
(* margin m under it; a box healthy at m.                                   *)
EntryMargin(size, x, rate) == (size * 100) \div x - (size * rate) \div 10000
RoomFor(x, rate, m)        == x * (rate + m) <= 100 * 10000
HealthyAt(c, size, m)      == (c * 10000) \div size + 1 >= m

LEMMA RemovedIsHealthy ==
    ASSUME NEW c \in Nat, NEW size \in Nat, size >= 10000, NEW m \in Nat,
           c >= (size * m) \div 10000
    PROVE  HealthyAt(c, size, m)
<1> DEFINE due == m * size
           kept == due \div 10000
<1>1. due \in Nat /\ size * m = due
  OBVIOUS
<1>2. kept <= c
  BY <1>1
<1> HIDE DEF due
<1>3. kept \in Nat /\ due < (kept + 1) * 10000
  BY <1>1, QuotientIs
<1> HIDE DEF kept
<1>4. due - 10000 <= c * 10000
  BY <1>1, <1>2, <1>3
<1>5. QED
  BY <1>4, WithinOnePoint DEF due, HealthyAt

LEMMA OpenedIsHealthy ==
    ASSUME NEW size \in Nat, size >= 10000, NEW m \in Nat, NEW x \in Nat \ {0},
           NEW rate \in Nat, RoomFor(x, rate, m),
           NEW c \in Nat, c >= EntryMargin(size, x, rate)
    PROVE  HealthyAt(c, size, m)
<1> DEFINE hundred == size * 100
           fees == size * rate
           due == m * size
           r == hundred \div x
           f == fees \div 10000
<1>1. hundred \in Nat /\ fees \in Nat /\ due \in Nat
  OBVIOUS
<1>2. c >= r - f
  BY DEF EntryMargin
<1>3. r \in Nat /\ hundred < (r + 1) * x
  <2> HIDE DEF hundred
  <2>1. QED
    BY <1>1, QuotientIs
<1>4. f \in Nat /\ f * 10000 <= fees
  <2> HIDE DEF fees
  <2>1. QED
    BY <1>1, QuotientIs
<1>5. (fees + due) * x <= 10000 * hundred
  <2> DEFINE k == x * (rate + m)
  <2>1. k \in Nat /\ k <= 100 * 10000
    BY DEF RoomFor
  <2>2. (fees + due) * x = k * size
    OBVIOUS
  <2> HIDE DEF k
  <2>3. k * size <= 100 * 10000 * size
    BY <2>1
  <2>4. (100 * 10000) * size = 10000 * hundred
    OBVIOUS
  <2>5. QED
    BY <2>2, <2>3, <2>4
<1> HIDE DEF hundred, fees, r, f
<1>6. fees + due < 10000 * (r + 1)
  <2>1. 10000 * hundred < 10000 * ((r + 1) * x)
    <3> DEFINE rx == (r + 1) * x
    <3>1. rx \in Nat /\ hundred < rx
      BY <1>3
    <3> HIDE DEF rx
    <3>2. 10000 * hundred < 10000 * rx
      BY <1>1, <3>1
    <3>3. QED
      BY <3>2 DEF rx
  <2>2. 10000 * ((r + 1) * x) = (10000 * (r + 1)) * x
    BY <1>3
  <2> DEFINE a == fees + due
             b == 10000 * (r + 1)
  <2>3. a \in Int /\ b \in Int /\ a * x \in Int /\ b * x \in Int
    BY <1>1, <1>3
  <2> HIDE DEF a, b
  <2>4. a * x < b * x
    BY <1>1, <1>5, <2>1, <2>2, <2>3 DEF a, b
  <2>5. a < b
    BY <2>3, <2>4, Cancel
  <2>6. QED
    BY <2>5 DEF a, b
<1> HIDE DEF due
<1>7. due - 10000 <= c * 10000
  BY <1>1, <1>2, <1>3, <1>4, <1>6
<1>8. QED
  BY <1>7, WithinOnePoint DEF due, HealthyAt

(* What the contract is configured with: min_position_size is 10 ALGO, and  *)
(* the highest leverage times opening fee and maintenance margin stays      *)
(* under the size (leverage in hundredths, rates in basis points).          *)
SizesAboveMinimum == \A s \in Sizes : s >= 10000
LeverageLeavesMargin ==
    \A x \in Leverages, m \in Maintenances : RoomFor(x, OpenFee, m)

(* The box i is as healthy as its writer has to leave it.                   *)
Healthy(i) == HealthyAt(positions'[i].collateral, positions'[i].size, maintenance')

Lowered(i) ==
    /\ positions'[i].isOpen
    /\ i \notin PositionIds \/ positions'[i].collateral < positions[i].collateral

LEMMA OpenedHealthy ==
    ASSUME IInv, SizesAboveMinimum, LeverageLeavesMargin, maintenance \in Maintenances,
           NEW t \in Traders, NEW l \in BOOLEAN, NEW s \in Sizes, NEW x \in Leverages,
           OpenPosition(t, l, s, x),
           NEW i \in DOMAIN positions', Lowered(i)
    PROVE  Healthy(i)
<1> DEFINE payment == group.amount
<1>1. PICK box \in Position :
         /\ positions' = Append(positions, box)
         /\ box.size = s /\ box.collateral = payment - BasisPoints(s, OpenFee)
         /\ box.collateral \in Nat
  BY OpenedBox
<1>2. positions \in Seq(Position)
  BY DEF IInv, MarketTyped
<1>3. /\ DOMAIN positions' = 1..(Len(positions) + 1) /\ PositionIds = 1..Len(positions)
      /\ positions'[Len(positions) + 1] = box
      /\ \A j \in PositionIds : positions'[j] = positions[j]
  BY <1>1, <1>2, AppendProperties DEF PositionIds
<1>4. \A j \in PositionIds : positions[j].collateral \in Nat
  BY AmountsInBoxes DEF IInv
<1>5. i \notin PositionIds
  BY <1>3, <1>4 DEF Lowered
<1>6. positions'[i] = box
  <2>1. Len(positions) \in Nat
    BY <1>2
  <2>2. i = Len(positions) + 1
    BY <1>3, <1>5, <2>1
  <2>3. QED
    BY <1>3, <2>2
<1>7. payment >= (s * 100) \div x /\ maintenance' = maintenance /\ payment \in Nat
  BY DEF OpenPosition, IInv, GroupTyped
<1>8. s \in Nat /\ s >= 10000 /\ x \in Nat \ {0} /\ OpenFee \in Nat
  BY TermsAreNat, FeesAreRates DEF SizesAboveMinimum, Rates
<1>9. maintenance \in Nat /\ RoomFor(x, OpenFee, maintenance)
  BY MaintenanceIsNat DEF LeverageLeavesMargin
<1>10. box.collateral >= EntryMargin(s, x, OpenFee)
  <2> DEFINE fee == (s * OpenFee) \div 10000
             required == (s * 100) \div x
  <2>1. box.collateral = payment - fee /\ fee \in Nat /\ required \in Nat
    BY <1>1, <1>8, ScaledIsNat DEF BasisPoints
  <2>2. payment >= required /\ EntryMargin(s, x, OpenFee) = required - fee
    BY <1>7 DEF EntryMargin
  <2> HIDE DEF payment, fee, required
  <2>3. QED
    BY <1>7, <2>1, <2>2
<1>11. HealthyAt(box.collateral, s, maintenance)
  BY <1>1, <1>8, <1>9, <1>10, OpenedIsHealthy
<1>12. QED
  BY <1>1, <1>6, <1>7, <1>11 DEF Healthy

LEMMA MovedHealthy ==
    ASSUME IInv, SizesAboveMinimum, NEW j \in PositionIds, NEW amount \in MarginMoves,
           AddMargin(j, amount) \/ RemoveMargin(j, amount),
           NEW i \in DOMAIN positions', Lowered(i)
    PROVE  Healthy(i)
<1>1. PICK c \in Nat :
         /\ positions' = [positions EXCEPT ![j] = WithCollateral(positions[j], c)]
         /\ \/ c = positions[j].collateral + amount /\ AddMargin(j, amount)
            \/ c >= BasisPoints(positions[j].size, maintenance) /\ RemoveMargin(j, amount)
  BY MovedBox
<1>2. /\ \A k \in PositionIds : positions[k] \in Position /\ positions[k].collateral \in Nat
      /\ amount \in Nat /\ maintenance \in Nat
  BY TermsAreNat, OpenIdsFinite, AmountsInBoxes DEF IInv, MarketTyped
<1>3. i \in PositionIds /\ (i # j => positions'[i] = positions[i])
  BY <1>1 DEF PositionIds
<1>4. i = j
  BY <1>2, <1>3 DEF Lowered
<1>5. positions'[i].collateral = c /\ positions'[i].size = positions[i].size
  BY <1>1, <1>2, <1>3, <1>4 DEF WithCollateral, Position
<1>6. ~(c = positions[j].collateral + amount)
  BY <1>2, <1>3, <1>4, <1>5 DEF Lowered
<1>7. c >= BasisPoints(positions[i].size, maintenance) /\ maintenance' = maintenance
  BY <1>1, <1>4, <1>6 DEF RemoveMargin
<1>8. positions[i].size \in Nat /\ positions[i].size >= 10000
  <2>1. positions[i].size \in Sizes
    BY <1>2, <1>3 DEF Position
  <2>2. positions[i].size \in Nat
    BY <2>1, TermsAreNat
  <2>3. positions[i].size >= 10000
    BY <2>1 DEF SizesAboveMinimum
  <2>4. QED
    BY <2>2, <2>3
<1>9. HealthyAt(c, positions[i].size, maintenance)
  BY <1>2, <1>7, <1>8, RemovedIsHealthy DEF BasisPoints
<1>10. QED
  BY <1>5, <1>7, <1>9 DEF Healthy

LEMMA HealthyStep ==
    ASSUME IInv, SizesAboveMinimum, LeverageLeavesMargin, maintenance \in Maintenances,
           Next, NEW i \in DOMAIN positions', Lowered(i)
    PROVE  Healthy(i)
<1>1. \A k \in PositionIds : positions[k].collateral \in Nat /\ positions[k] \in Position
  BY OpenIdsFinite, AmountsInBoxes DEF IInv
<1>2. ASSUME UNCHANGED positions
      PROVE  FALSE
  BY <1>1, <1>2 DEF Lowered, PositionIds
<1>3. ASSUME NEW j \in PositionIds, CloseBox(j)
      PROVE  FALSE
  <2>1. positions' = [positions EXCEPT ![j].isOpen = FALSE]
    BY <1>3 DEF CloseBox
  <2>2. i \in PositionIds /\ (i # j => positions'[i] = positions[i])
    BY <2>1 DEF PositionIds
  <2>3. i = j => ~positions'[i].isOpen
    BY <1>1, <2>1, <2>2 DEF Position, PositionIds
  <2>4. QED
    BY <1>1, <2>2, <2>3 DEF Lowered
<1>4. ASSUME NEW t \in Traders, NEW l \in BOOLEAN, NEW s \in Sizes, NEW x \in Leverages,
             OpenPosition(t, l, s, x)
      PROVE  Healthy(i)
  BY <1>4, OpenedHealthy
<1>5. ASSUME NEW j \in PositionIds, NEW a \in MarginMoves, AddMargin(j, a) \/ RemoveMargin(j, a)
      PROVE  Healthy(i)
  BY <1>5, MovedHealthy
<1>6. QED
  BY <1>2, <1>3, <1>4, <1>5
  DEF Next, PayMarket, ClosePosition, Liquidate, SetMaintenance, PauseMarket, UpdatePrice, marketVars

LEMMA MaintenanceAllowed ==
    ASSUME maintenance \in Maintenances, [Next]_vars
    PROVE  maintenance' \in Maintenances
<1>1. UNCHANGED maintenance => maintenance' \in Maintenances
  OBVIOUS
<1>2. ASSUME NEW i \in PositionIds, ClosePosition(i) \/ Liquidate(i)
      PROVE  UNCHANGED maintenance
  BY <1>2 DEF ClosePosition, Liquidate
<1>3. ASSUME NEW i \in PositionIds, NEW a \in MarginMoves, AddMargin(i, a) \/ RemoveMargin(i, a)
      PROVE  UNCHANGED maintenance
  BY <1>3 DEF AddMargin, RemoveMargin
<1>4. ASSUME NEW t \in Traders, NEW l \in BOOLEAN, NEW s \in Sizes, NEW x \in Leverages,
             OpenPosition(t, l, s, x)
      PROVE  UNCHANGED maintenance
  BY <1>4 DEF OpenPosition
<1>5. ASSUME NEW m \in Maintenances, SetMaintenance(m)
      PROVE  maintenance' \in Maintenances
  BY <1>5 DEF SetMaintenance
<1>6. QED
  BY <1>1, <1>2, <1>3, <1>4, <1>5 DEF Next, vars, marketVars, PayMarket, PauseMarket, UpdatePrice

(* At every size, leverage and fee the contract is configured with, neither *)
(* opening nor taking margin out leaves a position under the maintenance    *)
(* margin by more than the rounded basis point.                             *)
THEOREM EntryIsHealthy ==
    SizesAboveMinimum /\ LeverageLeavesMargin => (Spec => HealthyAtEntry)
<1> DEFINE Configured == SizesAboveMinimum /\ LeverageLeavesMargin
           Inv == Configured /\ IInv /\ maintenance \in Maintenances
<1>1. Configured /\ Init => Inv
  BY InitHolds DEF Init, MarketInit
<1>2. Inv /\ [Next]_vars => Inv'
  BY EveryStep, MaintenanceAllowed DEF StepKept, SizesAboveMinimum, LeverageLeavesMargin, RoomFor
<1>3. Inv /\ [Next]_vars
        => [\A i \in DOMAIN positions' :
               /\ positions'[i].isOpen
               /\ i \notin PositionIds \/ positions'[i].collateral < positions[i].collateral
               => (positions'[i].collateral * 10000) \div positions'[i].size + 1
                      >= maintenance']_vars
  BY HealthyStep DEF Healthy, HealthyAt, Lowered
<1> HIDE DEF Inv
<1>4. QED
  BY <1>1, <1>2, <1>3, PTL DEF Spec, HealthyAtEntry
=============================================================================
