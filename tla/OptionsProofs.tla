---------------------------- MODULE OptionsProofs ----------------------------
(* Proofs about the options market, its pool and the oracle: the pool's     *)
(* account covers its books, and only a settlement lowers the value of a    *)
(* share.                                                                   *)
EXTENDS OptionsMarket, SumTheorems, SequenceTheorems

-----------------------------------------------------------------------------
(* Arithmetic *)

LEMMA Quotient ==
    ASSUME NEW x \in Nat, NEW y \in Nat \ {0}
    PROVE  x \div y \in Nat /\ (x \div y) * y <= x
OBVIOUS

LEMMA ScaledIsNat ==
    ASSUME NEW a \in Nat, NEW b \in Nat, NEW c \in Nat \ {0}
    PROVE  (a * b) \div c \in Nat /\ ((a * b) \div c) * c <= a * b
<1> DEFINE product == a * b
<1>1. product \in Nat
  OBVIOUS
<1> HIDE DEF product
<1>2. product \div c \in Nat /\ (product \div c) * c <= product
  BY <1>1, Quotient
<1>3. QED
  BY <1>2 DEF product

(* A rate in basis points.  The provers take the interval as one set.       *)
Rates == 0..10000

LEMMA FeesAreRates ==
    /\ DepositFee \in Rates /\ WithdrawFee \in Rates /\ TradingFee \in Rates
BY PoolAssumption, MarketAssumption DEF Rates

LEMMA BasisPointsOf ==
    ASSUME NEW x \in Nat, NEW rate \in Rates
    PROVE  BasisPoints(x, rate) \in Nat /\ BasisPoints(x, rate) <= x
<1> DEFINE part == (x * rate) \div 10000
<1>1. part \in Nat /\ part * 10000 <= x * rate
  BY ScaledIsNat DEF Rates
<1>2. x * rate <= x * 10000
  BY DEF Rates
<1>3. part * 10000 <= x * 10000
  <2> DEFINE product == x * rate
  <2>1. product \in Int /\ part * 10000 <= product /\ product <= x * 10000
    BY <1>1, <1>2 DEF Rates
  <2> HIDE DEF part, product
  <2>2. QED
    BY <1>1, <2>1
<1>4. part <= x
  <2> HIDE DEF part
  <2>1. QED
    BY <1>1, <1>3
<1>5. QED
  BY <1>1, <1>4 DEF BasisPoints

LEMMA LargerOfTwo ==
    ASSUME NEW x \in Nat, NEW y \in Nat
    PROVE  Max({x, y}) \in Nat
<1>1. \E m \in {x, y} : \A n \in {x, y} : m >= n
  OBVIOUS
<1>2. Max({x, y}) \in {x, y}
  BY <1>1 DEF Max
<1>3. QED
  BY <1>2

(* Shares that cost no less than they are worth do not dilute the others,   *)
(* and shares that bring no more than they are worth leave them no less.    *)
LEMMA BoughtDear ==
    ASSUME NEW l \in Nat, NEW s \in Nat, NEW amount \in Nat, NEW new \in Nat,
           new * l <= amount * s
    PROVE  (l + amount) * s >= l * (s + new)
<1>1. (l + amount) * s = l * s + amount * s /\ l * (s + new) = l * s + new * l
  OBVIOUS
<1>2. l * s \in Nat /\ amount * s \in Nat /\ new * l \in Nat
  OBVIOUS
<1>3. QED
  BY <1>1, <1>2

LEMMA SoldCheap ==
    ASSUME NEW l \in Nat, NEW s \in Nat, NEW amount \in Nat, NEW burnt \in Nat,
           amount * s <= burnt * l
    PROVE  (l - amount) * s >= l * (s - burnt)
<1>1. (l - amount) * s = l * s - amount * s /\ l * (s - burnt) = l * s - burnt * l
  OBVIOUS
<1>2. l * s \in Nat /\ amount * s \in Nat /\ burnt * l \in Nat
  OBVIOUS
<1>3. QED
  BY <1>1, <1>2

-----------------------------------------------------------------------------
(* The group: transaction 0 carries ALGO or LP tokens.                      *)

GroupTyped ==
    group \in [asset: {"none", "algo", "lp"}, to: LPs \cup {"none", "pool", "market"},
               amount: Nat, unbooked: Nat, calls: Nat]

LEMMA BegunGroup ==
    ASSUME NEW asset \in {"algo", "lp"}, NEW to \in LPs \cup {"pool", "market"},
           NEW amount \in Nat, Begin(asset, to, amount)
    PROVE  GroupTyped'
BY GroupAssumption DEF Begin, GroupTyped

(* A call moves what it books from the unbooked part of the transfer to     *)
(* what was booked again.                                                   *)
LEMMA BookedGroup ==
    ASSUME GroupTyped, NEW x \in Nat, Book(x)
    PROVE  /\ GroupTyped'
           /\ group'.asset = group.asset /\ group'.to = group.to
           /\ BookedAgain(x) \in Nat
           /\ BookedAgain(x) - group'.unbooked = x - group.unbooked
<1>1. group.amount \in Nat /\ group.unbooked \in Nat /\ group.calls \in Nat
  BY DEF GroupTyped
<1>2. /\ group.calls > 0 /\ x <= group.amount
      /\ group' = [group EXCEPT !.calls = group.calls - 1,
                                !.unbooked = Floored(group.unbooked - x)]
  BY <1>1 DEF Book
<1>3. Floored(group.unbooked - x) \in Nat /\ group.calls - 1 \in Nat
  BY <1>1, <1>2 DEF Floored
<1>4. /\ GroupTyped' /\ group'.unbooked = Floored(group.unbooked - x)
      /\ group'.asset = group.asset /\ group'.to = group.to
  BY <1>2, <1>3 DEF GroupTyped
<1>5. BookedAgain(x) = Floored(x - group.unbooked)
  BY <1>2 DEF BookedAgain
<1>6. QED
  BY <1>1, <1>4, <1>5 DEF Floored

(* What of a transfer to the pool is in no book yet: of a payment, and of   *)
(* LP tokens.                                                               *)
Spare(g)   == IF g.asset = "algo" /\ g.to = "pool" THEN g.unbooked ELSE 0
SpareLp(g) == IF g.asset = "lp" /\ g.to = "pool" THEN g.unbooked ELSE 0

LEMMA SpareIsNat ==
    ASSUME GroupTyped
    PROVE  Spare(group) \in Nat /\ SpareLp(group) \in Nat
BY DEF GroupTyped, Spare, SpareLp

LEMMA SpareBegins ==
    ASSUME NEW to \in LPs \cup {"pool", "market"}, NEW asset \in {"algo", "lp"},
           NEW amount \in Nat, Begin(asset, to, amount)
    PROVE  /\ Spare(group) = 0
           /\ Spare(group') = IF asset = "algo" /\ to = "pool" THEN amount ELSE 0
           /\ SpareLp(group) = 0
           /\ SpareLp(group') = IF asset = "lp" /\ to = "pool" THEN amount ELSE 0
BY DEF Begin, NoGroup, Spare, SpareLp

LEMMA SpareBooked ==
    ASSUME GroupTyped, NEW x \in Nat, Book(x)
    PROVE  /\ Spare(group') \in Nat /\ SpareLp(group') \in Nat /\ BookedAgain(x) \in Nat
           /\ IF Carries("algo", "pool") THEN BookedAgain(x) - Spare(group') = x - Spare(group)
              ELSE Spare(group') = 0 /\ Spare(group) = 0
           /\ IF Carries("lp", "pool") THEN BookedAgain(x) - SpareLp(group') = x - SpareLp(group)
              ELSE SpareLp(group') = 0 /\ SpareLp(group) = 0
<1>1. /\ GroupTyped' /\ group'.asset = group.asset /\ group'.to = group.to
      /\ BookedAgain(x) \in Nat /\ group'.unbooked \in Nat
      /\ BookedAgain(x) - group'.unbooked = x - group.unbooked
  BY BookedGroup DEF GroupTyped
<1> HIDE DEF BookedAgain
<1>2. CASE Carries("algo", "pool")
  BY <1>1, <1>2 DEF Carries, Spare, SpareLp
<1>3. CASE Carries("lp", "pool")
  BY <1>1, <1>3 DEF Carries, Spare, SpareLp
<1>4. CASE ~Carries("algo", "pool") /\ ~Carries("lp", "pool")
  BY <1>1, <1>4 DEF Carries, Spare, SpareLp
<1>5. QED
  BY <1>2, <1>3, <1>4

-----------------------------------------------------------------------------
(* The pool *)

PoolTyped ==
    /\ liquidity \in Nat /\ shares \in Nat /\ poolTxns \in Nat /\ overbooked \in Nat
    /\ poolBalance \in Int

(* What backs the books: the unbooked part of a payment is in the account   *)
(* and in no book yet.                                                      *)
Backing == poolBalance + poolTxns * TxnFee + (overbooked - Spare(group))

PoolInv == PoolTyped /\ Backing >= PoolFunds + liquidity

(* The value of a share does not fall. *)
ValueKept == shares > 0 => liquidity' * shares >= liquidity * shares'

LEMMA CoveredIsEnough ==
    ASSUME GroupTyped, PoolInv
    PROVE  PoolCoversBooks
<1> DEFINE paid == poolTxns * TxnFee
<1>1. /\ TxnFee \in Nat /\ poolTxns \in Nat /\ poolBalance \in Int /\ overbooked \in Nat
      /\ liquidity \in Nat /\ PoolFunds \in Nat /\ Spare(group) \in Nat
  BY PoolAssumption, SpareIsNat DEF PoolInv, PoolTyped
<1>2. paid \in Int
  BY <1>1
<1>3. poolBalance + paid + (overbooked - Spare(group)) >= PoolFunds + liquidity
  BY DEF PoolInv, Backing
<1> HIDE DEF paid
<1>4. poolBalance + paid + overbooked >= PoolFunds + liquidity
  BY <1>1, <1>2, <1>3
<1>5. QED
  BY <1>4 DEF paid, PoolCoversBooks

LEMMA BackingGains ==
    ASSUME NEW b \in Int, NEW db \in Int, NEW paid \in Int, NEW more \in Int,
           NEW o \in Int, NEW o2 \in Int, NEW dg \in Int, dg <= o2 - o
    PROVE  /\ b + paid + o \in Int
           /\ ((b + db) - more) + (paid + more) + o2 \in Int
           /\ ((b + db) - more) + (paid + more) + o2 >= (b + paid + o) + (db + dg)
OBVIOUS

(* The books stay covered when they gain no more than the account, its      *)
(* known fees and the payment of the group together.                        *)
LEMMA StaysCovered ==
    ASSUME GroupTyped, PoolInv,
           NEW n \in 0..2, poolTxns' = poolTxns + n,
           NEW db \in Int, poolBalance' = (poolBalance + db) - n * TxnFee,
           overbooked' \in Nat, Spare(group') \in Nat,
           NEW dg \in Int, dg <= (overbooked' - Spare(group')) - (overbooked - Spare(group)),
           liquidity' \in Nat, shares' \in Nat,
           NEW dl \in Int, liquidity' = liquidity + dl, dl <= db + dg
    PROVE  PoolInv'
<1> DEFINE paid == poolTxns * TxnFee
           more == n * TxnFee
           o == overbooked - Spare(group)
           o2 == overbooked' - Spare(group')
           held == poolBalance + paid + o
           held2 == ((poolBalance + db) - more) + (paid + more) + o2
<1>1. /\ TxnFee \in Nat /\ poolTxns \in Nat /\ poolBalance \in Int /\ n \in Nat
      /\ liquidity \in Nat /\ PoolFunds \in Nat
      /\ overbooked \in Nat /\ Spare(group) \in Nat
  BY PoolAssumption, SpareIsNat DEF PoolInv, PoolTyped
<1>2. (poolTxns + n) * TxnFee = paid + more /\ paid \in Nat /\ more \in Nat
  <2>1. CASE n = 0
    BY <1>1, <2>1
  <2>2. CASE n = 1
    BY <1>1, <2>2
  <2>3. CASE n = 2
    BY <1>1, <2>3
  <2>4. QED
    BY <2>1, <2>2, <2>3
<1>3. o \in Int /\ o2 \in Int /\ dg <= o2 - o
  BY <1>1
<1>4. Backing = held /\ Backing' = held2 /\ held >= PoolFunds + liquidity
  BY <1>2 DEF Backing, PoolInv
<1>5. poolBalance' \in Int /\ poolTxns' \in Nat
  BY <1>1, <1>2
<1> HIDE DEF paid, more, o, o2
<1>6. held \in Int /\ held2 \in Int /\ held2 >= held + (db + dg)
  BY <1>1, <1>2, <1>3, BackingGains
<1> HIDE DEF held, held2
<1>7. held2 >= PoolFunds + liquidity'
  BY <1>1, <1>4, <1>6
<1>8. QED
  BY <1>4, <1>5, <1>7 DEF PoolInv, PoolTyped

(* The account sends "amount" behind a call that books dg of the payment.   *)
LEMMA CoveredSend ==
    ASSUME GroupTyped, PoolInv, NEW amount \in Int, NEW n \in {1, 2}, PoolSends(amount, n),
           overbooked' \in Nat, Spare(group') \in Nat,
           NEW dg \in Int, dg <= (overbooked' - Spare(group')) - (overbooked - Spare(group)),
           liquidity' \in Nat, shares' \in Nat,
           NEW dl \in Int, liquidity' = liquidity + dl, dl <= dg - amount
    PROVE  PoolInv'
<1>1. poolTxns' = poolTxns + n /\ poolBalance' = poolBalance - amount - n * TxnFee
  BY DEF PoolSends
<1>2. poolBalance - amount = poolBalance + (-amount) /\ -amount \in Int /\ n \in 0..2
  BY DEF PoolInv, PoolTyped
<1>3. poolBalance' = (poolBalance + (-amount)) - n * TxnFee
  BY <1>1, <1>2, Zenon
<1>4. dl <= (-amount) + dg
  OBVIOUS
<1>5. QED
  BY <1>1, <1>2, <1>3, <1>4, StaysCovered

(* A step that books nothing of a payment to the pool.                      *)
Untouched == overbooked' = overbooked /\ Spare(group') = Spare(group)

LEMMA UntouchedGain ==
    ASSUME GroupTyped, PoolInv, Untouched
    PROVE  /\ overbooked' \in Nat /\ Spare(group') \in Nat
           /\ 0 <= (overbooked' - Spare(group')) - (overbooked - Spare(group))
<1>1. overbooked \in Nat /\ Spare(group) \in Nat
  BY SpareIsNat DEF PoolInv, PoolTyped
<1>2. QED
  BY <1>1 DEF Untouched

LEMMA GroupKept ==
    ASSUME UNCHANGED <<group, overbooked>>
    PROVE  Untouched
BY DEF Untouched, Spare

LEMMA DepositStep ==
    ASSUME GroupTyped, PoolInv, NEW a \in LPs, Deposit(a)
    PROVE  PoolInv' /\ ValueKept
<1> DEFINE payment == group.amount
           fee == BasisPoints(payment, DepositFee)
           net == payment - fee
           new == SharesFor(net)
<1>1. payment \in Nat /\ fee \in Nat /\ fee <= payment
  <2>1. payment \in Nat /\ DepositFee \in Rates
    BY FeesAreRates DEF GroupTyped
  <2>2. QED
    BY <2>1, BasisPointsOf
<1>2. net \in Nat
  <2> HIDE DEF fee
  <2>1. QED
    BY <1>1
<1>3. liquidity \in Nat /\ shares \in Nat /\ overbooked \in Nat
  BY DEF PoolInv, PoolTyped
<1>4. new \in Nat /\ (shares > 0 => new * liquidity <= net * shares)
  <2> HIDE DEF net
  <2>1. CASE shares = 0 \/ liquidity = 0
    <3>1. new = net
      BY <2>1 DEF SharesFor
    <3>2. shares > 0 => liquidity = 0
      BY <1>3, <2>1
    <3>3. net * shares \in Nat /\ net * 0 = 0
      BY <1>2, <1>3
    <3>4. QED
      BY <1>2, <1>3, <3>1, <3>2, <3>3
  <2>2. CASE ~(shares = 0 \/ liquidity = 0)
    BY <1>2, <1>3, <2>2, ScaledIsNat DEF SharesFor
  <2>3. QED
    BY <2>1, <2>2
<1>5. /\ liquidity' = liquidity + payment - fee
      /\ shares' = shares + new
      /\ PoolSends(fee, IF fee > 0 THEN 2 ELSE 1)
      /\ Carries("algo", "pool") /\ Book(payment)
      /\ overbooked' = overbooked + BookedAgain(payment)
  BY DEF Deposit
<1> HIDE DEF payment
<1>6. Spare(group') \in Nat /\ BookedAgain(payment) \in Nat
      /\ BookedAgain(payment) - Spare(group') = payment - Spare(group)
  BY <1>1, <1>5, SpareBooked
<1> HIDE DEF fee
<1>7. liquidity' = liquidity + net
  BY <1>1, <1>3, <1>5
<1>8. PoolInv'
  <2>1. /\ overbooked' \in Nat /\ payment \in Int
        /\ payment <= (overbooked' - Spare(group')) - (overbooked - Spare(group))
    <3>1. Spare(group) \in Nat
      BY SpareIsNat
    <3>2. QED
      BY <1>1, <1>3, <1>5, <1>6, <3>1
  <2>2. /\ net \in Int /\ net <= payment - fee /\ fee \in Int
        /\ (IF fee > 0 THEN 2 ELSE 1) \in {1, 2}
    BY <1>1
  <2> HIDE DEF net, new
  <2>3. liquidity' \in Nat /\ shares' \in Nat
    BY <1>2, <1>3, <1>4, <1>5, <1>7
  <2>4. QED
    BY <1>5, <1>6, <1>7, <2>1, <2>2, <2>3, CoveredSend
<1>9. ValueKept
  <2> HIDE DEF net, new
  <2>1. QED
    BY <1>2, <1>3, <1>4, <1>5, <1>7, BoughtDear DEF ValueKept
<1>10. QED
  BY <1>8, <1>9

LEMMA WithdrawStep ==
    ASSUME GroupTyped, PoolInv, NEW a \in LPs, NEW s \in Burns, Withdraw(a, s)
    PROVE  PoolInv' /\ ValueKept
<1> DEFINE amount == AlgoFor(s)
           fee == BasisPoints(amount, WithdrawFee)
           net == amount - fee
<1>1. s \in Nat /\ liquidity \in Nat /\ shares \in Nat
  BY PoolAssumption DEF PoolInv, PoolTyped
<1>2. amount \in Nat /\ (shares > 0 => amount * shares <= s * liquidity)
  BY <1>1, ScaledIsNat DEF AlgoFor
<1>3. fee \in Nat /\ fee <= amount
  <2> HIDE DEF amount
  <2>1. WithdrawFee \in Rates
    BY FeesAreRates
  <2>2. QED
    BY <1>2, <2>1, BasisPointsOf
<1>4. /\ amount <= liquidity /\ s <= shares
      /\ liquidity' = liquidity - amount /\ shares' = shares - s
      /\ PoolSends(net, 1)
      /\ Carries("lp", "pool") /\ Book(s) /\ overbooked' = overbooked
  BY DEF Withdraw
<1>5. PoolInv'
  <2>1. Untouched
    <3>1. ~Carries("algo", "pool")
      BY <1>4 DEF Carries
    <3>2. QED
      BY <1>1, <1>4, <3>1, SpareBooked DEF Untouched
  <2> HIDE DEF amount, fee
  <2>2. /\ net \in Int /\ liquidity' \in Nat /\ shares' \in Nat
        /\ -amount \in Int /\ liquidity' = liquidity + (-amount) /\ -amount <= 0 - net
    BY <1>1, <1>2, <1>3, <1>4
  <2> HIDE DEF net
  <2>3. QED
    BY <1>4, <2>1, <2>2, UntouchedGain, CoveredSend
<1>6. ValueKept
  <2> HIDE DEF amount
  <2>1. QED
    BY <1>1, <1>2, <1>4, SoldCheap DEF ValueKept
<1>7. QED
  BY <1>5, <1>6

(* The group begins or ends, and the pool does nothing: what becomes spare  *)
(* has come into the account, and what stays spare at the end is given away.*)
LEMMA PoolKept ==
    ASSUME GroupTyped, PoolInv, UNCHANGED <<liquidity, shares, poolTxns, overbooked>>,
           Spare(group') \in Nat,
           NEW paid \in Nat, poolBalance' = poolBalance + paid,
           Spare(group') <= Spare(group) + paid
    PROVE  PoolInv' /\ ValueKept
<1>1. /\ liquidity \in Nat /\ shares \in Nat /\ poolTxns \in Nat /\ overbooked \in Nat
      /\ poolBalance \in Int /\ TxnFee \in Nat /\ Spare(group) \in Nat
  BY PoolAssumption, SpareIsNat DEF PoolInv, PoolTyped
<1>2. /\ poolTxns' = poolTxns + 0 /\ poolBalance' = (poolBalance + paid) - 0 * TxnFee
      /\ liquidity' = liquidity + 0 /\ 0 \in 0..2
  BY <1>1
<1>3. /\ overbooked' \in Nat /\ liquidity' \in Nat /\ shares' \in Nat
      /\ -paid \in Int /\ 0 <= paid + (-paid) /\ paid \in Int
      /\ -paid <= (overbooked' - Spare(group')) - (overbooked - Spare(group))
  BY <1>1
<1>4. PoolInv'
  BY <1>2, <1>3, StaysCovered
<1>5. liquidity * shares \in Nat
  BY <1>1
<1>6. QED
  BY <1>4, <1>5 DEF ValueKept

LEMMA NothingMoves ==
    ASSUME GroupTyped, PoolInv, UNCHANGED <<poolVars, group>>
    PROVE  PoolInv' /\ ValueKept
<1>1. /\ Spare(group) \in Nat /\ Spare(group') = Spare(group) /\ poolBalance \in Int
      /\ UNCHANGED <<liquidity, shares, poolTxns, overbooked, poolBalance>>
  BY SpareIsNat DEF Spare, poolVars, PoolInv, PoolTyped
<1>2. /\ Spare(group') \in Nat /\ Spare(group') <= Spare(group) + 0
      /\ poolBalance' = poolBalance + 0
  BY <1>1
<1>3. QED
  BY <1>1, <1>2, PoolKept

-----------------------------------------------------------------------------
(* The oracle: three sources, so a smallest and a largest price.            *)

OracleTyped ==
    /\ now \in Int /\ currentPrice \in Nat /\ minSources \in Nat \ {0}
    /\ sourcePrice \in [Sources -> Nat] /\ sourceTime \in [Sources -> Int]

LEMMA Extremes ==
    ASSUME NEW x \in Nat, NEW y \in Nat, NEW z \in Nat,
           NEW S \in SUBSET {x, y, z}, S # {}
    PROVE  Min(S) \in S /\ Max(S) \in S /\ \A n \in S : Min(S) <= n
<1> DEFINE Below(m) == (x \in S => m <= x) /\ (y \in S => m <= y) /\ (z \in S => m <= z)
           Above(m) == (x \in S => m >= x) /\ (y \in S => m >= y) /\ (z \in S => m >= z)
<1>1. x \in S \/ y \in S \/ z \in S
  OBVIOUS
<1>2. (x \in S /\ Below(x)) \/ (y \in S /\ Below(y)) \/ (z \in S /\ Below(z))
  BY <1>1
<1>3. (x \in S /\ Above(x)) \/ (y \in S /\ Above(y)) \/ (z \in S /\ Above(z))
  BY <1>1
<1>4. \A n \in S : n = x \/ n = y \/ n = z
  OBVIOUS
<1>5. \E m \in S : \A n \in S : m <= n
  BY <1>2, <1>4
<1>6. \E m \in S : \A n \in S : m >= n
  BY <1>3, <1>4
<1>7. QED
  BY <1>5, <1>6 DEF Min, Max

LEMMA ThreeSources == \E a, b, c : Sources = {a, b, c}
<1>1. PICK f : f \in Bijection(1..3, Sources)
  BY OracleAssumption, FS_CardinalityType DEF ExistsBijection
<1>2. Sources = {f[1], f[2], f[3]}
  BY <1>1 DEF Bijection, Injection, Surjection
<1>3. QED
  BY <1>2

LEMMA PricesHaveExtremes ==
    ASSUME NEW price \in [Sources -> Nat], NEW given \in SUBSET Sources, given # {}
    PROVE  LET prices == {price[s] : s \in given}
           IN  /\ Min(prices) \in Nat /\ Max(prices) \in Nat
               /\ \E top \in given : \A s \in given : price[s] <= price[top]
<1> DEFINE prices == {price[s] : s \in given}
<1>1. PICK a, b, c : Sources = {a, b, c}
  BY ThreeSources
<1>2. /\ price[a] \in Nat /\ price[b] \in Nat /\ price[c] \in Nat
      /\ prices \in SUBSET {price[a], price[b], price[c]} /\ prices # {}
      /\ prices \subseteq Nat
  BY <1>1
<1>3. Min(prices) \in prices /\ Max(prices) \in prices
  <2> HIDE DEF prices
  <2>1. QED
    BY <1>2, Extremes
<1>4. \E top \in given : \A s \in given : price[s] <= price[top]
  BY <1>1
<1>5. QED
  BY <1>2, <1>3, <1>4

(* The middle one of at least two prices, counted from below, is a price.   *)
LEMMA UpperMiddle ==
    ASSUME NEW price \in [Sources -> Nat], NEW given \in SUBSET Sources,
           Cardinality(given) >= 2
    PROVE  Min({price[s] : s \in {t \in given :
                  Cardinality({u \in given : price[u] <= price[t]}) >= 2}}) \in Nat
<1> DEFINE Rank(t) == Cardinality({u \in given : price[u] <= price[t]})
           upper == {t \in given : Rank(t) >= 2}
<1>1. given # {}
  BY FS_EmptySet
<1>2. PICK top \in given : \A s \in given : price[s] <= price[top]
  BY <1>1, PricesHaveExtremes
<1>3. {u \in given : price[u] <= price[top]} = given
  BY <1>2
<1>4. top \in upper
  BY <1>3
<1>5. upper \in SUBSET Sources /\ upper # {}
  BY <1>4
<1>6. Min({price[s] : s \in upper}) \in Nat
  <2> HIDE DEF upper
  <2>1. QED
    BY <1>5, PricesHaveExtremes
<1>7. QED
  BY <1>6

LEMMA MedianIsPrice ==
    ASSUME NEW price \in [Sources -> Nat], NEW given \in SUBSET Sources,
           Cardinality(given) >= 1
    PROVE  MedianOf(given, price) \in Nat
<1>1. CASE Cardinality(given) = 3
  <2>1. MedianOf(given, price) = Min({price[s] : s \in {t \in given :
             Cardinality({u \in given : price[u] <= price[t]}) >= 2}})
    BY <1>1 DEF MedianOf
  <2>2. Cardinality(given) >= 2
    BY <1>1
  <2>3. QED
    BY <2>1, <2>2, UpperMiddle
<1>2. CASE Cardinality(given) # 3
  <2> DEFINE prices == {price[s] : s \in given}
  <2>1. given # {}
    BY FS_EmptySet
  <2>2. Min(prices) \in Nat /\ Max(prices) \in Nat
    BY <2>1, PricesHaveExtremes
  <2>3. MedianOf(given, price) = (Min(prices) + Max(prices)) \div 2
    BY <1>2 DEF MedianOf
  <2> HIDE DEF prices
  <2>4. QED
    BY <2>2, <2>3
<1>3. QED
  BY <1>1, <1>2

LEMMA ReportsAreNat ==
    ASSUME NEW report \in Reports
    PROVE  report \in [Sources -> Nat]
<1>1. report \in [Sources -> Quotes \cup {0}]
  BY OracleAssumption
<1>2. Quotes \cup {0} \subseteq Nat
  BY OracleAssumption
<1>3. QED
  BY <1>1, <1>2

LEMMA OracleStep ==
    ASSUME OracleTyped, OracleNext
    PROVE  OracleTyped'
<1>1. ASSUME NEW report \in Reports, UpdatePrice(report)
      PROVE  OracleTyped'
  <2> DEFINE price == [s \in Sources |-> IF report[s] > 0 THEN report[s] ELSE sourcePrice[s]]
             time == [s \in Sources |-> IF report[s] > 0 THEN now ELSE sourceTime[s]]
             valid == ValidSources(price, time)
  <2>1. price \in [Sources -> Nat]
    BY ReportsAreNat DEF OracleTyped
  <2>2. valid \in SUBSET Sources
    BY DEF ValidSources
  <2>3. /\ Cardinality(valid) >= minSources /\ currentPrice' = MedianOf(valid, price)
        /\ sourcePrice' = price /\ now' = now /\ minSources' = minSources
    BY <1>1 DEF UpdatePrice
  <2>4. Cardinality(valid) >= 1
    <3>1. Cardinality(valid) \in Nat
      BY <2>2, OracleAssumption, FS_Subset, FS_CardinalityType
    <3> HIDE DEF valid
    <3>2. QED
      BY <2>3, <3>1 DEF OracleTyped
  <2> HIDE DEF price, valid
  <2>5. currentPrice' \in Nat
    BY <2>1, <2>2, <2>3, <2>4, MedianIsPrice
  <2>6. sourceTime' \in [Sources -> Int]
    BY <1>1 DEF UpdatePrice, OracleTyped
  <2>7. QED
    BY <2>1, <2>3, <2>5, <2>6 DEF OracleTyped
<1>2. ASSUME NEW report \in Reports, KeeperRound(report)
      PROVE  OracleTyped'
  <2> DEFINE valid == {s \in Sources : report[s] > 0}
  <2>1. report \in [Sources -> Nat]
    BY ReportsAreNat
  <2>2. Cardinality(valid) >= 2 /\ valid \in SUBSET Sources
    BY <1>2 DEF KeeperRound
  <2>3. currentPrice' \in Nat
    <3>1. currentPrice' = Min({report[s] : s \in {t \in valid :
                Cardinality({u \in valid : report[u] <= report[t]}) >= 2}})
      BY <1>2 DEF KeeperRound, EmergencySetPrice
    <3> HIDE DEF valid
    <3>2. QED
      BY <2>1, <2>2, <3>1, UpperMiddle
  <2>4. QED
    BY <1>2, <2>3 DEF KeeperRound, EmergencySetPrice, OracleTyped
<1>3. ASSUME NEW n \in MinSources, SetMinSources(n)
      PROVE  OracleTyped'
  BY <1>3, OracleAssumption DEF SetMinSources, OracleTyped
<1>4. CASE Tick
  BY <1>4 DEF Tick, OracleTyped
<1>5. QED
  BY <1>1, <1>2, <1>3, <1>4 DEF OracleNext

-----------------------------------------------------------------------------
(* The market over both *)

Options == [isCall : BOOLEAN, strike : Nat \ {0}, expiry : Int, size : Nat \ {0},
            buyer : Buyers, settlementPrice : Nat, isSettled : BOOLEAN]

MarketTyped == options \in Seq(Options) /\ active \in Int

(* The books are covered step by step; that the prices and the terms of the *)
(* options are numbers is what makes premiums and payoffs numbers.          *)
IInv == PoolInv /\ OracleTyped /\ MarketTyped /\ GroupTyped

LEMMA IntrinsicIsNat ==
    ASSUME NEW x \in Int, NEW size \in Nat, NEW by \in Nat \ {0}
    PROVE  (Floored(x) * size) \div by \in Nat
<1>1. Floored(x) \in Nat
  BY DEF Floored
<1> HIDE DEF Floored
<1>2. QED
  BY <1>1, ScaledIsNat

LEMMA PremiumIsNat ==
    ASSUME OracleTyped, currentPrice > 0, NEW isCall \in BOOLEAN,
           NEW strike \in Nat \ {0}, NEW size \in Nat \ {0}
    PROVE  Premium(isCall, strike, size) \in Nat
<1> DEFINE forCall == (Floored(currentPrice - strike) * size) \div currentPrice
           forPut  == (Floored(strike - currentPrice) * size) \div strike
           intrinsic == IF isCall THEN forCall ELSE forPut
           scaled == (intrinsic * size) \div Precision
           floor == size \div 200
<1>1. currentPrice \in Nat \ {0} /\ currentPrice - strike \in Int /\ strike - currentPrice \in Int
  BY DEF OracleTyped
<1>2. forCall \in Nat /\ forPut \in Nat
  <2>1. forCall \in Nat
    BY <1>1, IntrinsicIsNat
  <2>2. forPut \in Nat
    BY <1>1, IntrinsicIsNat
  <2>3. QED
    BY <2>1, <2>2
<1>3. intrinsic \in Nat
  <2> HIDE DEF forCall, forPut
  <2>1. QED
    BY <1>2
<1>4. scaled \in Nat /\ floor \in Nat
  <2>1. Precision \in Nat \ {0}
    BY MarketAssumption
  <2> HIDE DEF intrinsic
  <2>2. scaled \in Nat
    BY <1>3, <2>1, ScaledIsNat
  <2>3. floor \in Nat
    OBVIOUS
  <2>4. QED
    BY <2>2, <2>3
<1>5. Premium(isCall, strike, size) = Max({scaled, floor})
  BY DEF Premium
<1> HIDE DEF scaled, floor
<1>6. QED
  BY <1>4, <1>5, LargerOfTwo

LEMMA PayoffIsNat ==
    ASSUME OracleTyped, currentPrice > 0, NEW o \in Options
    PROVE  Payoff(o) \in Nat
<1>1. /\ currentPrice \in Nat \ {0} /\ o.strike \in Nat \ {0} /\ o.size \in Nat
      /\ currentPrice - o.strike \in Int /\ o.strike - currentPrice \in Int
  BY DEF OracleTyped, Options
<1>2. (Floored(currentPrice - o.strike) * o.size) \div currentPrice \in Nat
  BY <1>1, IntrinsicIsNat
<1>3. (Floored(o.strike - currentPrice) * o.size) \div o.strike \in Nat
  BY <1>1, IntrinsicIsNat
<1>4. QED
  BY <1>2, <1>3 DEF Payoff

LEMMA PremiumStep ==
    ASSUME GroupTyped, PoolInv, Untouched, NEW amount \in Nat, ReceivePremium(amount)
    PROVE  PoolInv' /\ ValueKept
<1>1. /\ liquidity' = liquidity + amount /\ poolBalance' = poolBalance + amount
      /\ shares' = shares /\ poolTxns' = poolTxns
  BY DEF ReceivePremium
<1>2. liquidity \in Nat /\ shares \in Nat /\ poolTxns \in Nat /\ poolBalance \in Int
  BY DEF PoolInv, PoolTyped
<1>3. PoolInv'
  <2>1. /\ poolTxns' = poolTxns + 0 /\ poolBalance' = (poolBalance + amount) - 0 * TxnFee
        /\ 0 \in 0..2 /\ amount \in Int /\ amount <= amount + 0
        /\ liquidity' \in Nat /\ shares' \in Nat
    <3>1. TxnFee \in Nat
      BY PoolAssumption
    <3>2. QED
      BY <1>1, <1>2, <3>1
  <2>2. QED
    BY <1>1, <2>1, UntouchedGain, StaysCovered
<1>4. ValueKept
  <2>1. (liquidity + amount) * shares = liquidity * shares + amount * shares
    BY <1>2
  <2>2. liquidity * shares \in Nat /\ amount * shares \in Nat
    BY <1>2
  <2>3. (liquidity + amount) * shares >= liquidity * shares
    BY <2>1, <2>2
  <2>4. QED
    BY <1>1, <2>3 DEF ValueKept
<1>5. QED
  BY <1>3, <1>4

LEMMA SettlementStep ==
    ASSUME GroupTyped, PoolInv, Untouched, NEW amount \in Nat, PaySettlement(amount)
    PROVE  PoolInv'
<1>1. /\ amount <= liquidity /\ liquidity' = liquidity - amount /\ shares' = shares
      /\ PoolSends(amount, 1) /\ liquidity \in Nat /\ shares \in Nat
  BY DEF PaySettlement, PoolInv, PoolTyped
<1>2. /\ liquidity' \in Nat /\ shares' \in Nat
      /\ -amount \in Int /\ liquidity' = liquidity + (-amount) /\ -amount <= 0 - amount
  BY <1>1
<1>3. QED
  BY <1>1, <1>2, UntouchedGain, CoveredSend

(* What a step keeps of the invariant, and that it keeps the value of a     *)
(* share unless an option leaves.                                           *)
StepKept == PoolInv' /\ OracleTyped' /\ MarketTyped' /\ (active' >= active => ValueKept)

LEMMA CreateStep ==
    ASSUME IInv, NEW b \in Buyers, NEW isCall \in BOOLEAN, NEW k \in Strikes,
           NEW life \in MinExpiry..MaxExpiry, NEW size \in Sizes,
           CreateOption(b, isCall, k, life, size)
    PROVE  StepKept
<1>1. k \in Nat \ {0} /\ size \in Nat \ {0}
  BY MarketAssumption
<1>2. life \in Int /\ currentPrice > 0
  BY DEF CreateOption
<1>3. Premium(isCall, k, size) \in Nat
  BY <1>1, <1>2, PremiumIsNat DEF IInv
<1>4. Untouched
  <2> DEFINE premium == Premium(isCall, k, size)
             due == premium + BasisPoints(premium, TradingFee)
  <2>1. due \in Nat
    <3> HIDE DEF premium
    <3>1. BasisPoints(premium, TradingFee) \in Nat
      BY <1>3, FeesAreRates, BasisPointsOf DEF premium
    <3>2. QED
      BY <1>3, <3>1 DEF premium
  <2>2. Carries("algo", "market") /\ Book(due) /\ overbooked' = overbooked
    BY DEF CreateOption, ReceivePremium
  <2> HIDE DEF due
  <2>3. ~Carries("algo", "pool")
    BY <2>2 DEF Carries
  <2>4. QED
    BY <2>1, <2>2, <2>3, SpareBooked DEF IInv, Untouched
<1>5. PoolInv' /\ ValueKept
  <2>1. ReceivePremium(Premium(isCall, k, size))
    BY DEF CreateOption
  <2>2. QED
    BY <1>3, <1>4, <2>1, PremiumStep DEF IInv
<1>6. OracleTyped'
  BY DEF CreateOption, oracleVars, IInv, OracleTyped
<1>7. MarketTyped'
  <2> DEFINE o == [isCall |-> isCall, strike |-> k, expiry |-> now + life, size |-> size,
                   buyer |-> b, settlementPrice |-> 0, isSettled |-> FALSE]
  <2>1. now + life \in Int
    BY <1>2 DEF IInv, OracleTyped
  <2>2. o \in Options
    BY <1>1, <2>1 DEF Options
  <2>3. options' = Append(options, o) /\ active' = active + 1
    BY DEF CreateOption
  <2> HIDE DEF o
  <2>4. QED
    BY <2>2, <2>3, AppendProperties DEF IInv, MarketTyped
<1>8. QED
  BY <1>5, <1>6, <1>7 DEF StepKept

LEMMA SettleStep ==
    ASSUME IInv, NEW i \in DOMAIN options, SettleOption(i)
    PROVE  StepKept
<1> DEFINE o == options[i]
<1>1. o \in Options
  BY DEF IInv, MarketTyped
<1>2. currentPrice > 0 /\ currentPrice \in Nat /\ active \in Int /\ active' = active - 1
  BY DEF SettleOption, IInv, OracleTyped, MarketTyped
<1>3. Payoff(o) \in Nat
  BY <1>1, <1>2, PayoffIsNat DEF IInv
<1>4. PoolInv'
  <2>1. CASE Payoff(o) > 0
    <3>1. PaySettlement(Payoff(o)) /\ UNCHANGED <<group, overbooked>>
      BY <2>1 DEF SettleOption, PaySettlement
    <3>2. QED
      BY <1>3, <3>1, GroupKept, SettlementStep DEF IInv
  <2>2. CASE ~(Payoff(o) > 0)
    BY <2>2, NothingMoves DEF SettleOption, IInv
  <2>3. QED
    BY <2>1, <2>2
<1>5. OracleTyped'
  BY DEF SettleOption, oracleVars, IInv, OracleTyped
<1>6. MarketTyped'
  <2> DEFINE settled == [o EXCEPT !.isSettled = TRUE, !.settlementPrice = currentPrice]
  <2>1. settled \in Options
    BY <1>1, <1>2 DEF Options
  <2>2. options' = [options EXCEPT ![i] = settled]
    BY DEF SettleOption
  <2> HIDE DEF settled
  <2>3. options \in Seq(Options)
    BY DEF IInv, MarketTyped
  <2>4. options' \in Seq(Options)
    BY <2>1, <2>2, <2>3, ExceptSeq
  <2>5. QED
    BY <1>2, <2>4 DEF MarketTyped
<1>7. ~(active' >= active)
  BY <1>2
<1>8. QED
  BY <1>4, <1>5, <1>6, <1>7 DEF StepKept

LEMMA PoolStep ==
    ASSUME IInv, PoolNext, UNCHANGED <<oracleVars, marketVars>>
    PROVE  StepKept
<1>1. OracleTyped' /\ MarketTyped'
  BY DEF IInv, OracleTyped, MarketTyped, oracleVars, marketVars
<1>2. Spare(group) \in Nat /\ poolBalance \in Int
  BY SpareIsNat DEF IInv, PoolInv, PoolTyped
<1>3. ASSUME NEW a \in LPs, Deposit(a)
      PROVE  PoolInv' /\ ValueKept
  BY <1>3, DepositStep DEF IInv
<1>4. ASSUME NEW a \in LPs, NEW s \in Burns, Withdraw(a, s)
      PROVE  PoolInv' /\ ValueKept
  BY <1>4, WithdrawStep DEF IInv
<1>5. ASSUME NEW x \in PoolPayments, PayPool(x)
      PROVE  PoolInv' /\ ValueKept
  <2>1. x \in Nat
    BY PoolAssumption
  <2>2. Spare(group) = 0 /\ Spare(group') = x
    BY <1>5, <2>1, SpareBegins DEF PayPool
  <2>3. /\ UNCHANGED <<liquidity, shares, poolTxns, overbooked>>
        /\ poolBalance' = poolBalance + x
    BY <1>5 DEF PayPool
  <2>4. Spare(group') \in Nat /\ Spare(group') <= Spare(group) + x
    BY <2>1, <2>2
  <2>5. QED
    BY <2>1, <2>3, <2>4, PoolKept DEF IInv
<1>6. ASSUME UNCHANGED <<liquidity, shares, poolTxns, overbooked, poolBalance>>, Spare(group') = 0
      PROVE  PoolInv' /\ ValueKept
  <2>1. /\ poolBalance' = poolBalance + 0 /\ Spare(group') \in Nat
        /\ Spare(group') <= Spare(group) + 0
    BY <1>2, <1>6
  <2>2. QED
    BY <1>6, <2>1, PoolKept DEF IInv
<1>7. ASSUME NEW a \in LPs, NEW to \in LPs \cup {"pool"}, NEW x \in Burns, SendLp(a, to, x)
      PROVE  PoolInv' /\ ValueKept
  <2>1. Spare(group') = 0
    BY <1>7, PoolAssumption, SpareBegins DEF SendLp
  <2>2. QED
    BY <1>6, <1>7, <2>1 DEF SendLp
<1>8. ASSUME End, UNCHANGED poolVars
      PROVE  PoolInv' /\ ValueKept
  <2>1. Spare(group') = 0
    BY <1>8 DEF End, NoGroup, Spare
  <2>2. QED
    BY <1>6, <1>8, <2>1 DEF poolVars
<1>9. ASSUME PausePool
      PROVE  PoolInv' /\ ValueKept
  <2>1. /\ UNCHANGED <<liquidity, shares, poolTxns, overbooked, poolBalance>>
        /\ Spare(group') = Spare(group)
    BY <1>9 DEF PausePool, Spare
  <2>2. /\ poolBalance' = poolBalance + 0 /\ Spare(group') \in Nat
        /\ Spare(group') <= Spare(group) + 0
    BY <1>2, <2>1
  <2>3. QED
    BY <2>1, <2>2, PoolKept DEF IInv
<1>10. QED
  BY <1>1, <1>3, <1>4, <1>5, <1>7, <1>8, <1>9 DEF PoolNext, StepKept

LEMMA Stutter ==
    ASSUME IInv, UNCHANGED <<poolVars, group>>, OracleTyped', MarketTyped'
    PROVE  StepKept
BY NothingMoves DEF IInv, StepKept

(* A group begins, goes on or ends.                                         *)
LEMMA GroupStep ==
    ASSUME IInv, [Next]_vars
    PROVE  GroupTyped'
<1>1. GroupTyped
  BY DEF IInv
<1>2. UNCHANGED group => GroupTyped'
  BY <1>1 DEF GroupTyped
<1>3. \A x \in Nat : Book(x) => GroupTyped'
  BY <1>1, BookedGroup
<1>4. CASE PoolNext
  <2>1. ASSUME NEW x \in PoolPayments, PayPool(x)
        PROVE  GroupTyped'
    BY <2>1, PoolAssumption, BegunGroup DEF PayPool
  <2>2. ASSUME NEW a \in LPs, NEW to \in LPs \cup {"pool"}, NEW x \in Burns, SendLp(a, to, x)
        PROVE  GroupTyped'
    BY <2>2, PoolAssumption, BegunGroup DEF SendLp
  <2>3. ASSUME NEW a \in LPs, Deposit(a)
        PROVE  GroupTyped'
    <3>1. group.amount \in Nat /\ Book(group.amount)
      BY <1>1, <2>3 DEF GroupTyped, Deposit
    <3>2. QED
      BY <1>3, <3>1
  <2>4. ASSUME NEW a \in LPs, NEW s \in Burns, Withdraw(a, s)
        PROVE  GroupTyped'
    BY <1>3, <2>4, PoolAssumption DEF Withdraw
  <2>5. CASE PausePool
    BY <1>2, <2>5 DEF PausePool
  <2>6. CASE End
    BY <2>6 DEF End, NoGroup, GroupTyped
  <2>7. QED
    BY <1>4, <2>1, <2>2, <2>3, <2>4, <2>5, <2>6 DEF PoolNext
<1>5. ASSUME NEW x \in MarketPayments, PayMarket(x)
      PROVE  GroupTyped'
  BY <1>5, MarketAssumption, BegunGroup DEF PayMarket
<1>6. ASSUME NEW b \in Buyers, NEW c \in BOOLEAN, NEW k \in Strikes,
             NEW l \in MinExpiry..MaxExpiry, NEW s \in Sizes, CreateOption(b, c, k, l, s)
      PROVE  GroupTyped'
  <2> DEFINE premium == Premium(c, k, s)
             due == premium + BasisPoints(premium, TradingFee)
  <2>1. premium \in Nat
    <3>1. k \in Nat \ {0} /\ s \in Nat \ {0} /\ currentPrice > 0
      BY <1>6, MarketAssumption DEF CreateOption
    <3>2. QED
      BY <3>1, PremiumIsNat DEF IInv
  <2> HIDE DEF premium
  <2>2. due \in Nat
    BY <2>1, FeesAreRates, BasisPointsOf
  <2>3. Book(due)
    BY <1>6 DEF CreateOption, premium
  <2>4. QED
    BY <1>3, <2>2, <2>3
<1>7. ASSUME NEW i \in DOMAIN options, SettleOption(i)
      PROVE  GroupTyped'
  BY <1>2, <1>7 DEF SettleOption
<1>8. QED
  BY <1>2, <1>4, <1>5, <1>6, <1>7 DEF Next, PauseMarket, vars

LEMMA EveryStep ==
    ASSUME IInv, [Next]_vars
    PROVE  IInv' /\ StepKept
<1> SUFFICES StepKept
  BY GroupStep DEF StepKept, IInv
<1>1. CASE PoolNext /\ UNCHANGED <<oracleVars, marketVars>>
  BY <1>1, PoolStep
<1>2. CASE OracleNext /\ UNCHANGED <<poolVars, marketVars, group>>
  <2>1. OracleTyped' /\ MarketTyped'
    BY <1>2, OracleStep DEF IInv, MarketTyped, marketVars
  <2>2. QED
    BY <1>2, <2>1, Stutter
<1>3. ASSUME NEW b \in Buyers, NEW c \in BOOLEAN, NEW k \in Strikes,
             NEW l \in MinExpiry..MaxExpiry, NEW s \in Sizes, CreateOption(b, c, k, l, s)
      PROVE  StepKept
  BY <1>3, CreateStep
<1>4. ASSUME NEW i \in DOMAIN options, SettleOption(i)
      PROVE  StepKept
  BY <1>4, SettleStep
<1>5. CASE PauseMarket
  BY <1>5, Stutter DEF PauseMarket, IInv, OracleTyped, MarketTyped, oracleVars
<1>6. CASE UNCHANGED vars
  BY <1>6, Stutter DEF vars, IInv, OracleTyped, MarketTyped, oracleVars, marketVars
<1>7. ASSUME NEW x \in MarketPayments, PayMarket(x)
      PROVE  StepKept
  <2>1. Spare(group) = 0 /\ Spare(group') = 0
    BY <1>7, MarketAssumption, SpareBegins DEF PayMarket
  <2>2. OracleTyped' /\ MarketTyped'
    BY <1>7 DEF PayMarket, IInv, OracleTyped, MarketTyped, oracleVars
  <2>3. UNCHANGED <<liquidity, shares, poolTxns, overbooked>> /\ poolBalance' = poolBalance + 0
    BY <1>7 DEF PayMarket, poolVars, IInv, PoolInv, PoolTyped
  <2>4. Spare(group') \in Nat /\ Spare(group') <= Spare(group) + 0
    BY <2>1
  <2>5. QED
    BY <2>2, <2>3, <2>4, PoolKept DEF IInv, StepKept
<1>8. QED
  BY <1>1, <1>2, <1>3, <1>4, <1>5, <1>6, <1>7 DEF Next

LEMMA InitHolds ==
    ASSUME Init
    PROVE  IInv
<1>1. PoolInv
  <2>1. PoolFunds \in Nat /\ TxnFee \in Nat
    BY PoolAssumption
  <2>2. Spare(group) = 0
    BY DEF Init, PoolInit, NoGroup, Spare
  <2>3. QED
    BY <2>1, <2>2 DEF Init, PoolInit, PoolInv, PoolTyped, Backing
<1>2. OracleTyped
  BY OracleAssumption DEF Init, OracleInit, OracleTyped
<1>3. MarketTyped
  BY DEF Init, MarketTyped
<1>4. GroupTyped
  BY DEF Init, PoolInit, NoGroup, GroupTyped
<1>5. QED
  BY <1>1, <1>2, <1>3, <1>4 DEF IInv

(* The pool's account covers what its books say it owes, whatever the fees, *)
(* the prices and the groups of calls, up to its own transaction fees and   *)
(* what was booked again of one payment (options_pool.py:172, :199, :373,   *)
(* :388).  The invariant counts the unbooked part of a payment apart.       *)
THEOREM PoolStaysCovered == Spec => []PoolCoversBooks
<1>1. Init => IInv
  BY InitHolds
<1>2. IInv /\ [Next]_vars => IInv'
  BY EveryStep DEF StepKept
<1>3. IInv => PoolCoversBooks
  BY CoveredIsEnough DEF IInv
<1>4. QED
  BY <1>1, <1>2, <1>3, PTL DEF Spec

(* No deposit, withdrawal or premium lowers what a share is worth, for      *)
(* every amount and every fee: the roundings go the pool's way              *)
(* (options_pool.py:549, :558).                                             *)
THEOREM SharesAreNotDiluted == Spec => NoDilution
<1>1. Init => IInv
  BY InitHolds
<1>2. IInv /\ [Next]_vars => IInv'
  BY EveryStep DEF StepKept
<1>3. IInv /\ [Next]_vars
        => [shares > 0 /\ active' >= active => liquidity' * shares >= liquidity * shares']_vars
  BY EveryStep DEF StepKept, ValueKept
<1>4. QED
  BY <1>1, <1>2, <1>3, PTL DEF Spec, NoDilution

-----------------------------------------------------------------------------
(* The shares: tokens outside the pool, and what the boxes record           *)

SharesTyped ==
    /\ lpTokens \in [LPs -> Nat]
    /\ DOMAIN lpBoxes \subseteq LPs
    /\ \A a \in DOMAIN lpBoxes : lpBoxes[a] \in Nat

(* LP tokens of the group that no withdrawal has booked are in the pool and *)
(* still count as shares.                                                   *)
SharesInv ==
    /\ SharesTyped /\ overburned \in Nat
    /\ Held(lpTokens) + SpareLp(group) <= shares + overburned
    /\ shares <= Held(lpBoxes)

LEMMA HeldIsNat ==
    ASSUME SharesTyped
    PROVE  /\ Held(lpTokens) \in Nat /\ Held(lpBoxes) \in Nat
           /\ IsFiniteSet(LPs) /\ IsFiniteSet(DOMAIN lpBoxes)
<1>1. IsFiniteSet(LPs)
  BY PoolAssumption
<1>2. IsFiniteSet(DOMAIN lpBoxes)
  BY <1>1, FS_Subset DEF SharesTyped
<1>3. \A a \in DOMAIN lpTokens : lpTokens[a] \in Nat
  BY DEF SharesTyped
<1>4. \A a \in DOMAIN lpBoxes : lpBoxes[a] \in Nat
  BY DEF SharesTyped
<1>5. DOMAIN lpTokens = LPs
  BY DEF SharesTyped
<1>6. QED
  BY <1>1, <1>2, <1>3, <1>4, <1>5, SumIsNat DEF Held

(* One account's tokens, one account's box. *)
LEMMA TokensWritten ==
    ASSUME NEW f \in [LPs -> Nat], NEW a \in LPs, NEW n \in Nat
    PROVE  Held([f EXCEPT ![a] = n]) = Held(f) - f[a] + n
<1> DEFINE g == [f EXCEPT ![a] = n]
<1>1. IsFiniteSet(LPs)
  BY PoolAssumption
<1>2. /\ \A b \in LPs : f[b] \in Int
      /\ \A b \in LPs : b # a => g[b] = f[b]
      /\ g[a] = n /\ g[a] \in Int /\ DOMAIN f = LPs /\ DOMAIN g = LPs
  OBVIOUS
<1> HIDE DEF g
<1>3. SumFunctionOnSet(g, LPs) = SumFunctionOnSet(f, LPs) - f[a] + g[a]
  BY <1>1, <1>2, SumChanged
<1>4. QED
  BY <1>2, <1>3 DEF Held, g

LEMMA BoxIsWritten ==
    ASSUME SharesTyped, NEW a \in LPs, NEW s \in Nat
    PROVE  /\ Held(WithBox(a, s)) = Held(lpBoxes) - BoxOf(a) + s
           /\ DOMAIN WithBox(a, s) \subseteq LPs
           /\ \A b \in DOMAIN WithBox(a, s) : WithBox(a, s)[b] \in Nat
<1> DEFINE g == WithBox(a, s)
           D == DOMAIN lpBoxes
<1>1. IsFiniteSet(D)
  BY HeldIsNat
<1>2. /\ DOMAIN g = D \cup {a} /\ g[a] = s
      /\ \A b \in D : b # a => g[b] = lpBoxes[b]
      /\ \A b \in D : lpBoxes[b] \in Nat
      /\ \A b \in DOMAIN g : g[b] \in Nat
      /\ D \cup {a} \subseteq LPs
  BY DEF WithBox, SharesTyped
<1> HIDE DEF g
<1>3. SumFunctionOnSet(g, D \cup {a})
        = SumFunctionOnSet(lpBoxes, D) - (IF a \in D THEN lpBoxes[a] ELSE 0) + g[a]
  <2> HIDE DEF D
  <2>1. \A b \in D : lpBoxes[b] \in Int
    BY <1>2
  <2>2. g[a] \in Int
    BY <1>2
  <2>3. QED
    BY <1>1, <1>2, <2>1, <2>2, SumWritten
<1>4. QED
  BY <1>2, <1>3 DEF Held, BoxOf, g

LEMMA BoxIsDeleted ==
    ASSUME SharesTyped, NEW a \in LPs
    PROVE  LET g == Restrict(lpBoxes, DOMAIN lpBoxes \ {a})
           IN  /\ Held(g) = Held(lpBoxes) - BoxOf(a)
               /\ DOMAIN g \subseteq LPs /\ \A b \in DOMAIN g : g[b] \in Nat
<1> DEFINE g == Restrict(lpBoxes, DOMAIN lpBoxes \ {a})
           D == DOMAIN lpBoxes
           rest == D \ {a}
<1>1. IsFiniteSet(D) /\ Held(lpBoxes) \in Nat
  BY HeldIsNat
<1>2. /\ DOMAIN g = rest /\ \A b \in rest : g[b] = lpBoxes[b]
      /\ \A b \in D : lpBoxes[b] \in Nat
      /\ rest \subseteq LPs
  BY DEF Restrict, SharesTyped
<1>3. CASE a \in D
  <2>1. \A b \in D : lpBoxes[b] \in Int
    BY <1>2
  <2> HIDE DEF g
  <2>2. SumFunctionOnSet(g, rest) = SumFunctionOnSet(lpBoxes, D) - lpBoxes[a]
    BY <1>1, <1>2, <1>3, <2>1, SumLeft
  <2>3. QED
    BY <1>2, <1>3, <2>2 DEF Held, BoxOf, g
<1>4. CASE a \notin D
  <2>1. rest = D
    BY <1>4
  <2> HIDE DEF g
  <2>2. SumFunctionOnSet(g, rest) = SumFunctionOnSet(lpBoxes, D)
    <3>1. \A b \in D : g[b] = lpBoxes[b]
      BY <1>2, <2>1
    <3>2. QED
      BY <1>1, <2>1, <3>1, SumAgrees
  <2>3. QED
    BY <1>1, <1>2, <1>4, <2>2 DEF Held, BoxOf, g
<1>5. QED
  BY <1>3, <1>4

LEMMA SharesForIsNat ==
    ASSUME NEW amount \in Nat, liquidity \in Nat, shares \in Nat
    PROVE  SharesFor(amount) \in Nat
BY ScaledIsNat DEF SharesFor

LEMMA DepositShares ==
    ASSUME IInv, SharesInv, NEW a \in LPs, Deposit(a)
    PROVE  SharesInv'
<1> DEFINE payment == group.amount
           fee == BasisPoints(payment, DepositFee)
           new == SharesFor(payment - fee)
<1>1. payment \in Nat /\ fee \in Nat /\ fee <= payment
  <2>1. payment \in Nat /\ DepositFee \in Rates
    BY FeesAreRates DEF IInv, GroupTyped
  <2>2. QED
    BY <2>1, BasisPointsOf
<1>2. shares \in Nat /\ new \in Nat
  <2> HIDE DEF fee
  <2>1. payment - fee \in Nat
    BY <1>1
  <2>2. QED
    BY <2>1, SharesForIsNat DEF IInv, PoolInv, PoolTyped
<1>3. /\ lpTokens' = [lpTokens EXCEPT ![a] = lpTokens[a] + new]
      /\ lpBoxes' = WithBox(a, BoxOf(a) + new) /\ shares' = shares + new
      /\ Carries("algo", "pool") /\ Book(payment) /\ overburned' = overburned
  BY DEF Deposit
<1> HIDE DEF new, payment
<1>4. SharesTyped /\ Held(lpTokens) \in Nat /\ Held(lpBoxes) \in Nat
  BY HeldIsNat DEF SharesInv
<1>5. lpTokens \in [LPs -> Nat] /\ lpTokens[a] \in Nat /\ BoxOf(a) \in Nat
  BY <1>4 DEF SharesTyped, BoxOf
<1>6. lpTokens[a] + new \in Nat /\ BoxOf(a) + new \in Nat
  BY <1>2, <1>5
<1>7. Held(lpTokens') = Held(lpTokens) + new
  <2> DEFINE n == lpTokens[a] + new
  <2> HIDE DEF n
  <2>1. n \in Nat /\ lpTokens' = [lpTokens EXCEPT ![a] = n]
    BY <1>3, <1>6 DEF n
  <2>2. Held(lpTokens') = Held(lpTokens) - lpTokens[a] + n
    BY <1>5, <2>1, TokensWritten
  <2>3. QED
    BY <1>2, <1>4, <1>5, <2>2 DEF n
<1>8. Held(lpBoxes') = Held(lpBoxes) + new
  BY <1>2, <1>3, <1>4, <1>5, <1>6, BoxIsWritten
<1>9. SharesTyped'
  BY <1>3, <1>4, <1>5, <1>6, BoxIsWritten DEF SharesTyped
<1>10. SpareLp(group) = 0 /\ SpareLp(group') = 0
  <2>1. ~Carries("lp", "pool")
    BY <1>3 DEF Carries
  <2>2. QED
    BY <1>1, <1>3, <2>1, SpareBooked DEF IInv
<1>11. /\ overburned' \in Nat
       /\ Held(lpTokens') + SpareLp(group') <= shares' + overburned'
       /\ shares' <= Held(lpBoxes')
  BY <1>2, <1>3, <1>4, <1>7, <1>8, <1>10 DEF SharesInv
<1>12. QED
  BY <1>9, <1>11 DEF SharesInv

LEMMA WithdrawShares ==
    ASSUME IInv, SharesInv, NEW a \in LPs, NEW s \in Burns, Withdraw(a, s)
    PROVE  SharesInv'
<1>1. s \in Nat /\ shares \in Nat /\ overburned \in Nat
  BY PoolAssumption DEF IInv, PoolInv, PoolTyped, SharesInv
<1>2. /\ lpTokens' = lpTokens /\ lpBoxes' = BoxesAfterBurn(a, s) /\ shares' = shares - s
      /\ Carries("lp", "pool") /\ Book(s) /\ overburned' = overburned + BookedAgain(s)
  BY DEF Withdraw
<1>3. SharesTyped /\ Held(lpTokens) \in Nat /\ Held(lpBoxes) \in Nat
  BY HeldIsNat DEF SharesInv
<1>4. BoxOf(a) \in Nat
  BY <1>3 DEF SharesTyped, BoxOf
<1>5. /\ Held(lpBoxes') \in Int /\ Held(lpBoxes') >= Held(lpBoxes) - s
      /\ DOMAIN lpBoxes' \subseteq LPs /\ \A b \in DOMAIN lpBoxes' : lpBoxes'[b] \in Nat
  <2>1. CASE BoxOf(a) > s
    <3>1. BoxOf(a) - s \in Nat /\ lpBoxes' = WithBox(a, BoxOf(a) - s)
      BY <1>1, <1>2, <1>4, <2>1 DEF BoxesAfterBurn
    <3>2. /\ Held(lpBoxes') = Held(lpBoxes) - BoxOf(a) + (BoxOf(a) - s)
          /\ DOMAIN lpBoxes' \subseteq LPs /\ \A b \in DOMAIN lpBoxes' : lpBoxes'[b] \in Nat
      BY <1>3, <3>1, BoxIsWritten
    <3>3. QED
      BY <1>1, <1>3, <1>4, <3>2
  <2>2. CASE ~(BoxOf(a) > s)
    <3>1. lpBoxes' = Restrict(lpBoxes, DOMAIN lpBoxes \ {a})
      BY <1>2, <2>2 DEF BoxesAfterBurn
    <3>2. /\ Held(lpBoxes') = Held(lpBoxes) - BoxOf(a)
          /\ DOMAIN lpBoxes' \subseteq LPs /\ \A b \in DOMAIN lpBoxes' : lpBoxes'[b] \in Nat
      BY <1>3, <3>1, BoxIsDeleted
    <3>3. QED
      BY <1>1, <1>3, <1>4, <2>2, <3>2
  <2>3. QED
    BY <2>1, <2>2
<1>6. SharesTyped'
  BY <1>2, <1>3, <1>5 DEF SharesTyped
<1>7. /\ SpareLp(group') \in Nat /\ BookedAgain(s) \in Nat /\ SpareLp(group) \in Nat
      /\ BookedAgain(s) - SpareLp(group') = s - SpareLp(group)
  BY <1>1, <1>2, SpareBooked, SpareIsNat DEF IInv
<1>8. Held(lpTokens) + SpareLp(group) <= shares + overburned /\ shares <= Held(lpBoxes)
  BY DEF SharesInv
<1>9. /\ overburned' \in Nat
      /\ Held(lpTokens') + SpareLp(group') <= shares' + overburned'
      /\ shares' <= Held(lpBoxes')
  <2>1. Held(lpTokens') = Held(lpTokens)
    BY <1>2
  <2>2. QED
    BY <1>1, <1>2, <1>3, <1>5, <1>7, <1>8, <2>1
<1>10. QED
  BY <1>6, <1>9 DEF SharesInv

LEMMA TransferShares ==
    ASSUME IInv, SharesInv, NEW a \in LPs, NEW to \in LPs \cup {"pool"}, NEW x \in Burns,
           SendLp(a, to, x)
    PROVE  SharesInv'
<1> DEFINE left == lpTokens[a] - x
           without == [lpTokens EXCEPT ![a] = left]
<1>1. /\ lpTokens \in [LPs -> Nat] /\ lpTokens[a] \in Nat /\ Held(lpTokens) \in Nat
      /\ x \in Nat /\ left \in Nat /\ a # to /\ shares \in Nat /\ overburned \in Nat
      /\ Held(lpBoxes) \in Nat
  <2>1. lpTokens \in [LPs -> Nat] /\ x \in Nat /\ x <= lpTokens[a] /\ a # to
    BY PoolAssumption DEF SharesInv, SharesTyped, SendLp
  <2>2. QED
    BY <2>1, HeldIsNat DEF SharesInv, IInv, PoolInv, PoolTyped
<1>2. /\ SpareLp(group) = 0
      /\ SpareLp(group') = IF to = "pool" THEN x ELSE 0
      /\ UNCHANGED <<shares, lpBoxes, overburned>>
  BY <1>1, SpareBegins DEF SendLp
<1>3. lpTokens' = IF to = "pool" THEN without ELSE [without EXCEPT ![to] = lpTokens[to] + x]
  BY <1>1 DEF SendLp
<1> HIDE DEF left
<1>4. without \in [LPs -> Nat] /\ \A b \in LPs : b # a => without[b] = lpTokens[b]
  BY <1>1
<1>5. Held(without) = Held(lpTokens) - lpTokens[a] + left
  BY <1>1, TokensWritten
<1> HIDE DEF without
<1>6. Held(without) = Held(lpTokens) - x
  BY <1>1, <1>5 DEF left
<1>7. /\ lpTokens' \in [LPs -> Nat]
      /\ Held(lpTokens') + SpareLp(group') = Held(lpTokens)
  <2>1. CASE to = "pool"
    BY <1>1, <1>2, <1>3, <1>4, <1>6, <2>1
  <2>2. CASE to # "pool"
    <3> DEFINE n == lpTokens[to] + x
    <3>1. n \in Nat /\ lpTokens[to] \in Nat /\ without[to] = lpTokens[to] /\ to \in LPs
      BY <1>1, <1>4, <2>2
    <3> HIDE DEF n
    <3>2. Held([without EXCEPT ![to] = n]) = Held(without) - without[to] + n
      BY <1>4, <3>1, TokensWritten
    <3>3. lpTokens' = [without EXCEPT ![to] = n]
      BY <1>3, <2>2 DEF n
    <3>4. Held(lpTokens') = Held(without) - without[to] + n
      BY <3>2, <3>3
    <3>5. Held(lpTokens') = Held(lpTokens)
      BY <1>1, <1>6, <3>1, <3>4 DEF n
    <3>6. lpTokens' \in [LPs -> Nat]
      BY <1>4, <3>1, <3>3
    <3>7. QED
      BY <1>1, <1>2, <2>2, <3>5, <3>6
  <2>3. QED
    BY <2>1, <2>2
<1>8. SharesTyped'
  BY <1>2, <1>7 DEF SharesInv, SharesTyped
<1>9. Held(lpTokens) + SpareLp(group) <= shares + overburned /\ shares <= Held(lpBoxes)
  BY DEF SharesInv
<1>10. Held(lpTokens') + SpareLp(group') <= shares' + overburned'
  BY <1>1, <1>2, <1>7, <1>9
<1>11. QED
  BY <1>1, <1>2, <1>8, <1>9, <1>10 DEF SharesInv

LEMMA SharesStep ==
    ASSUME IInv, SharesInv, [Next]_vars
    PROVE  SharesInv'
<1>1. /\ SharesTyped /\ overburned \in Nat /\ SpareLp(group) \in Nat
      /\ Held(lpTokens) + SpareLp(group) <= shares + overburned /\ shares <= Held(lpBoxes)
      /\ shares \in Nat /\ Held(lpTokens) \in Nat
  BY SpareIsNat, HeldIsNat DEF SharesInv, IInv, PoolInv, PoolTyped
<1>2. ASSUME UNCHANGED <<shares, lpTokens, lpBoxes, overburned>>, SpareLp(group') \in Nat,
             SpareLp(group') <= SpareLp(group)
      PROVE  SharesInv'
  <2>1. SharesTyped' /\ Held(lpTokens') = Held(lpTokens) /\ Held(lpBoxes') = Held(lpBoxes)
    BY <1>1, <1>2 DEF SharesTyped
  <2>2. Held(lpTokens') + SpareLp(group') <= shares' + overburned'
    BY <1>1, <1>2, <2>1
  <2>3. QED
    BY <1>1, <1>2, <2>1, <2>2 DEF SharesInv
<1>3. ASSUME UNCHANGED <<shares, lpTokens, lpBoxes, overburned, group>>
      PROVE  SharesInv'
  <2>1. SpareLp(group') = SpareLp(group)
    BY <1>3 DEF SpareLp
  <2>2. QED
    BY <1>1, <1>2, <1>3, <2>1
<1>4. ASSUME UNCHANGED <<shares, lpTokens, lpBoxes, overburned>>, SpareLp(group') = 0
      PROVE  SharesInv'
  BY <1>1, <1>2, <1>4
<1>5. CASE PoolNext
  <2>1. ASSUME NEW a \in LPs, Deposit(a)
        PROVE  SharesInv'
    BY <2>1, DepositShares
  <2>2. ASSUME NEW a \in LPs, NEW s \in Burns, Withdraw(a, s)
        PROVE  SharesInv'
    BY <2>2, WithdrawShares
  <2>3. ASSUME NEW a \in LPs, NEW to \in LPs \cup {"pool"}, NEW x \in Burns, SendLp(a, to, x)
        PROVE  SharesInv'
    BY <2>3, TransferShares
  <2>4. ASSUME NEW x \in PoolPayments, PayPool(x)
        PROVE  SharesInv'
    <3>1. SpareLp(group') = 0
      BY <2>4, PoolAssumption, SpareBegins DEF PayPool
    <3>2. QED
      BY <1>4, <2>4, <3>1 DEF PayPool
  <2>5. CASE PausePool
    BY <1>3, <2>5 DEF PausePool
  <2>6. CASE End /\ UNCHANGED poolVars
    <3>1. SpareLp(group') = 0
      BY <2>6 DEF End, NoGroup, SpareLp
    <3>2. QED
      BY <1>4, <2>6, <3>1 DEF poolVars
  <2>7. QED
    BY <1>5, <2>1, <2>2, <2>3, <2>4, <2>5, <2>6 DEF PoolNext
<1>6. ASSUME NEW b \in Buyers, NEW c \in BOOLEAN, NEW k \in Strikes,
             NEW l \in MinExpiry..MaxExpiry, NEW s \in Sizes, CreateOption(b, c, k, l, s)
      PROVE  SharesInv'
  <2> DEFINE premium == Premium(c, k, s)
             due == premium + BasisPoints(premium, TradingFee)
  <2>1. premium \in Nat
    <3>1. k \in Nat \ {0} /\ s \in Nat \ {0} /\ currentPrice > 0
      BY <1>6, MarketAssumption DEF CreateOption
    <3>2. QED
      BY <3>1, PremiumIsNat DEF IInv
  <2>2. /\ UNCHANGED <<shares, lpTokens, lpBoxes, overburned>>
        /\ Carries("algo", "market") /\ Book(due)
    BY <1>6 DEF CreateOption, ReceivePremium
  <2> HIDE DEF premium
  <2>3. due \in Nat
    BY <2>1, FeesAreRates, BasisPointsOf
  <2>4. ~Carries("lp", "pool")
    BY <2>2 DEF Carries
  <2> HIDE DEF due
  <2>5. SpareLp(group') = 0
    BY <2>2, <2>3, <2>4, SpareBooked DEF IInv
  <2>6. QED
    BY <1>4, <2>2, <2>5
<1>7. ASSUME NEW i \in DOMAIN options, SettleOption(i)
      PROVE  SharesInv'
  BY <1>3, <1>7 DEF SettleOption, PaySettlement, poolVars
<1>8. ASSUME NEW x \in MarketPayments, PayMarket(x)
      PROVE  SharesInv'
  <2>1. SpareLp(group') = 0
    BY <1>8, MarketAssumption, SpareBegins DEF PayMarket
  <2>2. QED
    BY <1>4, <1>8, <2>1 DEF PayMarket, poolVars
<1>9. CASE UNCHANGED <<poolVars, group>>
  BY <1>3, <1>9 DEF poolVars
<1>10. QED
  BY <1>5, <1>6, <1>7, <1>8, <1>9 DEF Next, PauseMarket, vars

(* The tokens outside the pool can be redeemed, but for those a group       *)
(* burned again, and the boxes never show fewer shares than there are,      *)
(* whoever the tokens are passed to (options_pool.py:255, :284).            *)
THEOREM SharesAreAccounted == Spec => []SharesAccounted
<1>1. Init => IInv /\ SharesInv
  <2>1. SUFFICES ASSUME Init PROVE SharesInv
    BY InitHolds
  <2>2. lpTokens = [a \in LPs |-> 0] /\ lpBoxes = <<>> /\ shares = 0
    BY <2>1 DEF Init, PoolInit
  <2>3. SharesTyped
    BY <2>2 DEF SharesTyped
  <2>4. Held(lpBoxes) = 0
    <3>1. DOMAIN lpBoxes = {}
      BY <2>2
    <3>2. QED
      BY <3>1, SumEmpty DEF Held
  <2>5. Held(lpTokens) = 0
    <3>1. \A a \in LPs : lpTokens[a] = 0
      BY <2>2
    <3>2. DOMAIN lpTokens = LPs /\ IsFiniteSet(LPs)
      BY <2>2, PoolAssumption
    <3>3. QED
      BY <3>1, <3>2, SumOfZeros DEF Held
  <2>6. SpareLp(group) = 0 /\ overburned = 0
    BY <2>1 DEF Init, PoolInit, NoGroup, SpareLp
  <2>7. QED
    BY <2>2, <2>3, <2>4, <2>5, <2>6 DEF SharesInv
<1>2. IInv /\ SharesInv /\ [Next]_vars => IInv' /\ SharesInv'
  BY EveryStep, SharesStep
<1>3. IInv /\ SharesInv => SharesAccounted
  <2>1. SUFFICES ASSUME IInv, SharesInv PROVE SharesAccounted
    OBVIOUS
  <2>2. /\ SpareLp(group) \in Nat /\ Held(lpTokens) \in Nat
        /\ shares \in Nat /\ overburned \in Nat
        /\ Held(lpTokens) + SpareLp(group) <= shares + overburned /\ shares <= Held(lpBoxes)
    BY <2>1, SpareIsNat, HeldIsNat DEF SharesInv, IInv, PoolInv, PoolTyped
  <2>3. QED
    BY <2>2 DEF SharesAccounted
<1>4. QED
  BY <1>1, <1>2, <1>3, PTL DEF Spec
-----------------------------------------------------------------------------
(* The oracle's price is a middle one                                       *)

LEMMA SmallestPrice ==
    ASSUME NEW price \in [Sources -> Nat], NEW given \in SUBSET Sources, given # {}
    PROVE  LET prices == {price[s] : s \in given}
           IN  /\ Min(prices) \in Nat
               /\ Min(prices) \in prices /\ Max(prices) \in prices
               /\ \A s \in given : Min(prices) <= price[s]
<1> DEFINE prices == {price[s] : s \in given}
<1>1. PICK a, b, c : Sources = {a, b, c}
  BY ThreeSources
<1>2. /\ price[a] \in Nat /\ price[b] \in Nat /\ price[c] \in Nat
      /\ prices \in SUBSET {price[a], price[b], price[c]} /\ prices # {}
      /\ prices \subseteq Nat
  BY <1>1
<1>3. Min(prices) \in prices /\ Max(prices) \in prices /\ \A p \in prices : Min(prices) <= p
  <2> HIDE DEF prices
  <2>1. QED
    BY <1>2, Extremes
<1>4. \A s \in given : price[s] \in prices
  OBVIOUS
<1>5. QED
  BY <1>2, <1>3, <1>4

LEMMA PartIsCounted ==
    ASSUME NEW given \in SUBSET Sources, NEW part \in SUBSET given
    PROVE  /\ IsFiniteSet(part) /\ Cardinality(part) \in Nat
           /\ Cardinality(given) \in Nat /\ Cardinality(given) <= 3
           /\ Cardinality(part) <= Cardinality(given)
           /\ Cardinality(given \ part) = Cardinality(given) - Cardinality(part)
           /\ part # {} => Cardinality(part) >= 1
<1>1. IsFiniteSet(given) /\ Cardinality(given) <= 3
  BY OracleAssumption, FS_Subset
<1>2. IsFiniteSet(part) /\ Cardinality(part) <= Cardinality(given)
  BY <1>1, FS_Subset
<1>3. Cardinality(part) \in Nat /\ Cardinality(given) \in Nat
  BY <1>1, <1>2, FS_CardinalityType
<1>4. Cardinality(given \ part) = Cardinality(given) - Cardinality(part)
  <2>1. given \cap part = part
    OBVIOUS
  <2>2. QED
    BY <1>1, <2>1, FS_Difference
<1>5. part # {} => Cardinality(part) >= 1
  BY <1>2, <1>3, FS_EmptySet
<1>6. QED
  BY <1>1, <1>2, <1>3, <1>4, <1>5

LEMMA AtMostOne ==
    ASSUME NEW S, \A a, b \in S : a = b
    PROVE  Cardinality(S) <= 1
<1>1. CASE S = {}
  BY <1>1, FS_EmptySet
<1>2. CASE S # {}
  <2>1. PICK a : a \in S
    BY <1>2
  <2>2. S = {a}
    BY <2>1
  <2>3. QED
    BY <2>2, FS_Singleton
<1>3. QED
  BY <1>1, <1>2

LEMMA AtLeastTwo ==
    ASSUME NEW S, IsFiniteSet(S), NEW a \in S, NEW b \in S, a # b
    PROVE  Cardinality(S) >= 2
<1>1. IsFiniteSet({a}) /\ Cardinality({a}) = 1
  BY FS_Singleton
<1>2. Cardinality({a} \cup {b}) = 2
  BY <1>1, FS_AddElement
<1>3. {a} \cup {b} \in SUBSET S
  OBVIOUS
<1>4. Cardinality({a} \cup {b}) <= Cardinality(S)
  BY <1>3, FS_Subset
<1>5. QED
  BY <1>2, <1>4, FS_CardinalityType

(* The second price from below of two or of three is a middle one.          *)
LEMMA SecondIsMiddle ==
    ASSUME NEW price \in [Sources -> Nat], NEW given \in SUBSET Sources,
           Cardinality(given) >= 2
    PROVE  IsMiddle(Min({price[s] : s \in {t \in given :
                  Cardinality({u \in given : price[u] <= price[t]}) >= 2}}), price, given)
<1> DEFINE Rank(t) == Cardinality({u \in given : price[u] <= price[t]})
           upper == {t \in given : Rank(t) >= 2}
           p == Min({price[s] : s \in upper})
           low == {s \in given : price[s] < p}
<1>1. given # {}
  BY FS_EmptySet
<1>2. PICK top \in given : \A s \in given : price[s] <= price[top]
  BY <1>1, PricesHaveExtremes
<1>3. {u \in given : price[u] <= price[top]} = given
  BY <1>2
<1>4. upper \in SUBSET Sources /\ upper # {}
  BY <1>3
<1>5. p \in Nat /\ p \in {price[s] : s \in upper} /\ \A s \in upper : p <= price[s]
  <2> HIDE DEF upper
  <2>1. QED
    BY <1>4, SmallestPrice
<1>6. PICK m \in upper : p = price[m]
  BY <1>5
<1>7. Cardinality({s \in given : price[s] <= p}) >= 2
  <2> HIDE DEF p
  <2>1. QED
    BY <1>6
<1>8. \A a, b \in low : a = b
  <2>1. SUFFICES ASSUME NEW a \in low, NEW b \in low, a # b, price[a] <= price[b]
                 PROVE  FALSE
    <3> HIDE DEF p
    <3>1. \A a, b \in low : price[a] <= price[b] \/ price[b] <= price[a]
      OBVIOUS
    <3>2. QED
      BY <2>1, <3>1
  <2> DEFINE below == {u \in given : price[u] <= price[b]}
  <2>2. a \in below /\ b \in below /\ below \in SUBSET given
    <3> HIDE DEF p
    <3>1. QED
      BY <2>1
  <2>3. Cardinality(below) >= 2
    <3> HIDE DEF below, p, upper, low
    <3>1. IsFiniteSet(below)
      BY <2>2, PartIsCounted
    <3>2. QED
      BY <2>1, <2>2, <3>1, AtLeastTwo
  <2>4. b \in upper
    <3> HIDE DEF p
    <3>1. QED
      BY <2>3
  <2>5. price[b] < p /\ price[b] \in Nat
    <3> HIDE DEF p
    <3>1. QED
      OBVIOUS
  <2>6. QED
    <3> HIDE DEF p, upper, low
    <3>1. QED
      BY <1>5, <2>4, <2>5
<1>9. Cardinality(low) <= 1
  <2> HIDE DEF low, p, upper
  <2>1. QED
    BY <1>8, AtMostOne
<1>10. {s \in given : price[s] >= p} = given \ low
  <2> HIDE DEF p
  <2>1. QED
    BY <1>5
<1>11. low \in SUBSET given
  OBVIOUS
<1>12. 2 * Cardinality(given \ low) >= Cardinality(given)
  <2> HIDE DEF low, p, upper
  <2>1. /\ Cardinality(given) \in Nat /\ Cardinality(low) \in Nat
        /\ Cardinality(given \ low) = Cardinality(given) - Cardinality(low)
    BY <1>11, PartIsCounted
  <2>2. QED
    BY <1>9, <2>1
<1>13. 2 * Cardinality({s \in given : price[s] <= p}) >= Cardinality(given)
  <2> DEFINE upTo == {s \in given : price[s] <= p}
  <2>1. upTo \in SUBSET given
    OBVIOUS
  <2>2. Cardinality(upTo) >= 2
    BY <1>7
  <2> HIDE DEF upTo, p, upper, low
  <2>3. 2 * Cardinality(upTo) >= Cardinality(given)
    <3>1. /\ Cardinality(given) \in Nat /\ Cardinality(upTo) \in Nat
          /\ Cardinality(given) <= 3
      BY <2>1, PartIsCounted
    <3>2. QED
      BY <2>2, <3>1
  <2>4. QED
    BY <2>3 DEF upTo
<1>14. IsMiddle(p, price, given)
  <2> HIDE DEF p, low
  <2>1. QED
    BY <1>1, <1>10, <1>12, <1>13 DEF IsMiddle
<1>15. QED
  BY <1>14

(* The mean of the smallest and the largest is a middle one of one or two.  *)
LEMMA MeanIsMiddle ==
    ASSUME NEW price \in [Sources -> Nat], NEW given \in SUBSET Sources,
           given # {}, Cardinality(given) <= 2
    PROVE  LET prices == {price[s] : s \in given}
           IN  IsMiddle((Min(prices) + Max(prices)) \div 2, price, given)
<1> DEFINE prices == {price[s] : s \in given}
           p == (Min(prices) + Max(prices)) \div 2
           low == {s \in given : price[s] <= p}
           high == {s \in given : price[s] >= p}
<1>1. /\ Min(prices) \in prices /\ Max(prices) \in prices
      /\ \A s \in given : Min(prices) <= price[s]
  BY SmallestPrice
<1>2. PICK a \in given, b \in given : Min(prices) = price[a] /\ Max(prices) = price[b]
  BY <1>1
<1>3. price[a] <= p /\ p <= price[b]
  <2>1. p = (price[a] + price[b]) \div 2
    BY <1>2
  <2>2. price[a] \in Nat /\ price[b] \in Nat /\ price[a] <= price[b]
    <3> HIDE DEF prices
    <3>1. QED
      BY <1>1, <1>2
  <2> HIDE DEF p
  <2>3. QED
    BY <2>1, <2>2
<1>4. low # {} /\ high # {} /\ low \in SUBSET given /\ high \in SUBSET given
  <2> HIDE DEF p
  <2>1. QED
    BY <1>2, <1>3
<1>5. 2 * Cardinality(low) >= Cardinality(given) /\ 2 * Cardinality(high) >= Cardinality(given)
  <2> HIDE DEF low, high, p, prices
  <2>1. /\ Cardinality(given) \in Nat /\ Cardinality(low) \in Nat /\ Cardinality(high) \in Nat
        /\ Cardinality(low) >= 1 /\ Cardinality(high) >= 1
    BY <1>4, PartIsCounted
  <2>2. QED
    BY <2>1
<1>6. IsMiddle(p, price, given)
  <2> HIDE DEF p
  <2>1. QED
    BY <1>5 DEF IsMiddle
<1>7. QED
  BY <1>6

LEMMA MedianIsMiddle ==
    ASSUME NEW price \in [Sources -> Nat], NEW given \in SUBSET Sources, given # {}
    PROVE  IsMiddle(MedianOf(given, price), price, given)
<1>1. Cardinality(given) \in Nat /\ Cardinality(given) <= 3
  BY PartIsCounted
<1>2. CASE Cardinality(given) = 3
  <2>1. MedianOf(given, price) = Min({price[s] : s \in {t \in given :
             Cardinality({u \in given : price[u] <= price[t]}) >= 2}})
    BY <1>2 DEF MedianOf
  <2>2. Cardinality(given) >= 2
    BY <1>2
  <2>3. QED
    BY <2>1, <2>2, SecondIsMiddle
<1>3. CASE Cardinality(given) <= 2
  <2> DEFINE prices == {price[s] : s \in given}
  <2>1. MedianOf(given, price) = (Min(prices) + Max(prices)) \div 2
    BY <1>3 DEF MedianOf
  <2>2. QED
    BY <1>3, <2>1, MeanIsMiddle
<1>4. QED
  BY <1>1, <1>2, <1>3

LEMMA PriceMoves ==
    ASSUME OracleTyped, OracleNext, currentPrice' # currentPrice
    PROVE  \/ IsMiddle(currentPrice', sourcePrice', Recent')
           \/ /\ UNCHANGED <<sourcePrice, sourceTime>>
              /\ \E fetched \in Reports :
                   LET answered == {s \in Sources : fetched[s] # 0}
                   IN  /\ Cardinality(answered) >= 2
                       /\ IsMiddle(currentPrice', fetched, answered)
<1>1. ASSUME NEW report \in Reports, UpdatePrice(report)
      PROVE  IsMiddle(currentPrice', sourcePrice', Recent')
  <2> DEFINE price == [s \in Sources |-> IF report[s] > 0 THEN report[s] ELSE sourcePrice[s]]
             time == [s \in Sources |-> IF report[s] > 0 THEN now ELSE sourceTime[s]]
             valid == ValidSources(price, time)
  <2>1. price \in [Sources -> Nat] /\ time \in [Sources -> Int]
    BY ReportsAreNat DEF OracleTyped
  <2>2. /\ Cardinality(valid) >= minSources /\ currentPrice' = MedianOf(valid, price)
        /\ sourcePrice' = price /\ sourceTime' = time /\ now' = now
    BY <1>1 DEF UpdatePrice
  <2>3. valid \in SUBSET Sources /\ valid # {}
    <3>1. valid \in SUBSET Sources
      BY DEF ValidSources
    <3> HIDE DEF valid
    <3>2. valid # {}
      BY <2>2, FS_EmptySet DEF OracleTyped
    <3>3. QED
      BY <3>1, <3>2
  <2>4. Recent' = valid
    <3> HIDE DEF price, time
    <3>1. /\ now \in Int /\ MaxStaleness \in Nat
          /\ \A s \in Sources : price[s] \in Nat /\ time[s] \in Int
      BY <2>1, OracleAssumption DEF OracleTyped
    <3>2. \A s \in Sources : (price[s] # 0 /\ time[s] + MaxStaleness >= now)
                             <=> (price[s] > 0 /\ now - time[s] <= MaxStaleness)
      BY <3>1
    <3>3. Recent' = {s \in Sources : price[s] # 0 /\ time[s] + MaxStaleness >= now}
      BY <2>2 DEF Recent
    <3>4. QED
      BY <3>2, <3>3 DEF ValidSources
  <2> HIDE DEF price, valid
  <2>5. QED
    BY <2>1, <2>2, <2>3, <2>4, MedianIsMiddle
<1>2. ASSUME NEW report \in Reports, KeeperRound(report)
      PROVE  /\ UNCHANGED <<sourcePrice, sourceTime>>
             /\ LET answered == {s \in Sources : report[s] # 0}
                IN  /\ Cardinality(answered) >= 2
                    /\ IsMiddle(currentPrice', report, answered)
  <2> DEFINE answered == {s \in Sources : report[s] # 0}
             valid == {s \in Sources : report[s] > 0}
  <2>1. report \in [Sources -> Nat]
    BY ReportsAreNat
  <2>2. answered = valid
    BY <2>1
  <2>3. /\ Cardinality(valid) >= 2 /\ UNCHANGED <<sourcePrice, sourceTime>>
        /\ currentPrice' = Min({report[s] : s \in {t \in valid :
                Cardinality({u \in valid : report[u] <= report[t]}) >= 2}})
    BY <1>2 DEF KeeperRound, EmergencySetPrice
  <2>4. valid \in SUBSET Sources
    OBVIOUS
  <2>5. IsMiddle(currentPrice', report, valid)
    <3> HIDE DEF valid
    <3>1. QED
      BY <2>1, <2>3, <2>4, SecondIsMiddle
  <2>6. QED
    BY <2>2, <2>3, <2>5
<1>3. ASSUME NEW n \in MinSources, SetMinSources(n) PROVE FALSE
  BY <1>3 DEF SetMinSources
<1>4. CASE Tick
  BY <1>4 DEF Tick
<1>5. QED
  BY <1>1, <1>2, <1>3, <1>4 DEF OracleNext

LEMMA MarketStepsOracle ==
    ASSUME [Next]_vars
    PROVE  [OracleNext]_oracleVars
<1>1. CASE PoolNext /\ UNCHANGED <<oracleVars, marketVars>>
  BY <1>1
<1>2. CASE OracleNext /\ UNCHANGED <<poolVars, marketVars, group>>
  BY <1>2
<1>3. ASSUME NEW b \in Buyers, NEW c \in BOOLEAN, NEW k \in Strikes,
             NEW l \in MinExpiry..MaxExpiry, NEW s \in Sizes, CreateOption(b, c, k, l, s)
      PROVE  UNCHANGED oracleVars
  BY <1>3 DEF CreateOption
<1>4. ASSUME NEW i \in DOMAIN options, SettleOption(i) PROVE UNCHANGED oracleVars
  BY <1>4 DEF SettleOption
<1>5. CASE PauseMarket
  BY <1>5 DEF PauseMarket
<1>6. ASSUME NEW x \in MarketPayments, PayMarket(x) PROVE UNCHANGED oracleVars
  BY <1>6 DEF PayMarket
<1>7. CASE UNCHANGED vars
  BY <1>7 DEF vars
<1>8. QED
  BY <1>1, <1>2, <1>3, <1>4, <1>5, <1>6, <1>7 DEF Next

(* Whoever calls, and whenever, the price changes only to a middle one of   *)
(* recent quotes (oracle.py:337, :308; keeper_oracle.py:150): of the oracle *)
(* by itself, and of the oracle inside the options market.                  *)
THEOREM PricesAreMiddle == (OracleSpec => PriceIsMiddle) /\ (Spec => PriceIsMiddle)
<1> DEFINE Moved ==
      currentPrice' # currentPrice =>
         \/ IsMiddle(currentPrice', sourcePrice', Recent')
         \/ /\ UNCHANGED <<sourcePrice, sourceTime>>
            /\ \E fetched \in Reports :
                 LET answered == {s \in Sources : fetched[s] # 0}
                 IN  /\ Cardinality(answered) >= 2
                     /\ IsMiddle(currentPrice', fetched, answered)
<1>1. OracleInit => OracleTyped
  BY OracleAssumption DEF OracleInit, OracleTyped
<1>2. OracleTyped /\ [OracleNext]_oracleVars => OracleTyped'
  BY OracleStep DEF OracleTyped, oracleVars
<1>3. OracleTyped /\ [OracleNext]_oracleVars => [Moved]_oracleVars
  BY PriceMoves
<1>4. Init => IInv
  BY InitHolds
<1>5. IInv /\ [Next]_vars => IInv'
  BY EveryStep DEF StepKept
<1>6. IInv /\ [Next]_vars => OracleTyped /\ [OracleNext]_oracleVars
  BY MarketStepsOracle DEF IInv
<1>7. QED
  BY <1>1, <1>2, <1>3, <1>4, <1>5, <1>6, PTL DEF OracleSpec, Spec, PriceIsMiddle
=============================================================================
