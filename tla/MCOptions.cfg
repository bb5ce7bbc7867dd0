SPECIFICATION MCSpec
CONSTANTS
    a1 = a1
    a2 = a2
    b1 = b1
    s1 = s1
    s2 = s2
    s3 = s3
    LPs = {a1, a2}
    MaxGroupCalls = 2
    PoolPayments = {10000}
    MinDeposit = 10000
    MaxPoolBalance = 20300
    Burns = {4995, 9990}
    DepositFee = 10
    WithdrawFee = 10
    TxnFee = 1
    PoolFunds = 300
    PoolMinBalance = 200
    LpBoxRent = 30
    MaxPoolTxns = 5
    Sources = {s1, s2, s3}
    Quotes = {100, 104, 110}
    Reports <- SomeReports
    MinSources = {1, 2, 3}
    MaxStaleness = 1
    MaxDeviation = 500
    MaxTime = 4
    Buyers = {b1}
    Strikes = {105}
    Sizes = {20000}
    MarketPayments = {100, 18234, 19097}
    MaxMarketBalance = 19700
    MinExpiry = 1
    MaxExpiry = 1
    Precision = 1000
    TradingFee = 30
    MinOperational = 1000
    ReserveTarget = 2000
    MarketFunds = 500
    MarketMinBalance = 100
    BoxRent = 47
    MaxOptions = 2
INVARIANTS PoolCoversBooks SharesAccounted
PROPERTIES NoDilution PriceIsMiddle
SYMMETRY LpSymmetry
CHECK_DEADLOCK FALSE
