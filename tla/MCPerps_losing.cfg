SPECIFICATION MCSpec
CONSTANTS
    a2 = a2
    a1 = a1
    t1 = t1
    LPs = {a1}
    MaxGroupCalls = 2
    PoolPayments = {10000}
    MinDeposit = 10000
    Withdrawals = {4995, 9990}
    DepositFee = 10
    WithdrawFee = 10
    TxnFee = 1
    PoolFunds = 300
    PoolMinBalance = 200
    TradingFees = {5000}
    MaxPoolTxns = 4
    MaxPoolBalance = 20300
    Traders = {t1}
    Sizes = {20000}
    Leverages = {2000}
    MarketPayments = {450, 1000}
    MaxMarketBalance = 2430
    MarginMoves = {450}
    Prices = {96, 100}
    Maintenances = {250, 300}
    MaxPositions = 2
    MaxCollateral = 1000
    MinMargin = 1000
    OpenFee = 10
    CloseFee = 10
    LiquidatorReward = 50
    MinOperational = 1000
    ReserveTarget = 2390
    MarketFunds = 1400
    MarketMinBalance = 100
    BoxRent = 50
INVARIANT LosingTraderMayClose
CHECK_DEADLOCK FALSE
