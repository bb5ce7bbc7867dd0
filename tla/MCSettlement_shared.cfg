SPECIFICATION Spec
CONSTANTS
    Orders = {o1}
    Accounts = {admin, seller}
    Admin = admin
    Seller = seller
    Order = o1
    Direct = {}
    NoHold = NoHold
    NoTrade = NoTrade
    NoTx = NoTx
    OrderOf <- MCOrderOf
    SellerOf <- MCSellerOf
    UsdcAmount <- MCUsdcAmount
    FeeDivisor = 400
    MinFee = 1
    MaxAmount = 2
    MaxRecorded = 2
    MaxUsdc = 2
    Trades = {t1, t2}
    Runs = {r1, r2}
    Txs = {x1, x2}
    MaxDeliveries = 1
    MaxRetries = 2
    SellerTokens = 2
    Faults = {"crash", "net", "db", "lookup"}
SYMMETRY SymAll
INVARIANTS
    SettledIsOnChain
    DeliveryVersusPayment
    PayoutsWithinLocks
PROPERTY ImplementsLedger
CHECK_DEADLOCK FALSE
