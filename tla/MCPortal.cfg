INIT MCInit
NEXT MCNext
CONSTANTS
    u1 = u1
    u2 = u2
    h1 = h1
    h2 = h2
    w1 = w1
    id0 = id0
    id1 = id1
    id2 = id2
    t1 = t1
    t2 = t2
    i1 = i1
    i2 = i2
    a1 = a1
    a2 = a2
    KycUsers = {u1, u2}
    Handlers = {h1, h2}
    NoProfile = NoProfile
    Tiers = {1}
    MaxApplicants = 2
    Wallets = {w1}
    AssetIds = {id0, id1}
    Identity0 = id0
    NoRow = NoRow
    NoBox = NoBox
    Absent = Absent
    AnnualLimit <- MCAnnualLimit
    Unit = 2
    MinInvestment = 2
    Products = {1, 4, 7}
    Ends = {0, 2}
    MaxTime = 3
    Traders = {t1, t2}
    NoTrader = NoTrader
    NoQuote = NoQuote
    MaxSpend = 1
    MaxAnswers = 2
    Tickers = {id1, id2}
    Issuers = {i1, i2}
    NoIssuer = NoIssuer
    NoAttempt = NoAttempt
    MaxAmount = 2
    MaxDeposits = 2
    Admins = {a1, a2}
    NoAsset0 = NoAsset0
    NoReview = NoReview
    LastStage = 2
    MaxCalls = 2
    DeskWallets = {i1, i2}
    NoWallet = NoWallet
    SignRequests = {"first", "second"}
    MaxSockets = 3
    MaxUploads = 2
    Deployers = {h1}
    Day = 2
    LastTick = 3
    LastPrice = 2
    MaxRows = 2
    MaxTrades = 3
    LastMinute = 2
    MinutesOfDay = 1
    MaxBars = 2
INVARIANTS
    VettedBeforeTrusted
    BuyerWasChecked
    OneMoveAtATime
    DepositMatchesApplication
    ReturnsAreConfirmed
    SignedByOwner
    HashIsVerifiable
    ChangeSpansADay
    PricesOfTheirTime
PROPERTY
    ApprovedOnLiveGrant
CHECK_DEADLOCK FALSE
