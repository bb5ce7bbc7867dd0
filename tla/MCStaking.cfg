SPECIFICATION MCSpec
CONSTANTS
    MaxGroupCalls = 2
    u1 = u1
    u2 = u2
    app = app
    adm = adm
    Holders = {u1, u2, adm, app}
    Beneficiaries = {u1, u2}
    StakingApp = app
    Admin = adm
    TotalSupply = 8
    Mints = {4}
    Burnt = {4, 8}
    Transfers = {4, 8}
    Vestings <- OneVesting
    MaxUint = 400
    MaxMinted = 10
    TimeStep = 10
    MaxTime = 11
    Stakes = {4}
    LockDays = {0, 10}
    Rewards = {14}
    Precision = 10
    Period = 7
    TxnFee = 7
    StakingFunds = 12
    StakingMinBalance = 10
    StakeBoxRent = 2
    MaxAlgo = 26
    MaxRewards = 14
INVARIANTS ShortfallIsCompounded CirculationAccounted
SYMMETRY StakerSymmetry
PROPERTIES LockKept
CHECK_DEADLOCK FALSE
