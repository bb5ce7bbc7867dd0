SPECIFICATION FairSpec
CONSTANTS
    a1 = a1
    a2 = a2
    d1 = d1
    d2 = d2
    r1 = r1
    r2 = r2
    NoLock = NoLock
    NoDeposit = NoDeposit
    NoAsset = NoAsset
    NoVaultId = NoVaultId
    Assets = {a1, a2}
    Deposits = {d1, d2}
    DepositOf <- SharedDeposit
    UsdcOf <- SendsOne
    PledgedUsdc <- OneUsdc
    Requests = {r1}
    Vaults = {1, 2}
    Events = {"pause", "dispense", "distribute"}
    MaxLock = 1
    MaxEscrowUsdc = 2
    MaxPayouts = 2
    Supply = 2
    AdminFloat = 1
    MaxDispense = 2
    Buffer = 0
INVARIANTS OnePayoutPerLock LocksCovered
PROPERTY EventuallyListed
CHECK_DEADLOCK FALSE
