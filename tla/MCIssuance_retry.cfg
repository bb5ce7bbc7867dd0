SPECIFICATION Spec
CONSTANTS
    a1 = a1
    a2 = a2
    d1 = d1
    d2 = d2
    r1 = r1
    r2 = r2
    NoLock = NoLock
    NoDeposit = NoDeposit
    NoAsset = NoAsset
    NoVaultId = NoVaultId
    Assets = {a1, a2}
    Deposits = {d1, d2}
    DepositOf <- OwnDeposit
    UsdcOf <- SendsOne
    PledgedUsdc <- OneUsdc
    Requests = {r1}
    Vaults = {1}
    Events = {"die"}
    MaxLock = 1
    MaxEscrowUsdc = 2
    MaxPayouts = 2
    Supply = 2
    AdminFloat = 1
    MaxDispense = 2
    Buffer = 0
INVARIANT OnePayoutPerLock
CHECK_DEADLOCK FALSE
