SPECIFICATION Spec
CONSTANTS
    a1 = a1
    a2 = a2
    d1 = d1
    d2 = d2
    r1 = r1
    r2 = r2
    NoLock = NoLock
    NoDeposit = NoDeposit
    NoAsset = NoAsset
    NoVaultId = NoVaultId
    Assets = {a1}
    Deposits = {d1}
    DepositOf <- OwnDeposit
    UsdcOf <- SendsTwo
    PledgedUsdc <- OneUsdc
    Requests = {r1, r2}
    Vaults = {1, 2}
    Events = {"die", "dispense"}
    MaxLock = 2
    MaxEscrowUsdc = 2
    MaxPayouts = 2
    Supply = 2
    AdminFloat = 1
    MaxDispense = 2
    Buffer = 0
INVARIANTS StatusTellsPayment RowNamesReadyVault 
PROPERTIES ImplementsAssetLife NotedIsFinal
CHECK_DEADLOCK FALSE
