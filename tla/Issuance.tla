------------------------------ MODULE Issuance ------------------------------
(***************************************************************************)
(* The asset service (services/asset/src/asset/asset.service.ts) and the   *)
(* two contracts it drives: an issuer's application, its verification, the *)
(* deployment of the ASA with its vault, and the activation of its market. *)
(*                                                                         *)
(* Every HTTP request is an asynchronous task: it reads the asset's row    *)
(* once, then performs one confirmed transaction or one database write per *)
(* step.  Nothing serialises the requests of one asset, and nothing undoes *)
(* or resumes a request that dies half-way.                                *)
(***************************************************************************)
EXTENDS IssuanceEscrow, TokenVault, Functions

CONSTANTS
    Deposits,       \* ids of the issuers' USDC transfers to the escrow
    NoDeposit,
    DepositOf,      \* asset -> liquidityDepositTxId of its application
    PledgedUsdc,    \* asset -> liquidityDepositUsdc, 0 when there is none
    UsdcOf,         \* deposit -> what it transfers
    Requests,       \* bound: requests that are in progress together
    NoAsset,
    AdminFloat,     \* USDC in the admin wallet at the start
    MaxDispense,    \* cap of one call of the testnet dispenser
    Buffer,         \* what the dispenser leaves in the admin wallet
    NoVaultId,
    Events          \* what may happen around the service, see EventKinds

EventKinds == {"die",       \* a request ends at any step: a node call fails or
                            \* its reply is lost, a write fails, a restart
               "pause",     \* the admin pauses the escrow contract
               "dispense",  \* somebody uses the testnet dispenser
               "distribute"}\* an admin distributes from a vault by hand

VARIABLES
    requests,       \* request -> what it does and what it has read
    rows,           \* asset -> its row in the Asset table
    deposited,      \* deposits confirmed on chain
    minted,         \* ASA (named like its vault) -> the asset it is for
    pools,          \* ASA -> "none", "empty" or "seeded" Tinyman pool
    adminHolds,     \* ASA -> its tokens and its LP tokens in the admin wallet
    adminUsdc,
    issuerTokens    \* asset -> tokens transferred to the issuer

chainVars == <<issuanceEscrowVars, vaults, deposited, minted, pools,
               adminHolds, adminUsdc, issuerTokens>>
vars == <<requests, rows, chainVars>>

ASSUME IssuanceAssumption ==
    /\ IsFiniteSet(Assets) /\ IsFiniteSet(Deposits)
    /\ NoDeposit \notin Deposits
    /\ DepositOf \in [Assets -> Deposits \cup {NoDeposit}]
    /\ PledgedUsdc \in [Assets -> 0..MaxLock]
    /\ UsdcOf \in [Deposits -> 0..MaxLock]
    /\ NoAsset \notin Assets
    /\ NoVaultId \notin Vaults
    /\ Supply > 0
    /\ AdminFloat \in Nat /\ MaxDispense \in Nat /\ Buffer \in Nat
    /\ Events \subseteq EventKinds

-----------------------------------------------------------------------------
AssetStatus == {"NONE", "SUBMITTED", "PRE_MARKET", "ACTIVE", "REJECTED"}
Verification == {"PENDING", "APPROVED", "REJECTED"}
EscrowStatus == {"NONE", "PENDING", "RELEASED_TO_VAULT", "RETURNED_TO_ISSUER"}

PC == {"idle", "record", "mint", "vault", "optin", "supply", "usdc", "deployed",
       "release", "released", "withdraw", "withdrawUsdc", "bootstrap", "seed",
       "lp", "sendlp", "list", "reject", "return", "returned", "distribute"}

Row == [status: AssetStatus, verification: Verification,
        vault: Vaults \cup {NoVaultId}, escrow: EscrowStatus]

(* escrow and vault: the row's columns as the request read them, and for   *)
(* deployAsaToMainnet the ASA it has minted.                               *)
Request == [pc: PC, asset: Assets \cup {NoAsset},
            vault: Vaults \cup {NoVaultId}, escrow: EscrowStatus]

NoRow == [status |-> "NONE", verification |-> "PENDING",
          vault |-> NoVaultId, escrow |-> "NONE"]

Idle == [pc |-> "idle", asset |-> NoAsset, vault |-> NoVaultId, escrow |-> "NONE"]

(* The guards of deployAsaToMainnet. *)
Deployable(a) == rows[a].verification = "APPROVED" /\ rows[a].vault = NoVaultId

Init ==
    /\ IssuanceEscrowInit
    /\ VaultInit
    /\ requests = [r \in Requests |-> Idle]
    /\ rows = [a \in Assets |-> NoRow]
    /\ deposited = {}
    /\ minted = [v \in Vaults |-> NoAsset]
    /\ pools = [v \in Vaults |-> "none"]
    /\ adminHolds = [v \in Vaults |-> [tokens |-> 0, lp |-> 0]]
    /\ adminUsdc = AdminFloat
    /\ issuerTokens = [a \in Assets |-> 0]

-----------------------------------------------------------------------------
(* A handler reads the row and goes to its first step. *)
Begin(r, a, pc) ==
    /\ requests[r].pc = "idle"
    /\ rows[a].status # "NONE"
    /\ requests' = [requests EXCEPT ![r] =
           [pc |-> pc, asset |-> a, vault |-> rows[a].vault,
            escrow |-> rows[a].escrow]]

At(r, pc)   == requests[r].pc = pc
Goto(r, pc) == requests' = [requests EXCEPT ![r].pc = pc]
Done(r)     == requests' = [requests EXCEPT ![r] = Idle]
Asset(r)    == requests[r].asset
VaultOf(r)  == requests[r].vault

(* A database write of a request; what its transactions leave alone. *)
Write(a, row) == rows' = [rows EXCEPT ![a] = row]
outsideEscrow == <<rows, vaults, deposited, minted, pools, adminHolds,
                   adminUsdc, issuerTokens>>
outsideVaults == <<rows, issuanceEscrowVars, deposited, minted, pools,
                   adminUsdc, issuerTokens>>

(* The transaction is rejected, and the handler ends with an error. *)
Fails(r, pc, possible) ==
    /\ At(r, pc)
    /\ ~possible
    /\ Done(r)
    /\ UNCHANGED <<rows, chainVars>>

-----------------------------------------------------------------------------
(* createAsset *)

(* A bug verifyLiquidityDeposit could have: any transaction id will do. *)
DepositVerified_AnyId(a) == DepositOf[a] # NoDeposit

(* verifyLiquidityDeposit finds the transfer confirmed, by this issuer, to *)
(* the escrow, and not smaller than pledged.  It may be one that another   *)
(* application names too.                                                  *)
DepositVerified(a) ==
    DepositOf[a] \in deposited /\ UsdcOf[DepositOf[a]] >= PledgedUsdc[a]

Tracked(a) == DepositOf[a] # NoDeposit /\ PledgedUsdc[a] > 0

CreateAsset(r, a) ==
    /\ requests[r].pc = "idle"
    /\ rows[a].status = "NONE"
    /\ Tracked(a) => DepositVerified(a)
    /\ Write(a, [NoRow EXCEPT !.status = "SUBMITTED",
                              !.escrow = IF PledgedUsdc[a] > 0 THEN "PENDING" ELSE "NONE"])
    /\ requests' = [requests EXCEPT ![r] =
           IF Tracked(a) THEN [Idle EXCEPT !.pc = "record", !.asset = a] ELSE Idle]
    /\ UNCHANGED chainVars

RecordLock(r) ==
    /\ At(r, "record")
    /\ RecordIssuanceLock(Asset(r), PledgedUsdc[Asset(r)])
    /\ Done(r)
    /\ UNCHANGED outsideEscrow

(* The failure is logged and swallowed; the asset has no lock. *)
RecordLockFails(r) == Fails(r, "record", MayRecordLock(Asset(r)))

(* scripts/fix-escrow-boxes.ts, for an asset whose lock was not recorded. *)
RecordByHand(a) ==
    /\ rows[a].escrow = "PENDING"
    /\ Tracked(a) /\ DepositVerified(a)
    /\ RecordIssuanceLock(a, PledgedUsdc[a])
    /\ UNCHANGED <<requests, outsideEscrow>>

-----------------------------------------------------------------------------
(* deployAsaToMainnet: createRwaToken, deployTokenVault (create, fund and  *)
(* opt in and unfreeze, transfer the supply), optVaultIntoUsdc, then one   *)
(* write of everything.                                                    *)
BeginDeploy(r, a) ==
    /\ Deployable(a)
    /\ Begin(r, a, "mint")
    /\ UNCHANGED <<rows, chainVars>>

(* A bug the handler could have: the row gets the new ids at once. *)
Mint_SavesRow(r) ==
    /\ At(r, "mint")
    /\ \E v \in Vaults :
           /\ minted[v] = NoAsset
           /\ minted' = [minted EXCEPT ![v] = Asset(r)]
           /\ adminHolds' = [adminHolds EXCEPT ![v].tokens = Supply]
           /\ requests' = [requests EXCEPT ![r].pc = "vault", ![r].vault = v]
           /\ Write(Asset(r), [rows[Asset(r)] EXCEPT !.vault = v])
    /\ UNCHANGED <<issuanceEscrowVars, vaults, deposited, pools,
                   adminUsdc, issuerTokens>>

Mint(r) ==
    /\ At(r, "mint")
    /\ \E v \in Vaults :
           /\ minted[v] = NoAsset
           /\ minted' = [minted EXCEPT ![v] = Asset(r)]
           /\ adminHolds' = [adminHolds EXCEPT ![v].tokens = Supply]
           /\ requests' = [requests EXCEPT ![r].pc = "vault", ![r].vault = v]
    /\ UNCHANGED <<rows, issuanceEscrowVars, vaults, deposited, pools,
                   adminUsdc, issuerTokens>>

DeployVault(r) ==
    /\ At(r, "vault")
    /\ CreateVault(VaultOf(r))
    /\ Goto(r, "optin")
    /\ UNCHANGED <<adminHolds, outsideVaults>>

OptIntoAsset(r) ==
    /\ At(r, "optin")
    /\ OptInVault(VaultOf(r), "rwa")
    /\ Goto(r, "supply")
    /\ UNCHANGED <<adminHolds, outsideVaults>>

MoveSupply(r) ==
    /\ At(r, "supply")
    /\ adminHolds[VaultOf(r)].tokens >= Supply
    /\ ReceiveInVault(VaultOf(r), "rwa", Supply)
    /\ adminHolds' = [adminHolds EXCEPT ![VaultOf(r)].tokens = @ - Supply]
    /\ Goto(r, "usdc")
    /\ UNCHANGED outsideVaults

OptIntoUsdc(r) ==
    /\ At(r, "usdc")
    /\ OptInVault(VaultOf(r), "usdc")
    /\ Goto(r, "deployed")
    /\ UNCHANGED <<adminHolds, outsideVaults>>

SaveDeployed(r) ==
    /\ At(r, "deployed")
    /\ Write(Asset(r), [rows[Asset(r)] EXCEPT !.vault = VaultOf(r),
                                              !.status = "PRE_MARKET"])
    /\ Done(r)
    /\ UNCHANGED chainVars

-----------------------------------------------------------------------------
(* approveVerification, and addVerificationStage with stage 5 APPROVED: no *)
(* condition on the row.  (An APPROVED stage 1 to 4 is only logged.)       *)
Approve(a) ==
    /\ rows[a].status # "NONE"
    /\ Write(a, [rows[a] EXCEPT !.verification = "APPROVED"])
    /\ UNCHANGED <<requests, chainVars>>

(* addVerificationStage with REJECTED, at any stage and in any status. *)
BeginReject(r, a) ==
    /\ Begin(r, a, "reject")
    /\ UNCHANGED <<rows, chainVars>>

ReturnWanted(r) == requests[r].escrow = "PENDING"

Reject(r) ==
    /\ At(r, "reject")
    /\ Write(Asset(r), [rows[Asset(r)] EXCEPT !.verification = "REJECTED",
                                              !.status = "REJECTED"])
    /\ IF ReturnWanted(r) THEN Goto(r, "return") ELSE Done(r)
    /\ UNCHANGED chainVars

ReturnLiquidity(r) ==
    /\ At(r, "return")
    /\ ReturnToIssuer(Asset(r))
    /\ Goto(r, "returned")
    /\ UNCHANGED outsideEscrow

(* The failure is logged and swallowed. *)
ReturnFails(r) == Fails(r, "return", MayReturn(Asset(r)))

SaveReturned(r) ==
    /\ At(r, "returned")
    /\ Write(Asset(r), [rows[Asset(r)] EXCEPT !.escrow = "RETURNED_TO_ISSUER"])
    /\ Done(r)
    /\ UNCHANGED chainVars

-----------------------------------------------------------------------------
(* activateMarket *)

(* A bug the handler could have: it releases whatever the row notes. *)
FirstActivationStep_Always(a) == "release"

FirstActivationStep(a) ==
    IF rows[a].escrow = "PENDING" THEN "release" ELSE "withdraw"

BeginActivate(r, a) ==
    /\ rows[a].status = "PRE_MARKET"
    /\ rows[a].vault # NoVaultId
    /\ PledgedUsdc[a] > 0
    /\ Begin(r, a, FirstActivationStep(a))
    /\ UNCHANGED <<rows, chainVars>>

CanRelease(r) == MayRelease(Asset(r)) /\ CanReceive(VaultOf(r), "usdc")

Release(r) ==
    /\ At(r, "release")
    /\ CanRelease(r)
    /\ ReleaseToVault(Asset(r))
    /\ ReceiveInVault(VaultOf(r), "usdc", issuanceLocks[Asset(r)].amount)
    /\ Goto(r, "released")
    /\ UNCHANGED <<rows, deposited, minted, pools, adminHolds, adminUsdc, issuerTokens>>

ReleaseFails(r) == Fails(r, "release", CanRelease(r))

(* A bug the handler could have: it forgets to note the release. *)
SaveReleased_Forgotten(r) ==
    /\ At(r, "released")
    /\ Goto(r, "withdraw")
    /\ UNCHANGED <<rows, chainVars>>

SaveReleased(r) ==
    /\ At(r, "released")
    /\ Write(Asset(r), [rows[Asset(r)] EXCEPT !.escrow = "RELEASED_TO_VAULT"])
    /\ Goto(r, "withdraw")
    /\ UNCHANGED chainVars

WithdrawTokens(r) ==
    /\ At(r, "withdraw")
    /\ WithdrawForPool(VaultOf(r), "rwa", Supply)
    /\ adminHolds' = [adminHolds EXCEPT ![VaultOf(r)].tokens = @ + Supply]
    /\ Goto(r, "withdrawUsdc")
    /\ UNCHANGED outsideVaults

WithdrawTokensFails(r) ==
    Fails(r, "withdraw", Holds(VaultOf(r), "rwa") >= Supply)

(* A bug the handler could have: the failure is only logged, and the pool  *)
(* is seeded from the admin wallet's own USDC.                             *)
WithdrawUsdcFails_Ignored(r) ==
    /\ At(r, "withdrawUsdc")
    /\ Holds(VaultOf(r), "usdc") < PledgedUsdc[Asset(r)]
    /\ Goto(r, "bootstrap")
    /\ UNCHANGED <<rows, chainVars>>

WithdrawUsdcFails(r) ==
    Fails(r, "withdrawUsdc", Holds(VaultOf(r), "usdc") >= PledgedUsdc[Asset(r)])

WithdrawUsdc(r) ==
    /\ At(r, "withdrawUsdc")
    /\ WithdrawForPool(VaultOf(r), "usdc", PledgedUsdc[Asset(r)])
    /\ adminUsdc' = adminUsdc + PledgedUsdc[Asset(r)]
    /\ Goto(r, "bootstrap")
    /\ UNCHANGED <<rows, issuanceEscrowVars, deposited, minted, pools,
                   adminHolds, issuerTokens>>

(* bootstrapTinymanPool: a pool is made once per pair of assets (a second  *)
(* attempt never gets here: the vault is empty) ...                        *)
BootstrapPool(r) ==
    /\ At(r, "bootstrap")
    /\ pools[VaultOf(r)] = "none"
    /\ pools' = [pools EXCEPT ![VaultOf(r)] = "empty"]
    /\ Goto(r, "seed")
    /\ UNCHANGED <<rows, issuanceEscrowVars, vaults, deposited, minted,
                   adminHolds, adminUsdc, issuerTokens>>

(* ... and seeded from the admin wallet, which gets all the LP tokens.     *)
CanSeed(r) ==
    /\ adminHolds[VaultOf(r)].tokens >= Supply
    /\ adminUsdc >= PledgedUsdc[Asset(r)]

SeedPool(r) ==
    /\ At(r, "seed")
    /\ CanSeed(r)
    /\ pools' = [pools EXCEPT ![VaultOf(r)] = "seeded"]
    /\ adminHolds' = [adminHolds EXCEPT ![VaultOf(r)].tokens = @ - Supply,
                                        ![VaultOf(r)].lp = @ + 1]
    /\ adminUsdc' = adminUsdc - PledgedUsdc[Asset(r)]
    /\ Goto(r, "lp")
    /\ UNCHANGED <<rows, issuanceEscrowVars, vaults, deposited, minted, issuerTokens>>

SeedFails(r) == Fails(r, "seed", CanSeed(r))

OptIntoLp(r) ==
    /\ At(r, "lp")
    /\ OptInVault(VaultOf(r), "lp")
    /\ Goto(r, "sendlp")
    /\ UNCHANGED <<adminHolds, outsideVaults>>

(* All the LP tokens the admin wallet had when the pool was seeded. *)
SendLp(r) ==
    /\ At(r, "sendlp")
    /\ ReceiveInVault(VaultOf(r), "lp", adminHolds[VaultOf(r)].lp)
    /\ adminHolds' = [adminHolds EXCEPT ![VaultOf(r)].lp = 0]
    /\ Goto(r, "list")
    /\ UNCHANGED outsideVaults

(* A bug the last write could have: the status is left out. *)
List_StatusForgotten(r) ==
    /\ At(r, "list")
    /\ Done(r)
    /\ UNCHANGED <<rows, chainVars>>

List(r) ==
    /\ At(r, "list")
    /\ Write(Asset(r), [rows[Asset(r)] EXCEPT !.status = "ACTIVE"])
    /\ Done(r)
    /\ UNCHANGED chainVars

-----------------------------------------------------------------------------
(* distributeTokens: from the admin wallet, whatever the tokens in it are  *)
(* for; the amount comes from the request.                                 *)
BeginDistribute(r, a) ==
    /\ rows[a].status = "PRE_MARKET"
    /\ rows[a].vault # NoVaultId
    /\ Begin(r, a, "distribute")
    /\ UNCHANGED <<rows, chainVars>>

Distribute(r) ==
    /\ At(r, "distribute")
    /\ \E amount \in 1..adminHolds[VaultOf(r)].tokens :
           /\ adminHolds' = [adminHolds EXCEPT ![VaultOf(r)].tokens = @ - amount]
           /\ issuerTokens' = [issuerTokens EXCEPT ![Asset(r)] = @ + amount]
    /\ Done(r)
    /\ UNCHANGED <<rows, issuanceEscrowVars, vaults, deposited, minted, pools, adminUsdc>>

(* Too little in the wallet, or an issuer who has not opted in. *)
DistributeFails(r) == Fails(r, "distribute", FALSE)

(* vaultDistributeToIssuer, which no handler calls: an admin's script may. *)
DistributeFromVault(a) ==
    /\ "distribute" \in Events
    /\ rows[a].vault # NoVaultId
    /\ \E amount \in 1..Supply :
           /\ DistributeToIssuer(rows[a].vault, amount)
           /\ issuerTokens' = [issuerTokens EXCEPT ![a] = @ + amount]
    /\ UNCHANGED <<requests, rows, issuanceEscrowVars, deposited, minted,
                   pools, adminHolds, adminUsdc>>

(* All that is above the buffer, but never more than the cap. *)
DispenseAmount ==
    IF adminUsdc - Buffer < MaxDispense THEN adminUsdc - Buffer ELSE MaxDispense

(* dispenseTestnetUsdc: anybody gets USDC of the admin wallet. *)
Dispense ==
    /\ "dispense" \in Events
    /\ adminUsdc > Buffer
    /\ adminUsdc' = adminUsdc - DispenseAmount
    /\ UNCHANGED <<requests, rows, issuanceEscrowVars, vaults, deposited,
                   minted, pools, adminHolds, issuerTokens>>

(* An issuer's wallet sends USDC to the escrow. *)
Deposit(d) ==
    /\ d \notin deposited
    /\ IssuerDeposit(UsdcOf[d])
    /\ deposited' = deposited \cup {d}
    /\ UNCHANGED <<requests, rows, vaults, minted, pools, adminHolds,
                   adminUsdc, issuerTokens>>

SetUpEscrow ==
    /\ ~escrowOptedIn
    /\ EscrowOptIntoUsdc
    /\ UNCHANGED <<requests, outsideEscrow>>

PauseOrUnpause ==
    /\ "pause" \in Events
    /\ PauseEscrow(~escrowPaused)
    /\ UNCHANGED <<requests, outsideEscrow>>

Die(r) ==
    /\ "die" \in Events
    /\ requests[r].pc # "idle"
    /\ Done(r)
    /\ UNCHANGED <<rows, chainVars>>

Step(r) ==
    \/ RecordLock(r) \/ RecordLockFails(r)
    \/ Mint(r) \/ DeployVault(r) \/ OptIntoAsset(r) \/ MoveSupply(r)
    \/ OptIntoUsdc(r) \/ SaveDeployed(r)
    \/ Reject(r) \/ ReturnLiquidity(r) \/ ReturnFails(r) \/ SaveReturned(r)
    \/ Release(r) \/ ReleaseFails(r) \/ SaveReleased(r)
    \/ WithdrawTokens(r) \/ WithdrawTokensFails(r)
    \/ WithdrawUsdc(r) \/ WithdrawUsdcFails(r)
    \/ BootstrapPool(r) \/ SeedPool(r) \/ SeedFails(r)
    \/ OptIntoLp(r) \/ SendLp(r) \/ List(r)
    \/ Distribute(r) \/ DistributeFails(r)

Arrive(r, a) ==
    \/ CreateAsset(r, a) \/ BeginDeploy(r, a) \/ BeginReject(r, a)
    \/ BeginActivate(r, a) \/ BeginDistribute(r, a)

Next ==
    \/ \E r \in Requests, a \in Assets : Arrive(r, a)
    \/ \E r \in Requests : Step(r) \/ Die(r)
    \/ \E a \in Assets : Approve(a) \/ RecordByHand(a) \/ DistributeFromVault(a)
    \/ \E d \in Deposits : Deposit(d)
    \/ SetUpEscrow \/ PauseOrUnpause \/ Dispense

Spec == Init /\ [][Next]_vars

(* A request that has arrived goes on: the event loop runs it and the node *)
(* answers.                                                                *)
FairSpec == Spec /\ \A r \in Requests : WF_vars(Step(r))
-----------------------------------------------------------------------------
(* Type correctness of the rows, the requests and what is on chain. *)
TypeOK ==
    /\ IssuanceEscrowTypeOK
    /\ vaults \in [Vaults -> Vault]
    /\ requests \in [Requests -> Request]
    /\ rows \in [Assets -> Row]
    /\ deposited \subseteq Deposits
    /\ minted \in [Vaults -> Assets \cup {NoAsset}]
    /\ pools \in [Vaults -> {"none", "empty", "seeded"}]
    /\ adminHolds \in [Vaults -> [tokens: Nat, lp: Nat]]
    /\ adminUsdc \in Nat
    /\ issuerTokens \in [Assets -> Nat]

(* issuanceEscrowStatus never claims a payment that has not been made,     *)
(* whatever requests interleave and wherever they die: each handler writes *)
(* it after its transaction has confirmed.                                 *)
EscrowColumnTrue ==
    \A a \in Assets :
        /\ rows[a].escrow = "RELEASED_TO_VAULT" => released[a] > 0
        /\ rows[a].escrow = "RETURNED_TO_ISSUER" => returned[a] > 0

(* A row that names a vault names one that is complete: made for an ASA of *)
(* this asset, and able to hold the ASA and USDC (deployAsaToMainnet saves *)
(* nothing until all its transactions have confirmed).                     *)
RowNamesReadyVault ==
    \A a \in Assets, v \in Vaults : rows[a].vault = v =>
        /\ minted[v] = a
        /\ {"rwa", "usdc"} \subseteq vaults[v].optedIn

(* An ACTIVE asset has a seeded pool whose LP tokens are in a vault of the *)
(* asset, even when deployments and activations overlap.                   *)
ListedIsSeeded ==
    \A a \in Assets : rows[a].status = "ACTIVE" =>
        \E v \in Vaults : minted[v] = a /\ pools[v] = "seeded" /\ Holds(v, "lp") > 0

(* AssetLife, seen in the service's rows and on chain. *)
PaidTo(a) == (IF released[a] > 0 THEN {"vault"} ELSE {})
                 \cup (IF returned[a] > 0 THEN {"issuer"} ELSE {})

Noted(row) == CASE row.escrow = "RELEASED_TO_VAULT"  -> "vault"
                []  row.escrow = "RETURNED_TO_ISSUER" -> "issuer"
                []  OTHER -> "none"

HasMarket(a) ==
    \E v \in Vaults : minted[v] = a /\ pools[v] = "seeded" /\ Holds(v, "lp") > 0

paidBar   == [a \in Assets |-> PaidTo(a)]
notedBar  == [a \in Assets |-> Noted(rows[a])]
fundedBar == {a \in Assets : HasMarket(a)}
listedBar == {a \in Assets : rows[a].status = "ACTIVE"}

Life == INSTANCE AssetLife WITH
    paid <- paidBar, noted <- notedBar, funded <- fundedBar, listed <- listedBar

(* However requests overlap and wherever they die, the service implements  *)
(* AssetLife: every market is made with its own asset's deposit (the USDC  *)
(* that activateMarket withdraws from the vault came from a release), rows *)
(* tell of payments after they are made, and listing comes last.           *)
ImplementsAssetLife == Life!Spec

(* What each lock that has not paid yet is worth, what one has paid beyond *)
(* its worth, and what the locks cite of a deposit beyond what it is.      *)
Owed(a) == IF Recorded(a) /\ Payouts(a) = 0 THEN issuanceLocks[a].amount ELSE 0

PaidAgain(a) == IF Payouts(a) > 1 THEN (Payouts(a) - 1) * issuanceLocks[a].amount ELSE 0

Cites(a, d) == IF Recorded(a) /\ DepositOf[a] = d THEN issuanceLocks[a].amount ELSE 0

CitedBeyond(d) ==
    LET cited == SumFunction([a \in Assets |-> Cites(a, d)])
    IN  IF cited > UsdcOf[d] THEN cited - UsdcOf[d] ELSE 0

(* The escrow account, which all issuers share, can pay every lock that is *)
(* still pending, but for what the service itself gives away: a deposit    *)
(* that several applications cite (asset.service.ts:45 looks for no other) *)
(* and locks that were paid again.  Nothing else makes it short.           *)
LocksCovered ==
    SumFunction([a \in Assets |-> Owed(a)])
        <= escrowUsdc + SumFunction([a \in Assets |-> PaidAgain(a)])
                      + SumFunction([d \in Deposits |-> CitedBeyond(d)])

(* A request that has read PENDING and will have the lock paid. *)
AboutToPay(r, a) ==
    /\ requests[r].asset = a
    /\ \/ requests[r].pc \in {"release", "return"}
       \/ At(r, "reject") /\ ReturnWanted(r)

Settled(a) ==
    /\ rows[a].status # "NONE" /\ rows[a].escrow # "PENDING"
    /\ \A r \in Requests : ~AboutToPay(r, a)

(* The row's note is what protects a lock, since the contract would pay it *)
(* again: once the row no longer says PENDING and no request that read so  *)
(* is under way, the lock is never paid again, whatever is activated or    *)
(* rejected afterwards and wherever that ends (asset.service.ts:224, 303). *)
NotedIsFinal ==
    [][\A a \in Assets :
          Settled(a) => Settled(a)' /\ Payouts(a)' = Payouts(a)]_vars

(* An activation whose release the escrow will accept ends with the market *)
(* listed (activateMarket), unless the escrow is paused before, the        *)
(* dispenser takes what the admin seeds the pool with, or somebody empties *)
(* the vault by hand.                                                      *)
EventuallyListed ==
    \A r \in Requests, a \in Assets :
        (At(r, "release") /\ Asset(r) = a /\ CanRelease(r))
            ~> (\/ rows[a].status = "ACTIVE"
                \/ escrowPaused
                \/ adminUsdc < AdminFloat
                \/ issuerTokens[a] > 0)
=============================================================================
