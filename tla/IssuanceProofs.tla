--------------------------- MODULE IssuanceProofs ---------------------------
(* What holds of the issuance escrow, and of the asset service over it,    *)
(* for any assets, vaults, overlapping requests and failures.              *)
EXTENDS Issuance, SumTheorems, TLAPS

-----------------------------------------------------------------------------
(* The contract on its own. *)

LEMMA ItobTyped ==
    ASSUME NEW n \in 0..2
    PROVE  /\ Itob(n) \in [1..8 -> 0..2]
           /\ Itob(n)[8] = n
BY DEF Itob

LEMMA EscrowTypeInit == IssuanceEscrowInit => IssuanceEscrowTypeOK
<1> SUFFICES ASSUME IssuanceEscrowInit PROVE IssuanceEscrowTypeOK
  OBVIOUS
<1> USE DEF IssuanceEscrowInit
<1>1. escrowPaused \in BOOLEAN /\ escrowOptedIn \in BOOLEAN
  BY Zenon
<1>2. issuanceLocks \in [Assets -> Lock \cup {NoLock}]
  OBVIOUS
<1>3. escrowUsdc \in Nat /\ released \in [Assets -> Nat] /\ returned \in [Assets -> Nat]
  OBVIOUS
<1>4. QED
  BY <1>1, <1>2, <1>3 DEF IssuanceEscrowTypeOK

(* A payment, by either method: what it needs and what it leaves behind.   *)
LEMMA PaymentWrites ==
    ASSUME IssuanceEscrowTypeOK, NEW a \in Assets, NEW n \in 1..2,
           Payable(a), WriteStatus(a, n)
    PROVE  /\ issuanceLocks' \in [Assets -> Lock \cup {NoLock}]
           /\ issuanceLocks[a] \in Lock
           /\ issuanceLocks'[a] \in Lock
           /\ issuanceLocks'[a].status[8] = n
           /\ \A b \in Assets \ {a} : issuanceLocks'[b] = issuanceLocks[b]
<1>1. issuanceLocks \in [Assets -> Lock \cup {NoLock}]
  BY DEF IssuanceEscrowTypeOK
<1>2. issuanceLocks[a] \in Lock
  BY <1>1 DEF Payable, Recorded
<1>3. issuanceLocks' = [issuanceLocks EXCEPT ![a] =
                           [issuanceLocks[a] EXCEPT !.status = Itob(n)]]
  BY <1>1, <1>2 DEF WriteStatus, Lock
<1> DEFINE new == [issuanceLocks[a] EXCEPT !.status = Itob(n)]
<1>4. new \in Lock /\ new.status[8] = n
  BY <1>2, ItobTyped DEF Lock
<1> HIDE DEF new
<1>5. QED
  BY <1>1, <1>2, <1>3, <1>4 DEF new

LEMMA EscrowTypeStep ==
    ASSUME IssuanceEscrowTypeOK, [IssuanceEscrowNext]_issuanceEscrowVars
    PROVE  IssuanceEscrowTypeOK'
<1> USE IssuanceEscrowAssumption DEF IssuanceEscrowTypeOK
<1>1. ASSUME EscrowOptIntoUsdc PROVE IssuanceEscrowTypeOK'
  BY <1>1 DEF EscrowOptIntoUsdc
<1>2. ASSUME NEW amount \in 1..MaxLock, IssuerDeposit(amount)
      PROVE  IssuanceEscrowTypeOK'
  BY <1>2 DEF IssuerDeposit
<1>3. ASSUME NEW a \in Assets, NEW amount \in 1..MaxLock,
             RecordIssuanceLock(a, amount)
      PROVE  IssuanceEscrowTypeOK'
  <2>1. [amount |-> amount, status |-> Itob(PENDING)] \in Lock
    BY ItobTyped DEF Lock, PENDING
  <2>2. QED
    BY <1>3, <2>1 DEF RecordIssuanceLock
<1>4. ASSUME NEW a \in Assets, ReleaseToVault(a) PROVE IssuanceEscrowTypeOK'
  <2>1. /\ issuanceLocks' \in [Assets -> Lock \cup {NoLock}]
        /\ issuanceLocks[a] \in Lock
    BY <1>4, PaymentWrites DEF ReleaseToVault, MayRelease, RELEASED_TO_VAULT
  <2>2. issuanceLocks[a].amount \in Nat
    BY <2>1 DEF Lock
  <2>3. escrowUsdc' \in Nat
    BY <1>4, <2>2 DEF ReleaseToVault, MayRelease, Payable
  <2>4. released' \in [Assets -> Nat] /\ returned' \in [Assets -> Nat]
    BY <1>4 DEF ReleaseToVault
  <2>5. QED
    BY <1>4, <2>1, <2>3, <2>4 DEF ReleaseToVault
<1>5. ASSUME NEW a \in Assets, ReturnToIssuer(a) PROVE IssuanceEscrowTypeOK'
  <2>1. /\ issuanceLocks' \in [Assets -> Lock \cup {NoLock}]
        /\ issuanceLocks[a] \in Lock
    BY <1>5, PaymentWrites DEF ReturnToIssuer, MayReturn, RETURNED_TO_ISSUER
  <2>2. issuanceLocks[a].amount \in Nat
    BY <2>1 DEF Lock
  <2>3. escrowUsdc' \in Nat
    BY <1>5, <2>2 DEF ReturnToIssuer, MayReturn, Payable
  <2>4. released' \in [Assets -> Nat] /\ returned' \in [Assets -> Nat]
    BY <1>5 DEF ReturnToIssuer
  <2>5. QED
    BY <1>5, <2>1, <2>3, <2>4 DEF ReturnToIssuer
<1>6. ASSUME NEW paused \in BOOLEAN, PauseEscrow(paused)
      PROVE  IssuanceEscrowTypeOK'
  BY <1>6 DEF PauseEscrow
<1>7. CASE UNCHANGED issuanceEscrowVars
  BY <1>7 DEF issuanceEscrowVars
<1>8. QED
  BY <1>1, <1>2, <1>3, <1>4, <1>5, <1>6, <1>7 DEF IssuanceEscrowNext

(* Type correctness of the contract, under any order of the admin's calls. *)
THEOREM IssuanceEscrowTyped == IssuanceEscrowSpec => []IssuanceEscrowTypeOK
BY EscrowTypeInit, EscrowTypeStep, PTL DEF IssuanceEscrowSpec

(* One asset's payments and the last byte of its box move together.        *)
LEMMA StatusStep ==
    ASSUME IssuanceEscrowTypeOK, StatusTellsPayment,
           [IssuanceEscrowNext]_issuanceEscrowVars
    PROVE  StatusTellsPayment'
<1> DEFINE Tells(b) == Payouts(b) > 0 <=> Recorded(b) /\ StoredStatus(b) # PENDING
<1> SUFFICES ASSUME NEW b \in Assets PROVE Tells(b)'
  BY DEF StatusTellsPayment
<1>0. Tells(b) /\ released[b] \in Nat /\ returned[b] \in Nat
  BY DEF StatusTellsPayment, IssuanceEscrowTypeOK
<1>1. CASE UNCHANGED <<issuanceLocks, released, returned>>
  BY <1>0, <1>1 DEF Payouts, Recorded, StoredStatus
<1>2. ASSUME NEW a \in Assets, NEW amount \in 1..MaxLock,
             RecordIssuanceLock(a, amount)
      PROVE  Tells(b)'
  <2> DEFINE new == [amount |-> amount, status |-> Itob(PENDING)]
  <2>1. new \in Lock /\ new.status[8] = PENDING
    BY ItobTyped DEF Lock, PENDING
  <2>2. CASE b # a
    BY <1>0, <1>2, <2>2 DEF RecordIssuanceLock, Payouts, Recorded,
       StoredStatus, IssuanceEscrowTypeOK
  <2>3. CASE b = a
    <3>1. ~Recorded(b)
      BY <1>2, <2>3 DEF RecordIssuanceLock, MayRecordLock
    <3>2. ~(Payouts(b) > 0)
      BY <1>0, <3>1
    <3>3. Payouts(b)' = Payouts(b)
      BY <1>2 DEF RecordIssuanceLock, Payouts
    <3>4. issuanceLocks'[b] = new
      BY <1>2, <2>3 DEF RecordIssuanceLock, IssuanceEscrowTypeOK
    <3>5. StoredStatus(b)' = PENDING
      BY <2>1, <3>4 DEF StoredStatus
    <3>6. QED
      BY <3>2, <3>3, <3>5
  <2>4. QED
    BY <2>2, <2>3
<1>3. ASSUME NEW a \in Assets, NEW n \in 1..2, Payable(a), WriteStatus(a, n),
             \/ released' = [released EXCEPT ![a] = @ + 1] /\ returned' = returned
             \/ returned' = [returned EXCEPT ![a] = @ + 1] /\ released' = released
      PROVE  Tells(b)'
  <2>1. /\ issuanceLocks'[a] \in Lock
        /\ issuanceLocks'[a].status[8] = n
        /\ \A c \in Assets \ {a} : issuanceLocks'[c] = issuanceLocks[c]
    BY <1>3, PaymentWrites
  <2>2. CASE b # a
    BY <1>0, <1>3, <2>1, <2>2 DEF Payouts, Recorded, StoredStatus,
       IssuanceEscrowTypeOK
  <2>3. CASE b = a
    <3>1. Payouts(b)' > 0
      BY <1>0, <1>3, <2>3 DEF Payouts, IssuanceEscrowTypeOK
    <3>2. Recorded(b)'
      BY <2>1, <2>3, IssuanceEscrowAssumption DEF Recorded
    <3>3. StoredStatus(b)' # PENDING
      BY <2>1, <2>3 DEF StoredStatus, PENDING
    <3>4. QED
      BY <3>1, <3>2, <3>3
  <2>4. QED
    BY <2>2, <2>3
<1>4. ASSUME NEW a \in Assets, ReleaseToVault(a) PROVE Tells(b)'
  <2>1. RELEASED_TO_VAULT \in 1..2
    BY DEF RELEASED_TO_VAULT
  <2>2. /\ Payable(a) /\ WriteStatus(a, RELEASED_TO_VAULT)
        /\ released' = [released EXCEPT ![a] = @ + 1] /\ returned' = returned
    BY <1>4 DEF ReleaseToVault, MayRelease
  <2> HIDE DEF Tells
  <2>3. QED
    BY <1>3, <2>1, <2>2
<1>5. ASSUME NEW a \in Assets, ReturnToIssuer(a) PROVE Tells(b)'
  <2>1. RETURNED_TO_ISSUER \in 1..2
    BY DEF RETURNED_TO_ISSUER
  <2>2. /\ Payable(a) /\ WriteStatus(a, RETURNED_TO_ISSUER)
        /\ returned' = [returned EXCEPT ![a] = @ + 1] /\ released' = released
    BY <1>5 DEF ReturnToIssuer, MayReturn
  <2> HIDE DEF Tells
  <2>3. QED
    BY <1>3, <2>1, <2>2
<1>6. QED
  BY <1>1, <1>2, <1>4, <1>5 DEF IssuanceEscrowNext, EscrowOptIntoUsdc,
     IssuerDeposit, PauseEscrow, issuanceEscrowVars

(* The last byte of a box tells whether its money has gone. *)
THEOREM StatusIsTrue == IssuanceEscrowSpec => []StatusTellsPayment
<1>1. IssuanceEscrowInit => StatusTellsPayment
  BY DEF IssuanceEscrowInit, StatusTellsPayment, Payouts, Recorded
<1>2. QED
  BY <1>1, StatusStep, IssuanceEscrowTyped, PTL DEF IssuanceEscrowSpec
-----------------------------------------------------------------------------
(* The vaults.  A vault keeps what it opted in to, and no step takes LP    *)
(* tokens out of one.                                                      *)

VaultsTyped == vaults \in [Vaults -> Vault]

VaultsGrow ==
    \A u \in Vaults : /\ vaults[u].optedIn \subseteq vaults'[u].optedIn
                      /\ Holds(u, "lp") <= Holds(u, "lp")'

(* One vault changes, and its new state is a vault that has grown.         *)
LEMMA OneVault ==
    ASSUME VaultsTyped, NEW v \in Vaults, NEW new \in Vault,
           vaults' = [vaults EXCEPT ![v] = new],
           vaults[v].optedIn \subseteq new.optedIn,
           vaults[v].holds["lp"] <= new.holds["lp"]
    PROVE  VaultsTyped' /\ VaultsGrow
<1>1. VaultsTyped'
  BY DEF VaultsTyped
<1>2. ASSUME NEW u \in Vaults
      PROVE  /\ vaults[u].optedIn \subseteq vaults'[u].optedIn
             /\ Holds(u, "lp") <= Holds(u, "lp")'
  <2>1. CASE u = v
    BY <2>1 DEF VaultsTyped, Holds
  <2>2. CASE u # v
    <3>1. vaults'[u] = vaults[u] /\ vaults[u].holds["lp"] \in Nat
      BY <2>2 DEF VaultsTyped, Vault, Kinds
    <3>2. QED
      BY <3>1 DEF Holds
  <2>3. QED
    BY <2>1, <2>2
<1>3. QED
  BY <1>1, <1>2 DEF VaultsGrow

LEMMA CreatedRecord ==
    ASSUME NEW vault \in Vault, NEW flag \in BOOLEAN
    PROVE  /\ [vault EXCEPT !.created = flag] \in Vault
           /\ [vault EXCEPT !.created = flag].optedIn = vault.optedIn
           /\ [vault EXCEPT !.created = flag].holds = vault.holds
BY DEF Vault

LEMMA CreateVaultStep ==
    ASSUME VaultsTyped, NEW v \in Vaults, CreateVault(v)
    PROVE  VaultsTyped' /\ VaultsGrow
<1> DEFINE new == [vaults[v] EXCEPT !.created = TRUE]
<1>1. vaults' = [vaults EXCEPT ![v] = new]
  BY DEF CreateVault, VaultsTyped, Vault
<1>2. /\ new \in Vault /\ vaults[v].optedIn \subseteq new.optedIn
      /\ vaults[v].holds["lp"] <= new.holds["lp"]
  <2>1. vaults[v] \in Vault /\ vaults[v].holds["lp"] \in Nat
    BY DEF VaultsTyped, Vault, Kinds
  <2>2. /\ new \in Vault /\ new.optedIn = vaults[v].optedIn
        /\ new.holds = vaults[v].holds
    BY <2>1, CreatedRecord
  <2>3. QED
    BY <2>1, <2>2
<1> HIDE DEF new
<1>3. QED
  BY <1>1, <1>2, OneVault

LEMMA OptInStep ==
    ASSUME VaultsTyped, NEW v \in Vaults, NEW k \in Kinds, OptInVault(v, k)
    PROVE  /\ VaultsTyped' /\ VaultsGrow
           /\ k \in vaults'[v].optedIn
<1> DEFINE new == [vaults[v] EXCEPT !.optedIn = vaults[v].optedIn \cup {k}]
<1>1. vaults' = [vaults EXCEPT ![v] = new]
  BY DEF OptInVault, VaultsTyped, Vault
<1>2. /\ vaults[v] \in Vault /\ vaults[v].holds["lp"] \in Nat
      /\ vaults[v].optedIn \cup {k} \in SUBSET Kinds
  BY DEF VaultsTyped, Vault, Kinds
<1>3. /\ new \in Vault /\ vaults[v].optedIn \subseteq new.optedIn
      /\ vaults[v].holds["lp"] <= new.holds["lp"] /\ k \in new.optedIn
  <2> DEFINE kinds == vaults[v].optedIn \cup {k}
  <2>1. kinds \in SUBSET Kinds
    BY <1>2
  <2>2. vaults[v].optedIn \subseteq kinds /\ k \in kinds
    OBVIOUS
  <2> HIDE DEF kinds
  <2>3. new = [vaults[v] EXCEPT !.optedIn = kinds]
    BY DEF kinds
  <2> HIDE DEF new
  <2>4. new \in Vault
    BY <1>2, <2>1, <2>3 DEF Vault
  <2>5. new.optedIn = kinds /\ new.holds = vaults[v].holds
    BY <1>2, <2>3 DEF Vault
  <2>6. QED
    BY <1>2, <2>2, <2>4, <2>5
<1> HIDE DEF new
<1>4. vaults'[v] = new
  BY <1>1 DEF VaultsTyped
<1>5. QED
  BY <1>1, <1>3, <1>4, OneVault

LEMMA ReceiveStep ==
    ASSUME VaultsTyped, NEW v \in Vaults, NEW k \in Kinds, NEW n \in Nat,
           ReceiveInVault(v, k, n)
    PROVE  /\ VaultsTyped' /\ VaultsGrow
           /\ Holds(v, k)' = Holds(v, k) + n
<1> DEFINE new == [vaults[v] EXCEPT !.holds =
                       [vaults[v].holds EXCEPT ![k] = vaults[v].holds[k] + n]]
<1>1. vaults' = [vaults EXCEPT ![v] = new]
  BY DEF ReceiveInVault, VaultsTyped, Vault
<1>2. vaults[v] \in Vault /\ vaults[v].holds[k] + n \in Nat
  BY DEF VaultsTyped, Vault
<1>3. /\ new \in Vault /\ vaults[v].optedIn \subseteq new.optedIn
      /\ vaults[v].holds["lp"] <= new.holds["lp"]
      /\ new.holds[k] = vaults[v].holds[k] + n
  BY <1>2 DEF Vault, Kinds
<1> HIDE DEF new
<1>4. vaults'[v] = new
  BY <1>1 DEF VaultsTyped
<1>5. QED
  BY <1>1, <1>3, <1>4, OneVault DEF Holds

LEMMA WithdrawStep ==
    ASSUME VaultsTyped, NEW v \in Vaults, NEW k \in Kinds \ {"lp"},
           NEW n \in Nat, WithdrawForPool(v, k, n)
    PROVE  VaultsTyped' /\ VaultsGrow
<1> DEFINE new == [vaults[v] EXCEPT !.holds =
                       [vaults[v].holds EXCEPT ![k] = vaults[v].holds[k] - n]]
<1>1. vaults' = [vaults EXCEPT ![v] = new]
  BY DEF WithdrawForPool, VaultsTyped, Vault
<1>2. vaults[v] \in Vault /\ vaults[v].holds[k] - n \in Nat
  BY DEF WithdrawForPool, Holds, VaultsTyped, Vault
<1>3. /\ new \in Vault /\ vaults[v].optedIn \subseteq new.optedIn
      /\ vaults[v].holds["lp"] <= new.holds["lp"]
  BY <1>2 DEF Vault, Kinds
<1> HIDE DEF new
<1>4. QED
  BY <1>1, <1>3, OneVault

LEMMA DistributeStep ==
    ASSUME VaultsTyped, NEW v \in Vaults, NEW n \in Nat, DistributeToIssuer(v, n)
    PROVE  VaultsTyped' /\ VaultsGrow
<1> DEFINE new == [vaults[v] EXCEPT
                      !.holds = [vaults[v].holds EXCEPT
                                    !["rwa"] = vaults[v].holds["rwa"] - n],
                      !.distributed = vaults[v].distributed + n]
<1>1. vaults' = [vaults EXCEPT ![v] = new]
  BY DEF DistributeToIssuer, VaultsTyped, Vault
<1>2. /\ vaults[v] \in Vault /\ vaults[v].holds["rwa"] - n \in Nat
      /\ vaults[v].distributed + n \in Nat
  BY DEF DistributeToIssuer, Holds, VaultsTyped, Vault, Kinds
<1>3. /\ new \in Vault /\ vaults[v].optedIn \subseteq new.optedIn
      /\ vaults[v].holds["lp"] <= new.holds["lp"]
  <2> DEFINE left == [vaults[v].holds EXCEPT !["rwa"] = vaults[v].holds["rwa"] - n]
             out == vaults[v].distributed + n
  <2>1. /\ left \in [Kinds -> Nat] /\ left["lp"] = vaults[v].holds["lp"]
        /\ left["lp"] \in Nat /\ out \in Nat
    BY <1>2 DEF Vault, Kinds
  <2> HIDE DEF left, out
  <2>2. new = [vaults[v] EXCEPT !.holds = left, !.distributed = out]
    BY DEF left, out
  <2> HIDE DEF new
  <2>3. new \in Vault
    BY <1>2, <2>1, <2>2 DEF Vault
  <2>4. new.optedIn = vaults[v].optedIn /\ new.holds = left
    BY <1>2, <2>2 DEF Vault
  <2>5. QED
    BY <2>1, <2>3, <2>4
<1> HIDE DEF new
<1>4. QED
  BY <1>1, <1>3, OneVault
-----------------------------------------------------------------------------
(* The asset service.  What the row claims depends on what a request still *)
(* has in hand, so the inductive invariant says, for every step a request  *)
(* can stand at, what the steps before it have done on chain.              *)

Deploying  == {"vault", "optin", "supply", "usdc", "deployed"}
Activating == {"release", "released", "withdraw", "withdrawUsdc", "bootstrap",
               "seed", "lp", "sendlp", "list"}
Seeding    == {"seed", "lp", "sendlp"}

Knows(q) ==
    /\ q.pc # "idle" => q.asset \in Assets
    /\ q.pc = "record" => PledgedUsdc[q.asset] > 0
    /\ q.pc \in Deploying \cup Activating \cup {"distribute"} =>
           q.vault \in Vaults /\ minted[q.vault] = q.asset
    /\ q.pc \in {"supply", "usdc", "deployed"} => CanReceive(q.vault, "rwa")
    /\ q.pc = "deployed" => CanReceive(q.vault, "usdc")
    /\ q.pc = "released" => released[q.asset] > 0
    /\ q.pc = "returned" => returned[q.asset] > 0
    /\ q.pc = "seed" => pools[q.vault] = "empty"
    /\ q.pc \in {"lp", "sendlp", "list"} => pools[q.vault] = "seeded"
    /\ q.pc \in {"lp", "sendlp"} => adminHolds[q.vault].lp > 0
    /\ q.pc = "list" => Holds(q.vault, "lp") > 0

RequestsKnow == \A r \in Requests : Knows(requests[r])

(* A pool is bootstrapped once, so one request at a time seeds it and has  *)
(* its LP tokens in the admin wallet.                                      *)
OneSeeder ==
    \A q, r \in Requests :
        (/\ q # r
         /\ requests[q].pc \in Seeding /\ requests[r].pc \in Seeding)
            => requests[q].vault # requests[r].vault

IInv == /\ TypeOK
        /\ RequestsKnow
        /\ OneSeeder
        /\ EscrowColumnTrue
        /\ RowNamesReadyVault
        /\ ListedIsSeeded

(* How a handler moves on: it keeps the asset and the vault it works for.  *)
LEMMA GotoStep ==
    ASSUME TypeOK, NEW r \in Requests, NEW pc \in PC, Goto(r, pc)
    PROVE  /\ requests' \in [Requests -> Request]
           /\ requests'[r] = [requests[r] EXCEPT !.pc = pc]
           /\ requests'[r].pc = pc
           /\ requests'[r].asset = requests[r].asset
           /\ requests'[r].vault = requests[r].vault
           /\ \A q \in Requests \ {r} : requests'[q] = requests[q]
BY DEF TypeOK, Goto, Request

LEMMA DoneStep ==
    ASSUME TypeOK, NEW r \in Requests, Done(r)
    PROVE  /\ requests' \in [Requests -> Request]
           /\ requests'[r] = Idle
           /\ \A q \in Requests \ {r} : requests'[q] = requests[q]
BY DEF TypeOK, Done, Request, Idle, PC, EscrowStatus

LEMMA BeginStep ==
    ASSUME TypeOK, NEW r \in Requests, NEW a \in Assets, NEW pc \in PC,
           Begin(r, a, pc)
    PROVE  /\ requests' \in [Requests -> Request]
           /\ requests'[r] = [pc |-> pc, asset |-> a, vault |-> rows[a].vault,
                              escrow |-> rows[a].escrow]
           /\ \A q \in Requests \ {r} : requests'[q] = requests[q]
BY DEF TypeOK, Begin, Request, Row

(* Every step leaves the escrow contract alone or calls one of its methods. *)
LEMMA EscrowCalls ==
    ASSUME TypeOK, RequestsKnow, [Next]_vars
    PROVE  [IssuanceEscrowNext]_issuanceEscrowVars
<1> USE IssuanceAssumption, IssuanceEscrowAssumption DEF outsideVaults, chainVars
<1>1. ASSUME NEW r \in Requests, NEW a \in Assets, Arrive(r, a)
      PROVE  UNCHANGED issuanceEscrowVars
  BY <1>1 DEF Arrive, CreateAsset, BeginDeploy, BeginReject, BeginActivate,
     BeginDistribute
<1>2. ASSUME NEW r \in Requests, RecordLock(r)
      PROVE  IssuanceEscrowNext
  <2>1. Asset(r) \in Assets /\ PledgedUsdc[Asset(r)] > 0
    BY <1>2 DEF RecordLock, At, Asset, RequestsKnow, Knows
  <2>2. PledgedUsdc[Asset(r)] \in 1..MaxLock
    BY <2>1
  <2>3. QED
    BY <1>2, <2>1, <2>2 DEF RecordLock, IssuanceEscrowNext
<1>3. ASSUME NEW r \in Requests, ReturnLiquidity(r) \/ Release(r)
      PROVE  IssuanceEscrowNext
  BY <1>3 DEF ReturnLiquidity, Release, At, Asset, RequestsKnow, Knows,
     IssuanceEscrowNext
<1>4. ASSUME NEW r \in Requests, Step(r) \/ Die(r),
             ~RecordLock(r), ~ReturnLiquidity(r), ~Release(r)
      PROVE  UNCHANGED issuanceEscrowVars
  BY <1>4 DEF Step, Die, Fails, RecordLockFails, Mint, DeployVault,
     OptIntoAsset, MoveSupply, OptIntoUsdc, SaveDeployed, Reject, ReturnFails,
     SaveReturned, ReleaseFails, SaveReleased, WithdrawTokens,
     WithdrawTokensFails, WithdrawUsdc, WithdrawUsdcFails, BootstrapPool,
     SeedPool, SeedFails, OptIntoLp, SendLp, List, Distribute, DistributeFails
<1>5. ASSUME NEW a \in Assets, Approve(a) \/ DistributeFromVault(a)
      PROVE  UNCHANGED issuanceEscrowVars
  BY <1>5 DEF Approve, DistributeFromVault
<1>6. ASSUME NEW a \in Assets, RecordByHand(a) PROVE IssuanceEscrowNext
  <2>1. PledgedUsdc[a] \in 1..MaxLock
    BY <1>6 DEF RecordByHand, Tracked
  <2>2. QED
    BY <1>6, <2>1 DEF RecordByHand, IssuanceEscrowNext
<1>7. ASSUME NEW d \in Deposits, Deposit(d)
      PROVE  [IssuanceEscrowNext]_issuanceEscrowVars
  <2>1. IssuerDeposit(UsdcOf[d])
    BY <1>7 DEF Deposit
  <2>2. CASE UsdcOf[d] = 0
    BY <2>1, <2>2 DEF IssuerDeposit, issuanceEscrowVars, TypeOK,
       IssuanceEscrowTypeOK
  <2>3. CASE UsdcOf[d] # 0
    <3>1. UsdcOf[d] \in 1..MaxLock
      BY <2>3
    <3>2. QED
      BY <2>1, <3>1 DEF IssuanceEscrowNext
  <2>4. QED
    BY <2>2, <2>3
<1>8. ASSUME SetUpEscrow \/ PauseOrUnpause PROVE IssuanceEscrowNext
  <2>1. CASE SetUpEscrow
    BY <2>1 DEF SetUpEscrow, IssuanceEscrowNext
  <2>2. CASE PauseOrUnpause
    <3>1. PauseEscrow(~escrowPaused)
      BY <2>2, Zenon DEF PauseOrUnpause
    <3>2. (~escrowPaused) \in BOOLEAN
      BY Zenon
    <3>3. QED
      BY <3>1, <3>2, Zenon DEF IssuanceEscrowNext
  <2>3. QED
    BY <1>8, <2>1, <2>2
<1>9. ASSUME Dispense PROVE UNCHANGED issuanceEscrowVars
  BY <1>9 DEF Dispense
<1>10. CASE UNCHANGED vars
  BY <1>10 DEF vars
<1>11. QED
  BY <1>1, <1>2, <1>3, <1>4, <1>5, <1>6, <1>7, <1>8, <1>9, <1>10 DEF Next
(* Every step leaves the vaults alone or is one of their operations. *)
LEMMA VaultCalls ==
    ASSUME TypeOK, RequestsKnow, [Next]_vars
    PROVE  VaultsTyped' /\ VaultsGrow
<1> USE IssuanceAssumption, TokenVaultAssumption
<1>0. VaultsTyped /\ (UNCHANGED vaults => VaultsTyped' /\ VaultsGrow)
  <2>1. VaultsTyped
    BY DEF TypeOK, VaultsTyped
  <2>2. ASSUME NEW u \in Vaults PROVE Holds(u, "lp") \in Nat
    BY <2>1 DEF VaultsTyped, Vault, Holds, Kinds
  <2>3. QED
    BY <2>1, <2>2 DEF VaultsTyped, VaultsGrow, Holds
<1>1. ASSUME NEW r \in Requests, requests[r].pc \in Deploying \cup Activating
      PROVE  VaultOf(r) \in Vaults /\ Asset(r) \in Assets
  BY <1>1 DEF RequestsKnow, Knows, VaultOf, Asset, Deploying, Activating
<1>2. ASSUME NEW r \in Requests, NEW a \in Assets, Arrive(r, a)
      PROVE  UNCHANGED vaults
  BY <1>2 DEF Arrive, CreateAsset, BeginDeploy, BeginReject, BeginActivate,
     BeginDistribute, chainVars
<1>3. ASSUME NEW r \in Requests, DeployVault(r)
      PROVE  VaultsTyped' /\ VaultsGrow
  BY <1>0, <1>1, <1>3, CreateVaultStep DEF DeployVault, At, Deploying
<1>4. ASSUME NEW r \in Requests, OptIntoAsset(r) \/ OptIntoUsdc(r) \/ OptIntoLp(r)
      PROVE  VaultsTyped' /\ VaultsGrow
  BY <1>0, <1>1, <1>4, OptInStep DEF OptIntoAsset, OptIntoUsdc, OptIntoLp, At,
     Deploying, Activating, Kinds
<1>5. ASSUME NEW r \in Requests, MoveSupply(r) \/ SendLp(r)
      PROVE  VaultsTyped' /\ VaultsGrow
  <2>1. VaultOf(r) \in Vaults
    BY <1>1, <1>5 DEF MoveSupply, SendLp, At, Deploying, Activating
  <2>2. Supply \in Nat /\ adminHolds[VaultOf(r)].lp \in Nat
    BY <2>1 DEF TypeOK
  <2>3. QED
    BY <1>0, <1>5, <2>1, <2>2, ReceiveStep DEF MoveSupply, SendLp, Kinds
<1>6. ASSUME NEW r \in Requests, Release(r)
      PROVE  VaultsTyped' /\ VaultsGrow
  <2>1. VaultOf(r) \in Vaults /\ Asset(r) \in Assets
    BY <1>1, <1>6 DEF Release, At, Activating
  <2>2. issuanceLocks[Asset(r)] \in Lock
    BY <1>6, <2>1 DEF Release, ReleaseToVault, MayRelease, Payable, Recorded,
       TypeOK, IssuanceEscrowTypeOK
  <2>3. issuanceLocks[Asset(r)].amount \in Nat
    BY <2>2, IssuanceEscrowAssumption DEF Lock
  <2>4. QED
    BY <1>0, <1>6, <2>1, <2>3, ReceiveStep DEF Release, Kinds
<1>7. ASSUME NEW r \in Requests, WithdrawTokens(r) \/ WithdrawUsdc(r)
      PROVE  VaultsTyped' /\ VaultsGrow
  <2>1. VaultOf(r) \in Vaults /\ Asset(r) \in Assets
    BY <1>1, <1>7 DEF WithdrawTokens, WithdrawUsdc, At, Activating
  <2>2. Supply \in Nat /\ PledgedUsdc[Asset(r)] \in Nat
    BY <2>1, IssuanceEscrowAssumption
  <2>3. QED
    BY <1>0, <1>7, <2>1, <2>2, WithdrawStep DEF WithdrawTokens, WithdrawUsdc,
       Kinds
<1>8. ASSUME NEW r \in Requests, Step(r) \/ Die(r),
             ~DeployVault(r), ~OptIntoAsset(r), ~OptIntoUsdc(r), ~OptIntoLp(r),
             ~MoveSupply(r), ~SendLp(r), ~Release(r), ~WithdrawTokens(r),
             ~WithdrawUsdc(r)
      PROVE  UNCHANGED vaults
  BY <1>8 DEF Step, Die, Fails, RecordLock, RecordLockFails, Mint, SaveDeployed,
     Reject, ReturnLiquidity, ReturnFails, SaveReturned, ReleaseFails,
     SaveReleased, WithdrawTokensFails, WithdrawUsdcFails, BootstrapPool,
     SeedPool, SeedFails, List, Distribute, DistributeFails, outsideEscrow,
     chainVars
<1>9. ASSUME NEW a \in Assets, DistributeFromVault(a)
      PROVE  VaultsTyped' /\ VaultsGrow
  <2>1. rows[a].vault \in Vaults
    BY <1>9 DEF DistributeFromVault, TypeOK, Row
  <2>2. PICK amount \in 1..Supply : DistributeToIssuer(rows[a].vault, amount)
    BY <1>9 DEF DistributeFromVault
  <2>3. QED
    BY <1>0, <2>1, <2>2, DistributeStep
<1>10. ASSUME NEW a \in Assets, Approve(a) \/ RecordByHand(a)
       PROVE  UNCHANGED vaults
  BY <1>10 DEF Approve, RecordByHand, outsideEscrow, chainVars
<1>11. ASSUME NEW d \in Deposits, Deposit(d) PROVE UNCHANGED vaults
  BY <1>11 DEF Deposit
<1>12. ASSUME SetUpEscrow \/ PauseOrUnpause \/ Dispense PROVE UNCHANGED vaults
  BY <1>12 DEF SetUpEscrow, PauseOrUnpause, Dispense, outsideEscrow
<1>13. CASE UNCHANGED vars
  BY <1>0, <1>13 DEF vars, chainVars
<1>14. QED
  BY <1>0, <1>2, <1>3, <1>4, <1>5, <1>6, <1>7, <1>8, <1>9, <1>10, <1>11, <1>12,
     <1>13 DEF Next

(* What is minted, paid or seeded stays so. *)
ChainGrows ==
    /\ VaultsGrow
    /\ \A a \in Assets : released[a] <= released'[a] /\ returned[a] <= returned'[a]
    /\ \A v \in Vaults : minted[v] # NoAsset => minted'[v] = minted[v]
    /\ \A v \in Vaults : pools[v] = "seeded" => pools'[v] = "seeded"

LEMMA PaymentsGrow ==
    ASSUME IssuanceEscrowTypeOK, [IssuanceEscrowNext]_issuanceEscrowVars
    PROVE  \A a \in Assets : released[a] <= released'[a] /\ returned[a] <= returned'[a]
<1> SUFFICES ASSUME NEW a \in Assets
             PROVE  released[a] <= released'[a] /\ returned[a] <= returned'[a]
  OBVIOUS
<1>1. released[a] \in Nat /\ returned[a] \in Nat
  BY DEF IssuanceEscrowTypeOK
<1>2. QED
  BY <1>1 DEF IssuanceEscrowTypeOK, IssuanceEscrowNext, EscrowOptIntoUsdc,
     IssuerDeposit, RecordIssuanceLock, ReleaseToVault, ReturnToIssuer,
     PauseEscrow, issuanceEscrowVars
(* The other chain variables stay what they are, and move one way only.    *)
WalletsTyped ==
    /\ deposited \subseteq Deposits
    /\ minted \in [Vaults -> Assets \cup {NoAsset}]
    /\ pools \in [Vaults -> {"none", "empty", "seeded"}]
    /\ adminHolds \in [Vaults -> [tokens: Nat, lp: Nat]]
    /\ adminUsdc \in Nat
    /\ issuerTokens \in [Assets -> Nat]

PoolsGrow ==
    /\ \A v \in Vaults : minted[v] # NoAsset => minted'[v] = minted[v]
    /\ \A v \in Vaults : pools[v] = "seeded" => pools'[v] = "seeded"

LEMMA WalletCalls ==
    ASSUME TypeOK, RequestsKnow, [Next]_vars
    PROVE  WalletsTyped' /\ PoolsGrow
<1> USE IssuanceAssumption, TokenVaultAssumption, IssuanceEscrowAssumption
<1> DEFINE wallets == <<deposited, minted, pools, adminHolds, adminUsdc,
                        issuerTokens>>
<1>0. WalletsTyped /\ (UNCHANGED wallets => WalletsTyped' /\ PoolsGrow)
  BY DEF TypeOK, WalletsTyped, PoolsGrow
<1>1. ASSUME NEW r \in Requests,
             requests[r].pc \in Deploying \cup Activating \cup {"distribute"}
      PROVE  VaultOf(r) \in Vaults /\ Asset(r) \in Assets
  BY <1>1 DEF RequestsKnow, Knows, VaultOf, Asset, Deploying, Activating
<1>2. ASSUME NEW r \in Requests, NEW a \in Assets, Arrive(r, a)
      PROVE  UNCHANGED wallets
  BY <1>2 DEF Arrive, CreateAsset, BeginDeploy, BeginReject, BeginActivate,
     BeginDistribute, chainVars
<1>3. ASSUME NEW r \in Requests, Mint(r) PROVE WalletsTyped' /\ PoolsGrow
  <2>1. Asset(r) \in Assets
    BY <1>3 DEF Mint, At, Asset, RequestsKnow, Knows
  <2>2. PICK v \in Vaults :
            /\ minted[v] = NoAsset
            /\ minted' = [minted EXCEPT ![v] = Asset(r)]
            /\ adminHolds' = [adminHolds EXCEPT ![v].tokens = Supply]
    BY <1>3 DEF Mint
  <2>3. adminHolds' \in [Vaults -> [tokens: Nat, lp: Nat]]
    BY <1>0, <2>2 DEF WalletsTyped
  <2>4. QED
    BY <1>0, <1>3, <2>1, <2>2, <2>3 DEF WalletsTyped, PoolsGrow, Mint
<1>4. ASSUME NEW r \in Requests, MoveSupply(r) \/ WithdrawTokens(r) \/ SendLp(r)
      PROVE  WalletsTyped' /\ PoolsGrow
  <2>1. VaultOf(r) \in Vaults
    BY <1>1, <1>4 DEF MoveSupply, WithdrawTokens, SendLp, At, Deploying, Activating
  <2>2. adminHolds' \in [Vaults -> [tokens: Nat, lp: Nat]]
    <3>1. adminHolds[VaultOf(r)] \in [tokens: Nat, lp: Nat]
      BY <1>0, <2>1 DEF WalletsTyped
    <3>2. ASSUME NEW t \in Nat, adminHolds' = [adminHolds EXCEPT ![VaultOf(r)].tokens = t]
          PROVE  adminHolds' \in [Vaults -> [tokens: Nat, lp: Nat]]
      BY <1>0, <2>1, <3>1, <3>2 DEF WalletsTyped
    <3>3. ASSUME adminHolds' = [adminHolds EXCEPT ![VaultOf(r)].lp = 0]
          PROVE  adminHolds' \in [Vaults -> [tokens: Nat, lp: Nat]]
      BY <1>0, <2>1, <3>1, <3>3 DEF WalletsTyped
    <3>4. PICK t : t = adminHolds[VaultOf(r)].tokens
      OBVIOUS
    <3>5. t \in Nat /\ Supply \in Nat
      BY <3>1, <3>4
    <3>6. CASE MoveSupply(r)
      <4>1. t - Supply \in Nat
        BY <3>4, <3>5, <3>6 DEF MoveSupply
      <4>2. adminHolds' = [adminHolds EXCEPT ![VaultOf(r)].tokens = t - Supply]
        BY <1>0, <2>1, <3>4, <3>6 DEF MoveSupply, WalletsTyped
      <4>3. QED
        BY <3>2, <4>1, <4>2
    <3>7. CASE WithdrawTokens(r)
      <4>1. t + Supply \in Nat
        BY <3>5
      <4>2. adminHolds' = [adminHolds EXCEPT ![VaultOf(r)].tokens = t + Supply]
        BY <1>0, <2>1, <3>4, <3>7 DEF WithdrawTokens, WalletsTyped
      <4>3. QED
        BY <3>2, <4>1, <4>2
    <3>8. CASE SendLp(r)
      BY <3>3, <3>8 DEF SendLp
    <3>9. QED
      BY <1>4, <3>6, <3>7, <3>8
  <2>3. QED
    BY <1>0, <1>4, <2>2 DEF WalletsTyped, PoolsGrow, MoveSupply, WithdrawTokens,
       SendLp, outsideVaults
<1>5. ASSUME NEW r \in Requests, WithdrawUsdc(r)
      PROVE  WalletsTyped' /\ PoolsGrow
  <2>1. Asset(r) \in Assets
    BY <1>1, <1>5 DEF WithdrawUsdc, At, Activating
  <2>2. QED
    BY <1>0, <1>5, <2>1 DEF WithdrawUsdc, WalletsTyped, PoolsGrow
<1>6. ASSUME NEW r \in Requests, BootstrapPool(r)
      PROVE  WalletsTyped' /\ PoolsGrow
  BY <1>0, <1>6 DEF BootstrapPool, WalletsTyped, PoolsGrow
<1>7. ASSUME NEW r \in Requests, SeedPool(r)
      PROVE  WalletsTyped' /\ PoolsGrow
  <2>1. VaultOf(r) \in Vaults /\ Asset(r) \in Assets
    BY <1>1, <1>7 DEF SeedPool, At, Activating
  <2>2. adminHolds' \in [Vaults -> [tokens: Nat, lp: Nat]]
    <3>1. adminHolds[VaultOf(r)] \in [tokens: Nat, lp: Nat]
      BY <1>0, <2>1 DEF WalletsTyped
    <3>2. QED
      BY <1>0, <1>7, <2>1, <3>1 DEF WalletsTyped, SeedPool, CanSeed
  <2>3. adminUsdc' \in Nat
    BY <1>0, <1>7, <2>1 DEF WalletsTyped, SeedPool, CanSeed
  <2>4. QED
    BY <1>0, <1>7, <2>2, <2>3 DEF WalletsTyped, PoolsGrow, SeedPool
<1>8. ASSUME NEW r \in Requests, Distribute(r)
      PROVE  WalletsTyped' /\ PoolsGrow
  <2>1. VaultOf(r) \in Vaults /\ Asset(r) \in Assets
    BY <1>1, <1>8 DEF Distribute, At
  <2>2. adminHolds[VaultOf(r)] \in [tokens: Nat, lp: Nat]
    BY <1>0, <2>1 DEF WalletsTyped
  <2>3. PICK amount \in 1..adminHolds[VaultOf(r)].tokens :
            /\ adminHolds' = [adminHolds EXCEPT ![VaultOf(r)].tokens = @ - amount]
            /\ issuerTokens' = [issuerTokens EXCEPT ![Asset(r)] = @ + amount]
    BY <1>8 DEF Distribute
  <2>4. amount \in Nat /\ adminHolds[VaultOf(r)].tokens - amount \in Nat
    BY <2>2
  <2>5. /\ adminHolds' \in [Vaults -> [tokens: Nat, lp: Nat]]
        /\ issuerTokens' \in [Assets -> Nat]
    BY <1>0, <2>1, <2>2, <2>3, <2>4 DEF WalletsTyped
  <2>6. QED
    BY <1>0, <1>8, <2>5 DEF WalletsTyped, PoolsGrow, Distribute
<1>9. ASSUME NEW r \in Requests, Step(r) \/ Die(r), ~Mint(r), ~MoveSupply(r),
             ~WithdrawTokens(r), ~SendLp(r), ~WithdrawUsdc(r),
             ~BootstrapPool(r), ~SeedPool(r), ~Distribute(r)
      PROVE  UNCHANGED wallets
  BY <1>9 DEF Step, Die, Fails, RecordLock, RecordLockFails, DeployVault,
     OptIntoAsset, OptIntoUsdc, SaveDeployed, Reject, ReturnLiquidity,
     ReturnFails, SaveReturned, Release, ReleaseFails, SaveReleased,
     WithdrawTokensFails, WithdrawUsdcFails, SeedFails, OptIntoLp, List,
     DistributeFails, outsideEscrow, outsideVaults, chainVars
<1>10. ASSUME NEW a \in Assets, DistributeFromVault(a)
       PROVE  WalletsTyped' /\ PoolsGrow
  BY <1>0, <1>10 DEF DistributeFromVault, WalletsTyped, PoolsGrow
<1>11. ASSUME NEW a \in Assets, Approve(a) \/ RecordByHand(a)
       PROVE  UNCHANGED wallets
  BY <1>11 DEF Approve, RecordByHand, outsideEscrow, chainVars
<1>12. ASSUME NEW d \in Deposits, Deposit(d) PROVE WalletsTyped' /\ PoolsGrow
  BY <1>0, <1>12 DEF Deposit, WalletsTyped, PoolsGrow
<1>13. ASSUME SetUpEscrow \/ PauseOrUnpause PROVE UNCHANGED wallets
  BY <1>13 DEF SetUpEscrow, PauseOrUnpause, outsideEscrow
<1>14. ASSUME Dispense PROVE WalletsTyped' /\ PoolsGrow
  BY <1>0, <1>14 DEF Dispense, DispenseAmount, WalletsTyped, PoolsGrow
<1>15. CASE UNCHANGED vars
  BY <1>0, <1>15 DEF vars, chainVars
<1> HIDE DEF wallets
<1>16. QED
  BY <1>0, <1>2, <1>3, <1>4, <1>5, <1>6, <1>7, <1>8, <1>9, <1>10, <1>11, <1>12,
     <1>13, <1>14, <1>15 DEF Next

LEMMA ChainMoves ==
    ASSUME TypeOK, RequestsKnow, [Next]_vars
    PROVE  ChainGrows
BY EscrowCalls, VaultCalls, WalletCalls, PaymentsGrow DEF TypeOK, ChainGrows,
   PoolsGrow
-----------------------------------------------------------------------------
(* The rows.  RowTrue says of one row all that the three properties claim. *)

RowTrue(a, row) ==
    /\ row \in Row
    /\ row.escrow = "RELEASED_TO_VAULT" => released[a] > 0
    /\ row.escrow = "RETURNED_TO_ISSUER" => returned[a] > 0
    /\ \A v \in Vaults : row.vault = v =>
           minted[v] = a /\ {"rwa", "usdc"} \subseteq vaults[v].optedIn
    /\ row.status = "ACTIVE" =>
           \E v \in Vaults : minted[v] = a /\ pools[v] = "seeded" /\ Holds(v, "lp") > 0

LEMMA RowsAreTrue ==
    /\ IInv => \A a \in Assets : RowTrue(a, rows[a])
    /\ (rows \in [Assets -> Row] /\ \A a \in Assets : RowTrue(a, rows[a])) =>
           EscrowColumnTrue /\ RowNamesReadyVault /\ ListedIsSeeded
BY DEF IInv, TypeOK, RowTrue, EscrowColumnTrue, RowNamesReadyVault, ListedIsSeeded

(* What the chain does never makes a row untrue. *)
LEMMA RowStaysTrue ==
    ASSUME TypeOK, TypeOK', ChainGrows, NEW a \in Assets, NEW row \in Row,
           RowTrue(a, row)
    PROVE  RowTrue(a, row)'
<1> USE IssuanceAssumption
<1>1. /\ row.escrow = "RELEASED_TO_VAULT" => released'[a] > 0
      /\ row.escrow = "RETURNED_TO_ISSUER" => returned'[a] > 0
  BY DEF RowTrue, ChainGrows, TypeOK, IssuanceEscrowTypeOK
<1>2. ASSUME NEW v \in Vaults, row.vault = v
      PROVE  minted'[v] = a /\ {"rwa", "usdc"} \subseteq vaults'[v].optedIn
  BY <1>2 DEF RowTrue, ChainGrows, VaultsGrow
<1>3. ASSUME row.status = "ACTIVE"
      PROVE  \E v \in Vaults : minted'[v] = a /\ pools'[v] = "seeded" /\ Holds(v, "lp")' > 0
  <2>1. PICK v \in Vaults : minted[v] = a /\ pools[v] = "seeded" /\ Holds(v, "lp") > 0
    BY <1>3 DEF RowTrue
  <2>2. Holds(v, "lp") \in Nat /\ Holds(v, "lp")' \in Nat
    BY DEF TypeOK, Vault, Holds, Kinds
  <2>3. Holds(v, "lp")' > 0 /\ minted'[v] = a /\ pools'[v] = "seeded"
    BY <2>1, <2>2 DEF ChainGrows, VaultsGrow
  <2>4. QED
    BY <2>3
<1>4. QED
  BY <1>1, <1>2, <1>3 DEF RowTrue

LEMMA WriteStep ==
    ASSUME TypeOK, NEW a \in Assets, NEW new \in Row, Write(a, new)
    PROVE  /\ rows' \in [Assets -> Row]
           /\ rows'[a] = new
           /\ \A b \in Assets \ {a} : rows'[b] = rows[b]
BY DEF TypeOK, Write

(* A write of a request or of an admin: what it puts into the row is true. *)
LEMMA RowWrites ==
    ASSUME IInv, [Next]_vars, ChainGrows
    PROVE  \/ rows' = rows
           \/ \E a \in Assets, new \in Row :
                  /\ Write(a, new)
                  /\ RowTrue(a, rows[a]) => RowTrue(a, new)'
<1> USE IssuanceAssumption DEF IInv
<1> DEFINE TrueWrite ==
               \E a \in Assets, new \in Row :
                   /\ Write(a, new)
                   /\ RowTrue(a, rows[a]) => RowTrue(a, new)'
<1>0. ASSUME NEW r \in Requests, requests[r].pc # "idle"
      PROVE  Asset(r) \in Assets /\ rows[Asset(r)] \in Row /\ Knows(requests[r])
  BY <1>0 DEF RequestsKnow, Knows, Asset, TypeOK
<1>1. ASSUME NEW r \in Requests, NEW a \in Assets, CreateAsset(r, a)
      PROVE  TrueWrite
  <2>n. PICK new : new = [NoRow EXCEPT !.status = "SUBMITTED",
                        !.escrow = IF PledgedUsdc[a] > 0 THEN "PENDING" ELSE "NONE"]
    OBVIOUS
  <2> USE <2>n
  <2>1. /\ new \in Row /\ new.status = "SUBMITTED" /\ new.vault = NoVaultId
        /\ new.escrow \in {"PENDING", "NONE"}
    BY DEF NoRow, Row, AssetStatus, Verification, EscrowStatus
  <2>2. Write(a, new)
    BY <1>1 DEF CreateAsset
  <2>3. RowTrue(a, new)'
    BY <2>1 DEF RowTrue
  <2>4. QED
    BY <2>1, <2>2, <2>3
<1>2. ASSUME NEW r \in Requests, SaveDeployed(r)
      PROVE  TrueWrite
  <2>a. PICK a : a = Asset(r)
    OBVIOUS
  <2> USE <2>a
  <2>n. PICK new : new = [rows[a] EXCEPT !.vault = VaultOf(r), !.status = "PRE_MARKET"]
    OBVIOUS
  <2> USE <2>n
  <2>1. /\ a \in Assets /\ rows[a] \in Row /\ VaultOf(r) \in Vaults
        /\ minted[VaultOf(r)] = a /\ CanReceive(VaultOf(r), "rwa")
        /\ CanReceive(VaultOf(r), "usdc")
    BY <1>0, <1>2 DEF SaveDeployed, At, Knows, Deploying, VaultOf, Asset
  <2>2. /\ new \in Row /\ new.status = "PRE_MARKET" /\ new.vault = VaultOf(r)
        /\ new.escrow = rows[a].escrow
    BY <2>1 DEF Row, AssetStatus
  <2>3. Write(a, new) /\ UNCHANGED <<released, returned, minted, vaults>>
    BY <1>2 DEF SaveDeployed, chainVars, issuanceEscrowVars
  <2>4. RowTrue(a, rows[a]) => RowTrue(a, new)'
    BY <2>1, <2>2, <2>3 DEF RowTrue, CanReceive
  <2>5. QED
    BY <2>1, <2>2, <2>3, <2>4
<1>3. ASSUME NEW a \in Assets, Approve(a) PROVE TrueWrite
  <2>n. PICK new : new = [rows[a] EXCEPT !.verification = "APPROVED"]
    OBVIOUS
  <2> USE <2>n
  <2>0. rows[a] \in Row
    BY DEF TypeOK
  <2>1. /\ new \in Row /\ new.status = rows[a].status /\ new.vault = rows[a].vault
        /\ new.escrow = rows[a].escrow
    BY <2>0 DEF Row, Verification
  <2>2. Write(a, new) /\ UNCHANGED chainVars
    BY <1>3 DEF Approve
  <2>3. RowTrue(a, rows[a]) => RowTrue(a, new)'
    BY <2>1, <2>2 DEF RowTrue, Holds, chainVars, issuanceEscrowVars
  <2>4. QED
    BY <2>1, <2>2, <2>3
<1>4. ASSUME NEW r \in Requests, Reject(r) PROVE TrueWrite
  <2>a. PICK a : a = Asset(r)
    OBVIOUS
  <2> USE <2>a
  <2>n. PICK new : new = [rows[a] EXCEPT !.verification = "REJECTED",
                                    !.status = "REJECTED"]
    OBVIOUS
  <2> USE <2>n
  <2>1. a \in Assets /\ rows[a] \in Row
    BY <1>0, <1>4 DEF Reject, At
  <2>2. /\ new \in Row /\ new.status = "REJECTED" /\ new.vault = rows[a].vault
        /\ new.escrow = rows[a].escrow
    BY <2>1 DEF Row, Verification, AssetStatus
  <2>3. Write(a, new) /\ UNCHANGED chainVars
    BY <1>4 DEF Reject
  <2>4. RowTrue(a, rows[a]) => RowTrue(a, new)'
    BY <2>2, <2>3 DEF RowTrue, chainVars, issuanceEscrowVars
  <2>5. QED
    BY <2>1, <2>2, <2>3, <2>4
<1>5. ASSUME NEW r \in Requests, SaveReturned(r) \/ SaveReleased(r)
      PROVE  TrueWrite
  <2>1. PICK status \in {"RETURNED_TO_ISSUER", "RELEASED_TO_VAULT"} :
            /\ Write(Asset(r), [rows[Asset(r)] EXCEPT !.escrow = status])
            /\ status = "RETURNED_TO_ISSUER" => At(r, "returned")
            /\ status = "RELEASED_TO_VAULT" => At(r, "released")
    BY <1>5 DEF SaveReturned, SaveReleased
  <2>a. PICK a : a = Asset(r)
    OBVIOUS
  <2> USE <2>a
  <2>n. PICK new : new = [rows[a] EXCEPT !.escrow = status]
    OBVIOUS
  <2> USE <2>n
  <2>2. /\ a \in Assets /\ rows[a] \in Row
        /\ status = "RETURNED_TO_ISSUER" => returned[a] > 0
        /\ status = "RELEASED_TO_VAULT" => released[a] > 0
    BY <1>0, <1>5, <2>1 DEF SaveReturned, SaveReleased, At, Knows, Asset
  <2>3. /\ new \in Row /\ new.status = rows[a].status /\ new.vault = rows[a].vault
        /\ new.escrow = status
    BY <2>2 DEF Row, EscrowStatus
  <2>4. Write(a, new) /\ UNCHANGED chainVars
    BY <1>5, <2>1 DEF SaveReturned, SaveReleased
  <2>5. RowTrue(a, rows[a]) => RowTrue(a, new)'
    BY <2>2, <2>3, <2>4 DEF RowTrue, Holds, chainVars, issuanceEscrowVars
  <2>6. QED
    BY <2>2, <2>3, <2>4, <2>5
<1>6. ASSUME NEW r \in Requests, List(r) PROVE TrueWrite
  <2>a. PICK a : a = Asset(r)
    OBVIOUS
  <2> USE <2>a
  <2>n. PICK new : new = [rows[a] EXCEPT !.status = "ACTIVE"]
    OBVIOUS
  <2> USE <2>n
  <2>1. /\ a \in Assets /\ rows[a] \in Row
        /\ \E v \in Vaults : minted[v] = a /\ pools[v] = "seeded" /\ Holds(v, "lp") > 0
    BY <1>0, <1>6 DEF List, At, Knows, Activating, Asset
  <2>2. /\ new \in Row /\ new.vault = rows[a].vault /\ new.escrow = rows[a].escrow
    BY <2>1 DEF Row, AssetStatus
  <2>3. Write(a, new) /\ UNCHANGED chainVars
    BY <1>6 DEF List
  <2>4. RowTrue(a, rows[a]) => RowTrue(a, new)'
    BY <2>1, <2>2, <2>3 DEF RowTrue, Holds, chainVars, issuanceEscrowVars
  <2>5. QED
    BY <2>1, <2>2, <2>3, <2>4
<1>7. ASSUME NEW r \in Requests, NEW a \in Assets, Arrive(r, a), ~CreateAsset(r, a)
      PROVE  rows' = rows
  BY <1>7 DEF Arrive, BeginDeploy, BeginReject, BeginActivate, BeginDistribute
<1>8. ASSUME NEW r \in Requests, Step(r) \/ Die(r), ~SaveDeployed(r), ~Reject(r),
             ~SaveReturned(r), ~SaveReleased(r), ~List(r)
      PROVE  rows' = rows
  BY <1>8 DEF Step, Die, Fails, RecordLock, RecordLockFails, Mint, DeployVault,
     OptIntoAsset, MoveSupply, OptIntoUsdc, ReturnLiquidity, ReturnFails,
     Release, ReleaseFails, WithdrawTokens, WithdrawTokensFails, WithdrawUsdc,
     WithdrawUsdcFails, BootstrapPool, SeedPool, SeedFails, OptIntoLp, SendLp,
     Distribute, DistributeFails, outsideEscrow, outsideVaults
<1>9. ASSUME NEW a \in Assets, RecordByHand(a) \/ DistributeFromVault(a)
      PROVE  rows' = rows
  BY <1>9 DEF RecordByHand, DistributeFromVault, outsideEscrow
<1>10. ASSUME NEW d \in Deposits, Deposit(d) PROVE rows' = rows
  BY <1>10 DEF Deposit
<1>11. ASSUME SetUpEscrow \/ PauseOrUnpause \/ Dispense PROVE rows' = rows
  BY <1>11 DEF SetUpEscrow, PauseOrUnpause, Dispense, outsideEscrow
<1>12. ASSUME UNCHANGED vars PROVE rows' = rows
  BY <1>12 DEF vars
<1> HIDE DEF TrueWrite
<1>13. rows' = rows \/ TrueWrite
  BY <1>1, <1>2, <1>3, <1>4, <1>5, <1>6, <1>7, <1>8, <1>9, <1>10, <1>11, <1>12
     DEF Next
<1>14. QED
  BY <1>13 DEF TrueWrite
-----------------------------------------------------------------------------
(* The requests.  One request moves at a time. *)
LEMMA OneActor ==
    ASSUME TypeOK, NEW r \in Requests,
           Step(r) \/ Die(r) \/ \E a \in Assets : Arrive(r, a)
    PROVE  /\ requests' \in [Requests -> Request]
           /\ \A q \in Requests \ {r} : requests'[q] = requests[q]
<1> DEFINE Moved == /\ requests' \in [Requests -> Request]
                     /\ \A q \in Requests \ {r} : requests'[q] = requests[q]
<1>1. ASSUME Done(r) PROVE Moved
  BY <1>1, DoneStep
<1>2. ASSUME NEW pc \in PC, Goto(r, pc) PROVE Moved
  BY <1>2, GotoStep
<1>3. ASSUME NEW a \in Assets, NEW pc \in PC, Begin(r, a, pc) PROVE Moved
  BY <1>3, BeginStep
<1>4. ASSUME NEW a \in Assets, CreateAsset(r, a) PROVE Moved
  <2>1. /\ Idle \in Request
        /\ [Idle EXCEPT !.pc = "record", !.asset = a] \in Request
    BY DEF Request, Idle, PC, EscrowStatus
  <2>2. \E new \in Request : requests' = [requests EXCEPT ![r] = new]
    BY <1>4, <2>1 DEF CreateAsset
  <2>3. QED
    BY <2>2 DEF TypeOK
<1>5. ASSUME Mint(r) PROVE Moved
  <2>1. PICK v \in Vaults :
            requests' = [requests EXCEPT ![r].pc = "vault", ![r].vault = v]
    BY <1>5 DEF Mint
  <2>2. [requests[r] EXCEPT !.pc = "vault", !.vault = v] \in Request
    BY DEF TypeOK, Request, PC
  <2>3. requests' = [requests EXCEPT
                        ![r] = [requests[r] EXCEPT !.pc = "vault", !.vault = v]]
    BY <2>1 DEF TypeOK, Request
  <2>4. QED
    BY <2>2, <2>3 DEF TypeOK
<1> HIDE DEF Moved
<1>6. ASSUME NEW a \in Assets, Arrive(r, a) PROVE Moved
  <2>1. FirstActivationStep(a) \in PC
    BY DEF FirstActivationStep, PC
  <2>2. {"mint", "reject", "distribute"} \subseteq PC
    BY DEF PC
  <2>3. QED
    BY <1>3, <1>4, <1>6, <2>1, <2>2 DEF Arrive, BeginDeploy, BeginReject,
       BeginActivate, BeginDistribute
<1>7. ASSUME Step(r) PROVE Done(r) \/ Mint(r) \/ \E pc \in PC : Goto(r, pc)
  BY <1>7 DEF Step, Fails, RecordLock, RecordLockFails, DeployVault,
     OptIntoAsset, MoveSupply, OptIntoUsdc, SaveDeployed, Reject,
     ReturnLiquidity, ReturnFails, SaveReturned, Release, ReleaseFails,
     SaveReleased, WithdrawTokens, WithdrawTokensFails, WithdrawUsdc,
     WithdrawUsdcFails, BootstrapPool, SeedPool, SeedFails, OptIntoLp, SendLp,
     List, Distribute, DistributeFails, PC
<1>8. QED
  BY <1>1, <1>2, <1>5, <1>6, <1>7 DEF Die, Moved

(* Only the request that seeds a pool moves it on from "empty", and only   *)
(* the one that sends its LP tokens takes them out of the wallet.          *)
LEMMA SeederMoves ==
    ASSUME TypeOK, RequestsKnow, [Next]_vars, NEW v \in Vaults
    PROVE  /\ \/ pools[v] = "empty" => pools'[v] = "empty"
              \/ \E r \in Requests : SeedPool(r) /\ VaultOf(r) = v
           /\ \/ adminHolds[v].lp <= adminHolds'[v].lp
              \/ \E r \in Requests : SendLp(r) /\ VaultOf(r) = v
<1> DEFINE Kept == /\ pools[v] = "empty" => pools'[v] = "empty"
                   /\ adminHolds[v].lp <= adminHolds'[v].lp
<1>0. /\ adminHolds[v] \in [tokens: Nat, lp: Nat]
      /\ UNCHANGED <<pools, adminHolds>> => Kept
  BY DEF TypeOK
<1>1. ASSUME NEW r \in Requests, Mint(r) \/ MoveSupply(r) \/ WithdrawTokens(r)
                                 \/ Distribute(r)
      PROVE  Kept
  BY <1>0, <1>1 DEF Mint, MoveSupply, WithdrawTokens, Distribute, outsideVaults,
     TypeOK
<1>2. ASSUME NEW r \in Requests, BootstrapPool(r) PROVE Kept
  BY <1>0, <1>2 DEF BootstrapPool, TypeOK
<1>3. ASSUME NEW r \in Requests, SeedPool(r), VaultOf(r) # v PROVE Kept
  BY <1>0, <1>3 DEF SeedPool, TypeOK
<1>4. ASSUME NEW r \in Requests, SeedPool(r)
      PROVE  adminHolds[v].lp <= adminHolds'[v].lp
  BY <1>0, <1>4 DEF SeedPool, TypeOK
<1>5. ASSUME NEW r \in Requests, SendLp(r), VaultOf(r) # v PROVE Kept
  BY <1>0, <1>5 DEF SendLp, outsideVaults, TypeOK
<1>6. ASSUME NEW r \in Requests, SendLp(r) PROVE UNCHANGED pools
  BY <1>6 DEF SendLp, outsideVaults
<1>7. ASSUME NEW r \in Requests, Step(r) \/ Die(r), ~Mint(r), ~MoveSupply(r),
             ~WithdrawTokens(r), ~Distribute(r), ~BootstrapPool(r),
             ~SeedPool(r), ~SendLp(r)
      PROVE  UNCHANGED <<pools, adminHolds>>
  BY <1>7 DEF Step, Die, Fails, RecordLock, RecordLockFails, DeployVault,
     OptIntoAsset, OptIntoUsdc, SaveDeployed, Reject, ReturnLiquidity,
     ReturnFails, SaveReturned, Release, ReleaseFails, SaveReleased,
     WithdrawTokensFails, WithdrawUsdc, WithdrawUsdcFails, SeedFails, OptIntoLp,
     List, DistributeFails, outsideEscrow, outsideVaults, chainVars
<1>8. ASSUME NEW r \in Requests, NEW a \in Assets, Arrive(r, a)
      PROVE  UNCHANGED <<pools, adminHolds>>
  BY <1>8 DEF Arrive, CreateAsset, BeginDeploy, BeginReject, BeginActivate,
     BeginDistribute, chainVars
<1>9. ASSUME NEW a \in Assets, Approve(a) \/ RecordByHand(a) \/ DistributeFromVault(a)
      PROVE  UNCHANGED <<pools, adminHolds>>
  BY <1>9 DEF Approve, RecordByHand, DistributeFromVault, outsideEscrow, chainVars
<1>10. ASSUME \/ \E d \in Deposits : Deposit(d)
              \/ SetUpEscrow \/ PauseOrUnpause \/ Dispense
       PROVE  UNCHANGED <<pools, adminHolds>>
  BY <1>10 DEF Deposit, SetUpEscrow, PauseOrUnpause, Dispense, outsideEscrow
<1>11. ASSUME UNCHANGED vars PROVE UNCHANGED <<pools, adminHolds>>
  BY <1>11 DEF vars, chainVars
<1> HIDE DEF Kept
<1>12. \/ Kept
       \/ \E r \in Requests : SeedPool(r) /\ VaultOf(r) = v
       \/ \E r \in Requests : SendLp(r) /\ VaultOf(r) = v
  BY <1>0, <1>1, <1>2, <1>3, <1>5, <1>7, <1>8, <1>9, <1>10, <1>11 DEF Next
<1>13. QED
  BY <1>4, <1>6, <1>12 DEF Kept
(* Type correctness of the whole system. *)
LEMMA TypeStep ==
    ASSUME TypeOK, RequestsKnow, EscrowColumnTrue, RowNamesReadyVault,
           ListedIsSeeded, OneSeeder, [Next]_vars
    PROVE  TypeOK'
<1>1. IssuanceEscrowTypeOK'
  BY EscrowCalls, EscrowTypeStep DEF TypeOK
<1>2. vaults' \in [Vaults -> Vault]
  BY VaultCalls DEF VaultsTyped
<1>3. WalletsTyped'
  BY WalletCalls
<1>4. requests' \in [Requests -> Request]
  <2>1. \/ requests' = requests
        \/ \E r \in Requests : Step(r) \/ Die(r) \/ \E a \in Assets : Arrive(r, a)
    BY DEF Next, Approve, RecordByHand, DistributeFromVault, Deposit,
       SetUpEscrow, PauseOrUnpause, Dispense, vars
  <2>2. QED
    BY <2>1, OneActor DEF TypeOK
<1>5. rows' \in [Assets -> Row]
  BY ChainMoves, RowWrites, WriteStep DEF IInv, TypeOK
<1>6. QED
  BY <1>1, <1>2, <1>3, <1>4, <1>5 DEF TypeOK, WalletsTyped

(* What a request that stands still knows stays true: no other request     *)
(* undoes what it has done.                                                *)
LEMMA KnowledgeStays ==
    ASSUME IInv, TypeOK', [Next]_vars, NEW q \in Requests,
           requests'[q] = requests[q]
    PROVE  Knows(requests[q])'
<1> USE IssuanceAssumption DEF IInv
<1>1. Knows(requests[q]) /\ requests[q] \in Request
  BY DEF RequestsKnow, TypeOK
<1>2. ChainGrows
  BY ChainMoves
<1> DEFINE v == requests[q].vault
           a == requests[q].asset
<1>3. CASE requests[q].pc \notin Deploying \cup Activating \cup {"distribute"}
  <2>1. requests[q].pc \notin {"supply", "usdc", "deployed", "released", "seed",
                               "lp", "sendlp", "list"}
    BY <1>3 DEF Deploying, Activating
  <2>2. requests[q].pc = "returned" => returned'[a] > 0
    BY <1>1, <1>2 DEF Knows, ChainGrows, TypeOK, IssuanceEscrowTypeOK
  <2>3. QED
    BY <1>1, <1>3, <2>1, <2>2 DEF Knows
<1>4. CASE requests[q].pc \in Deploying \cup Activating \cup {"distribute"}
  <2>1. v \in Vaults /\ a \in Assets /\ minted[v] = a
    BY <1>1, <1>4 DEF Knows, Deploying, Activating
  <2>2. minted'[v] = a
    BY <1>2, <2>1 DEF ChainGrows
  <2>3. /\ CanReceive(v, "rwa") => "rwa" \in vaults'[v].optedIn
        /\ CanReceive(v, "usdc") => "usdc" \in vaults'[v].optedIn
    BY <1>2, <2>1 DEF ChainGrows, VaultsGrow, CanReceive
  <2>4. /\ released[a] > 0 => released'[a] > 0
        /\ returned[a] > 0 => returned'[a] > 0
    BY <1>2, <2>1 DEF ChainGrows, TypeOK, IssuanceEscrowTypeOK
  <2>5. Holds(v, "lp") > 0 => vaults'[v].holds["lp"] > 0
    <3>1. vaults[v].holds["lp"] \in Nat /\ vaults'[v].holds["lp"] \in Nat
      BY <2>1 DEF TypeOK, Vault, Kinds
    <3>2. QED
      BY <1>2, <2>1, <3>1 DEF ChainGrows, VaultsGrow, Holds
  <2>6. requests[q].pc \in Seeding =>
            /\ pools[v] = "empty" => pools'[v] = "empty"
            /\ adminHolds[v].lp <= adminHolds'[v].lp
    <3>1. SUFFICES ASSUME requests[q].pc \in Seeding
                   PROVE  /\ pools[v] = "empty" => pools'[v] = "empty"
                          /\ adminHolds[v].lp <= adminHolds'[v].lp
      OBVIOUS
    <3>2. ASSUME NEW r \in Requests, SeedPool(r) \/ SendLp(r), VaultOf(r) = v
          PROVE  FALSE
      <4>1. requests[r].pc \in Seeding
        BY <3>2 DEF SeedPool, SendLp, At, Seeding
      <4>2. requests'[r].pc # requests[r].pc
        BY <3>2 DEF SeedPool, SendLp, At, Goto, TypeOK, Request
      <4>3. r # q
        BY <4>2
      <4>4. QED
        BY <3>1, <3>2, <4>1, <4>3 DEF OneSeeder, VaultOf
    <3>3. QED
      BY <2>1, <3>2, SeederMoves
  <2>7. pools[v] = "seeded" => pools'[v] = "seeded"
    BY <1>2, <2>1 DEF ChainGrows
  <2>8. adminHolds[v].lp \in Nat /\ adminHolds'[v].lp \in Nat
    BY <2>1 DEF TypeOK
  <2>9. /\ requests[q].pc = "seed" => pools'[v] = "empty"
        /\ requests[q].pc \in {"lp", "sendlp", "list"} => pools'[v] = "seeded"
        /\ requests[q].pc \in {"lp", "sendlp"} => adminHolds'[v].lp > 0
        /\ requests[q].pc = "list" => vaults'[v].holds["lp"] > 0
    BY <1>1, <2>5, <2>6, <2>7, <2>8 DEF Knows, Seeding
  <2>10. /\ requests[q].pc \in {"supply", "usdc", "deployed"} =>
                "rwa" \in vaults'[v].optedIn
         /\ requests[q].pc = "deployed" => "usdc" \in vaults'[v].optedIn
         /\ requests[q].pc = "released" => released'[a] > 0
         /\ requests[q].pc = "returned" => returned'[a] > 0
         /\ requests[q].pc = "record" => PledgedUsdc[a] > 0
    BY <1>1, <2>3, <2>4 DEF Knows
  <2>11. QED
    BY <2>1, <2>2, <2>9, <2>10 DEF Knows, CanReceive, Holds
<1>5. QED
  BY <1>3, <1>4
(* A request that goes on knows what its step has just done.               *)
LEMMA KnowledgeGrows ==
    ASSUME IInv, TypeOK', [Next]_vars, NEW r \in Requests,
           Step(r) \/ Die(r) \/ \E a \in Assets : Arrive(r, a)
    PROVE  Knows(requests[r])'
<1> USE IssuanceAssumption, IssuanceEscrowAssumption, TokenVaultAssumption DEF IInv
<1> DEFINE v == requests[r].vault
           a == requests[r].asset
           new == requests'[r]
<1>0. /\ ChainGrows /\ Knows(requests[r]) /\ requests[r] \in Request
      /\ VaultOf(r) = v /\ Asset(r) = a
  BY ChainMoves DEF RequestsKnow, TypeOK, VaultOf, Asset
<1>1. ASSUME new = Idle PROVE Knows(requests[r])'
  BY <1>1 DEF Knows, Idle, Deploying, Activating
<1>2. ASSUME Done(r) PROVE Knows(requests[r])'
  BY <1>1, <1>2, DoneStep
<1>3. ASSUME NEW pc \in PC, Goto(r, pc)
      PROVE  new.pc = pc /\ new.asset = a /\ new.vault = v
  BY <1>3, GotoStep
<1>4. ASSUME NEW b \in Assets, CreateAsset(r, b) PROVE Knows(requests[r])'
  <2>1. CASE Tracked(b)
    <3>1. new = [Idle EXCEPT !.pc = "record", !.asset = b]
      BY <1>4, <2>1 DEF CreateAsset, TypeOK
    <3>2. new.pc = "record" /\ new.asset = b
      BY <3>1 DEF Idle
    <3>3. QED
      BY <2>1, <3>2 DEF Knows, Tracked, Deploying, Activating
  <2>2. CASE ~Tracked(b)
    BY <1>1, <1>4, <2>2 DEF CreateAsset, TypeOK
  <2>3. QED
    BY <2>1, <2>2
<1>5. ASSUME NEW b \in Assets, NEW pc \in PC, Begin(r, b, pc), UNCHANGED chainVars,
             \/ pc \in {"mint", "reject"}
             \/ pc \in {"release", "withdraw", "distribute"} /\ rows[b].vault # NoVaultId
      PROVE  Knows(requests[r])'
  <2>1. new.pc = pc /\ new.asset = b /\ new.vault = rows[b].vault
    <3>1. new = [pc |-> pc, asset |-> b, vault |-> rows[b].vault,
                 escrow |-> rows[b].escrow]
      BY <1>5 DEF Begin, TypeOK
    <3>2. QED
      BY <3>1
  <2>2. rows[b].vault # NoVaultId =>
            rows[b].vault \in Vaults /\ minted'[rows[b].vault] = b
    BY <1>5 DEF RowNamesReadyVault, TypeOK, Row, chainVars
  <2>3. QED
    BY <1>5, <2>1, <2>2 DEF Knows, Deploying, Activating
<1>6. ASSUME NEW b \in Assets, Arrive(r, b) PROVE Knows(requests[r])'
  <2>1. /\ FirstActivationStep(b) \in PC
        /\ FirstActivationStep(b) \in {"release", "withdraw", "distribute"}
    BY DEF FirstActivationStep, PC
  <2>2. {"mint", "reject", "distribute"} \subseteq PC
    BY DEF PC
  <2>3. QED
    BY <1>4, <1>5, <1>6, <2>1, <2>2 DEF Arrive, BeginDeploy, BeginReject,
       BeginActivate, BeginDistribute
<1>7. ASSUME Mint(r) PROVE Knows(requests[r])'
  <2>1. PICK w \in Vaults :
            /\ minted' = [minted EXCEPT ![w] = Asset(r)]
            /\ requests' = [requests EXCEPT ![r].pc = "vault", ![r].vault = w]
    BY <1>7 DEF Mint
  <2>2. new.pc = "vault" /\ new.vault = w /\ new.asset = a
    BY <2>1 DEF TypeOK, Request
  <2>3. a \in Assets /\ minted'[w] = a
    BY <1>0, <1>7, <2>1 DEF Mint, At, Knows, TypeOK
  <2>4. QED
    BY <2>2, <2>3 DEF Knows, Deploying, Activating
(* From here on the request keeps its asset and its vault.                 *)
<1>8. /\ requests[r].pc \in Deploying \cup Activating =>
             /\ v \in Vaults /\ a \in Assets
             /\ minted[v] = a /\ minted'[v] = a
      /\ requests[r].pc # "idle" => a \in Assets
      /\ {"optin", "supply", "usdc", "deployed", "return", "returned", "released",
          "withdraw", "withdrawUsdc", "bootstrap", "seed", "lp", "sendlp",
          "list"} \subseteq PC
  BY <1>0 DEF Knows, Deploying, Activating, ChainGrows, PC
<1>9. ASSUME DeployVault(r) PROVE Knows(requests[r])'
  <2>1. Goto(r, "optin") /\ requests[r].pc = "vault"
    BY <1>9 DEF DeployVault, At
  <2>2. QED
    BY <1>3, <1>8, <2>1 DEF Knows, Deploying, Activating
<1>10. ASSUME OptIntoAsset(r) PROVE Knows(requests[r])'
  <2>1. Goto(r, "supply") /\ requests[r].pc = "optin" /\ OptInVault(v, "rwa")
    BY <1>0, <1>10 DEF OptIntoAsset, At
  <2>2. v \in Vaults /\ "rwa" \in vaults'[v].optedIn
    BY <1>8, <2>1, OptInStep DEF Deploying, Kinds, TypeOK, VaultsTyped
  <2>3. QED
    BY <1>3, <1>8, <2>1, <2>2 DEF Knows, Deploying, Activating, CanReceive
<1>11. ASSUME MoveSupply(r) PROVE Knows(requests[r])'
  <2>1. Goto(r, "usdc") /\ requests[r].pc = "supply"
    BY <1>11 DEF MoveSupply, At
  <2>2. v \in Vaults /\ "rwa" \in vaults'[v].optedIn
    BY <1>0, <1>8, <2>1 DEF Knows, CanReceive, ChainGrows, VaultsGrow, Deploying
  <2>3. QED
    BY <1>3, <1>8, <2>1, <2>2 DEF Knows, Deploying, Activating, CanReceive
<1>12. ASSUME OptIntoUsdc(r) PROVE Knows(requests[r])'
  <2>1. Goto(r, "deployed") /\ requests[r].pc = "usdc" /\ OptInVault(v, "usdc")
    BY <1>0, <1>12 DEF OptIntoUsdc, At
  <2>2. v \in Vaults /\ "usdc" \in vaults'[v].optedIn
    BY <1>8, <2>1, OptInStep DEF Deploying, Kinds, TypeOK, VaultsTyped
  <2>3. "rwa" \in vaults'[v].optedIn
    BY <1>0, <2>1, <2>2 DEF Knows, CanReceive, ChainGrows, VaultsGrow
  <2>4. QED
    BY <1>3, <1>8, <2>1, <2>2, <2>3 DEF Knows, Deploying, Activating, CanReceive
<1>13. ASSUME Reject(r) PROVE Knows(requests[r])'
  <2>1. Goto(r, "return") \/ Done(r)
    BY <1>13 DEF Reject
  <2>2. requests[r].pc = "reject"
    BY <1>13 DEF Reject, At
  <2>3. QED
    BY <1>2, <1>3, <1>8, <2>1, <2>2 DEF Knows, Deploying, Activating
<1>14. ASSUME ReturnLiquidity(r) PROVE Knows(requests[r])'
  <2>1. Goto(r, "returned") /\ requests[r].pc = "return" /\ ReturnToIssuer(a)
    BY <1>0, <1>14 DEF ReturnLiquidity, At
  <2>2. a \in Assets /\ returned'[a] > 0
    BY <1>8, <2>1 DEF ReturnToIssuer, TypeOK, IssuanceEscrowTypeOK
  <2>3. QED
    BY <1>3, <1>8, <2>1, <2>2 DEF Knows, Deploying, Activating
<1>15. ASSUME Release(r) PROVE Knows(requests[r])'
  <2>1. Goto(r, "released") /\ requests[r].pc = "release" /\ ReleaseToVault(a)
    BY <1>0, <1>15 DEF Release, At
  <2>2. v \in Vaults /\ a \in Assets /\ minted'[v] = a
    BY <1>8, <2>1 DEF Activating
  <2>3. released'[a] > 0
    BY <2>1, <2>2 DEF ReleaseToVault, TypeOK, IssuanceEscrowTypeOK
  <2>4. QED
    BY <1>3, <1>8, <2>1, <2>2, <2>3 DEF Knows, Deploying, Activating
<1>16. ASSUME NEW pc \in {"withdraw", "withdrawUsdc", "bootstrap"}, Goto(r, pc),
              requests[r].pc \in {"released", "withdraw", "withdrawUsdc"}
       PROVE  Knows(requests[r])'
  BY <1>3, <1>8, <1>16 DEF Knows, Deploying, Activating
<1>17. ASSUME SaveReleased(r) \/ WithdrawTokens(r) \/ WithdrawUsdc(r)
       PROVE  Knows(requests[r])'
  BY <1>16, <1>17 DEF SaveReleased, WithdrawTokens, WithdrawUsdc, At
<1>18. ASSUME BootstrapPool(r) PROVE Knows(requests[r])'
  <2>1. Goto(r, "seed") /\ requests[r].pc = "bootstrap"
    BY <1>18 DEF BootstrapPool, At
  <2>2. v \in Vaults /\ pools'[v] = "empty"
    BY <1>0, <1>8, <1>18, <2>1 DEF BootstrapPool, Activating, TypeOK
  <2>3. QED
    BY <1>3, <1>8, <2>1, <2>2 DEF Knows, Deploying, Activating
<1>19. ASSUME SeedPool(r) PROVE Knows(requests[r])'
  <2>1. Goto(r, "lp") /\ requests[r].pc = "seed"
    BY <1>19 DEF SeedPool, At
  <2>2. v \in Vaults /\ adminHolds[v] \in [tokens: Nat, lp: Nat]
    BY <1>8, <2>1 DEF Activating, TypeOK
  <2>3. pools'[v] = "seeded" /\ adminHolds'[v].lp > 0
    BY <1>0, <1>19, <2>2 DEF SeedPool, TypeOK
  <2>4. QED
    BY <1>3, <1>8, <2>1, <2>2, <2>3 DEF Knows, Deploying, Activating
<1>20. ASSUME OptIntoLp(r) PROVE Knows(requests[r])'
  <2>1. /\ Goto(r, "sendlp") /\ requests[r].pc = "lp"
        /\ UNCHANGED <<pools, adminHolds>>
    BY <1>20 DEF OptIntoLp, At, outsideVaults
  <2>2. v \in Vaults /\ pools'[v] = "seeded" /\ adminHolds'[v].lp > 0
    BY <1>0, <1>8, <2>1 DEF Knows, Activating
  <2>3. QED
    BY <1>3, <1>8, <2>1, <2>2 DEF Knows, Deploying, Activating
<1>21. ASSUME SendLp(r) PROVE Knows(requests[r])'
  <2>1. /\ Goto(r, "list") /\ requests[r].pc = "sendlp" /\ UNCHANGED pools
        /\ ReceiveInVault(v, "lp", adminHolds[v].lp)
    BY <1>0, <1>21 DEF SendLp, At, outsideVaults
  <2>2. /\ v \in Vaults /\ pools'[v] = "seeded"
        /\ adminHolds[v].lp \in Nat /\ adminHolds[v].lp > 0
    BY <1>0, <1>8, <2>1 DEF Knows, Activating, TypeOK
  <2>3. Holds(v, "lp") \in Nat
    BY <2>2 DEF Holds, TypeOK, Vault, Kinds
  <2>4. vaults'[v].holds["lp"] = Holds(v, "lp") + adminHolds[v].lp
    BY <2>1, <2>2, ReceiveStep DEF Kinds, TypeOK, VaultsTyped, Holds
  <2>5. QED
    BY <1>3, <1>8, <2>1, <2>2, <2>3, <2>4 DEF Knows, Deploying, Activating, Holds
<1>22. ASSUME \/ RecordLock(r) \/ RecordLockFails(r) \/ SaveDeployed(r)
              \/ ReturnFails(r) \/ SaveReturned(r) \/ ReleaseFails(r)
              \/ WithdrawTokensFails(r) \/ WithdrawUsdcFails(r) \/ SeedFails(r)
              \/ List(r) \/ Distribute(r) \/ DistributeFails(r) \/ Die(r)
       PROVE  Done(r)
  BY <1>22 DEF RecordLock, RecordLockFails, SaveDeployed, ReturnFails,
     SaveReturned, ReleaseFails, WithdrawTokensFails, WithdrawUsdcFails,
     SeedFails, List, Distribute, DistributeFails, Die, Fails
<1>23. QED
  BY <1>2, <1>6, <1>7, <1>9, <1>10, <1>11, <1>12, <1>13, <1>14, <1>15, <1>17,
     <1>18, <1>19, <1>20, <1>21, <1>22 DEF Step
(* Bootstrapping needs a pool that does not exist, and whoever is seeding  *)
(* one has made it.                                                        *)
LEMMA SeederStep ==
    ASSUME IInv, [Next]_vars
    PROVE  OneSeeder'
<1> USE DEF IInv
<1>1. \/ requests' = requests
      \/ \E r \in Requests : Step(r) \/ Die(r) \/ \E a \in Assets : Arrive(r, a)
  BY DEF Next, Approve, RecordByHand, DistributeFromVault, Deposit,
     SetUpEscrow, PauseOrUnpause, Dispense, vars
<1>2. CASE requests' = requests
  BY <1>2 DEF OneSeeder
<1>3. ASSUME NEW r \in Requests,
             Step(r) \/ Die(r) \/ \E a \in Assets : Arrive(r, a)
      PROVE  OneSeeder'
  <2>1. \A q \in Requests \ {r} : requests'[q] = requests[q]
    BY <1>3, OneActor
  <2>2. \/ requests'[r].pc \notin Seeding
        \/ requests[r].pc \in Seeding /\ requests'[r].vault = requests[r].vault
        \/ BootstrapPool(r) /\ requests'[r].vault = requests[r].vault
    <3>1. ASSUME Done(r) PROVE requests'[r].pc \notin Seeding
      BY <3>1, DoneStep DEF Idle, Seeding
    <3>2. ASSUME NEW pc \in PC, Goto(r, pc)
          PROVE  requests'[r].pc = pc /\ requests'[r].vault = requests[r].vault
      BY <3>2, GotoStep
    <3>3. ASSUME NEW a \in Assets, Arrive(r, a) PROVE requests'[r].pc \notin Seeding
      <4>1. ASSUME NEW pc, Begin(r, a, pc) PROVE requests'[r].pc = pc
        BY <4>1 DEF Begin, TypeOK
      <4>2. FirstActivationStep(a) \notin Seeding
        BY DEF FirstActivationStep, Seeding
      <4>3. CASE CreateAsset(r, a)
        <5>1. requests'[r] \in {Idle, [Idle EXCEPT !.pc = "record", !.asset = a]}
          BY <4>3 DEF CreateAsset, TypeOK
        <5>2. /\ Idle.pc = "idle"
              /\ [Idle EXCEPT !.pc = "record", !.asset = a].pc = "record"
          BY DEF Idle
        <5>3. requests'[r].pc \in {"idle", "record"}
          BY <5>1, <5>2
        <5>4. QED
          BY <5>3 DEF Seeding
      <4>4. QED
        BY <3>3, <4>1, <4>2, <4>3 DEF Arrive, BeginDeploy, BeginReject,
           BeginActivate, BeginDistribute, Seeding
    <3>4. ASSUME Mint(r) PROVE requests'[r].pc \notin Seeding
      BY <3>4 DEF Mint, TypeOK, Request, Seeding
    <3>5. ASSUME NEW pc \in PC \ Seeding, Goto(r, pc)
          PROVE  requests'[r].pc \notin Seeding
      BY <3>2, <3>5
    <3>6. {"optin", "supply", "usdc", "deployed", "return", "returned", "released",
           "withdraw", "withdrawUsdc", "bootstrap", "list"} \subseteq PC \ Seeding
      BY DEF PC, Seeding
    <3>7. ASSUME Step(r), ~Mint(r), ~BootstrapPool(r), ~SeedPool(r), ~OptIntoLp(r)
          PROVE  Done(r) \/ \E pc \in PC \ Seeding : Goto(r, pc)
      BY <3>6, <3>7 DEF Step, Fails, RecordLock, RecordLockFails, DeployVault,
         OptIntoAsset, MoveSupply, OptIntoUsdc, SaveDeployed, Reject,
         ReturnLiquidity, ReturnFails, SaveReturned, Release, ReleaseFails,
         SaveReleased, WithdrawTokens, WithdrawTokensFails, WithdrawUsdc,
         WithdrawUsdcFails, SeedFails, SendLp, List, Distribute, DistributeFails
    <3>8. ASSUME BootstrapPool(r) \/ SeedPool(r) \/ OptIntoLp(r)
          PROVE  /\ requests'[r].vault = requests[r].vault
                 /\ BootstrapPool(r) \/ requests[r].pc \in Seeding
      <4>1. \E pc \in PC : Goto(r, pc)
        BY <3>8 DEF BootstrapPool, SeedPool, OptIntoLp, PC
      <4>2. QED
        BY <3>2, <3>8, <4>1 DEF SeedPool, OptIntoLp, At, Seeding
    <3>9. QED
      BY <1>3, <3>1, <3>3, <3>4, <3>5, <3>7, <3>8 DEF Die
  <2>3. ASSUME BootstrapPool(r), NEW q \in Requests \ {r}, requests[q].pc \in Seeding
        PROVE  requests[q].vault # requests[r].vault
    <3>1. pools[requests[r].vault] = "none"
      BY <2>3 DEF BootstrapPool, VaultOf
    <3>2. pools[requests[q].vault] \in {"empty", "seeded"}
      BY <2>3 DEF RequestsKnow, Knows, Seeding
    <3>3. QED
      BY <3>1, <3>2
  <2>4. ASSUME NEW q \in Requests \ {r},
               requests'[q].pc \in Seeding, requests'[r].pc \in Seeding
        PROVE  requests'[q].vault # requests'[r].vault
    BY <2>1, <2>2, <2>3, <2>4 DEF OneSeeder
  <2>5. QED
    BY <2>1, <2>4 DEF OneSeeder
<1>4. QED
  BY <1>1, <1>2, <1>3

-----------------------------------------------------------------------------
LEMMA InvInit == Init => IInv
<1> SUFFICES ASSUME Init PROVE IInv
  OBVIOUS
<1> USE IssuanceAssumption, IssuanceEscrowAssumption, TokenVaultAssumption DEF Init
<1>1. requests \in [Requests -> Request] /\ \A r \in Requests : requests[r] = Idle
  BY DEF Idle, Request, PC, EscrowStatus
<1>2. /\ rows \in [Assets -> Row]
      /\ \A a \in Assets : rows[a] = NoRow
  BY DEF NoRow, Row, AssetStatus, Verification, EscrowStatus
<1>3. vaults \in [Vaults -> Vault]
  <2>1. NoVault \in Vault
    BY DEF NoVault, Vault
  <2>2. QED
    BY <2>1 DEF VaultInit
<1>4. TypeOK
  BY <1>1, <1>2, <1>3, EscrowTypeInit DEF TypeOK
<1>5. RequestsKnow
  BY <1>1 DEF RequestsKnow, Knows, Idle, Deploying, Activating
<1>6. OneSeeder
  BY <1>1 DEF OneSeeder, Idle, Seeding
<1>7. EscrowColumnTrue /\ RowNamesReadyVault /\ ListedIsSeeded
  BY <1>2 DEF EscrowColumnTrue, RowNamesReadyVault, ListedIsSeeded, NoRow
<1>8. QED
  BY <1>4, <1>5, <1>6, <1>7 DEF IInv

LEMMA InvStep ==
    ASSUME IInv, [Next]_vars
    PROVE  IInv'
<1>1. TypeOK' /\ ChainGrows
  BY TypeStep, ChainMoves DEF IInv
<1>2. RequestsKnow'
  <2>1. \/ requests' = requests
        \/ \E r \in Requests : Step(r) \/ Die(r) \/ \E a \in Assets : Arrive(r, a)
    BY DEF Next, Approve, RecordByHand, DistributeFromVault, Deposit,
       SetUpEscrow, PauseOrUnpause, Dispense, vars
  <2>2. ASSUME NEW q \in Requests PROVE Knows(requests[q])'
    <3>1. CASE requests'[q] = requests[q]
      BY <1>1, <3>1, KnowledgeStays
    <3>2. CASE requests'[q] # requests[q]
      <4>1. Step(q) \/ Die(q) \/ \E a \in Assets : Arrive(q, a)
        BY <2>1, <3>2, OneActor DEF IInv
      <4>2. QED
        BY <1>1, <4>1, KnowledgeGrows
    <3>3. QED
      BY <3>1, <3>2
  <2>3. QED
    BY <2>2 DEF RequestsKnow
<1>3. OneSeeder'
  BY SeederStep
<1>4. \A a \in Assets : RowTrue(a, rows[a])
  BY RowsAreTrue
<1>5. ASSUME NEW a \in Assets PROVE RowTrue(a, rows[a])'
  <2>1. rows[a] \in Row /\ RowTrue(a, rows[a])
    BY <1>4 DEF IInv, TypeOK
  <2>2. CASE rows'[a] = rows[a]
    <3>1. PICK row \in Row : row = rows[a]
      BY <2>1
    <3>2. RowTrue(a, row)'
      BY <1>1, <2>1, <3>1, RowStaysTrue DEF IInv
    <3>3. QED
      BY <2>2, <3>1, <3>2 DEF RowTrue
  <2>3. CASE rows'[a] # rows[a]
    <3>1. PICK b \in Assets, new \in Row :
              Write(b, new) /\ (RowTrue(b, rows[b]) => RowTrue(b, new)')
      BY <1>1, <2>3, RowWrites
    <3>2. b = a /\ rows'[a] = new
      BY <2>3, <3>1, WriteStep DEF IInv
    <3>3. RowTrue(a, new)'
      BY <2>1, <3>1, <3>2
    <3>4. QED
      BY <3>2, <3>3 DEF RowTrue
  <2>4. QED
    BY <2>2, <2>3
<1>6. EscrowColumnTrue' /\ RowNamesReadyVault' /\ ListedIsSeeded'
  <2>1. rows' \in [Assets -> Row]
    BY <1>1 DEF TypeOK
  <2>2. (\A a \in Assets : RowTrue(a, rows[a]))'
    BY <1>5
  <2>3. ((rows \in [Assets -> Row] /\ \A a \in Assets : RowTrue(a, rows[a])) =>
             EscrowColumnTrue /\ RowNamesReadyVault /\ ListedIsSeeded)'
    BY RowsAreTrue, PTL
  <2>4. QED
    BY <2>1, <2>2, <2>3
<1>7. QED
  BY <1>1, <1>2, <1>3, <1>6 DEF IInv

LEMMA Invariance == Spec => []IInv
BY InvInit, InvStep, PTL DEF Spec

(* Type correctness of rows, requests, contracts, vaults and wallets.      *)
THEOREM TypeCorrect == Spec => []TypeOK
<1>1. IInv => TypeOK
  BY DEF IInv
<1>2. QED
  BY <1>1, Invariance, PTL

(* issuanceEscrowStatus never claims a payment that was not made.          *)
THEOREM EscrowColumnIsTrue == Spec => []EscrowColumnTrue
<1>1. IInv => EscrowColumnTrue
  BY DEF IInv
<1>2. QED
  BY <1>1, Invariance, PTL

(* A row names only a vault that is complete and made for its asset.       *)
THEOREM RowsNameReadyVaults == Spec => []RowNamesReadyVault
<1>1. IInv => RowNamesReadyVault
  BY DEF IInv
<1>2. QED
  BY <1>1, Invariance, PTL

(* An ACTIVE asset has a seeded pool whose LP tokens are in its vault.     *)
THEOREM ListedAssetsAreSeeded == Spec => []ListedIsSeeded
<1>1. IInv => ListedIsSeeded
  BY DEF IInv
<1>2. QED
  BY <1>1, Invariance, PTL

(* The service uses the contract as the contract's own specification says. *)
THEOREM UsesIssuanceEscrow == Spec => IssuanceEscrowSpec
<1>1. Init => IssuanceEscrowInit
  BY DEF Init
<1>2. IInv /\ [Next]_vars => [IssuanceEscrowNext]_issuanceEscrowVars
  BY EscrowCalls DEF IInv
<1>3. QED
  BY <1>1, <1>2, Invariance, PTL DEF Spec, IssuanceEscrowSpec

(* So inside the system, too, a box tells whether its money has gone.      *)
THEOREM StatusStaysTrue == Spec => []StatusTellsPayment
BY UsesIssuanceEscrow, StatusIsTrue, PTL
-----------------------------------------------------------------------------
(* Payments.  The contract pays a lock as often as it is called, so what   *)
(* protects a lock is the row: every request pays only if it has read      *)
(* PENDING, and no row ever says PENDING again.                            *)

NoteStays(b, row) ==
    rows[b].status # "NONE" /\ rows[b].escrow # "PENDING" =>
        row.status # "NONE" /\ row.escrow # "PENDING"

LEMMA NotesStay ==
    ASSUME IInv, [Next]_vars, NEW a \in Assets
    PROVE  NoteStays(a, rows'[a])
<1>0. rows \in [Assets -> Row] /\ (rows' = rows => NoteStays(a, rows'[a]))
  BY DEF IInv, TypeOK, NoteStays
<1>1. ASSUME NEW b \in Assets, NEW row, Write(b, row), NoteStays(b, row)
      PROVE  NoteStays(a, rows'[a])
  BY <1>0, <1>1 DEF Write, NoteStays
<1>2. ASSUME NEW r \in Requests, NEW b \in Assets, CreateAsset(r, b)
      PROVE  NoteStays(a, rows'[a])
  BY <1>1, <1>2 DEF CreateAsset, NoteStays
<1>3. ASSUME NEW r \in Requests,
             SaveDeployed(r) \/ Reject(r) \/ SaveReturned(r) \/ SaveReleased(r) \/ List(r)
      PROVE  NoteStays(a, rows'[a])
  <2>a. PICK b : b = Asset(r)
    OBVIOUS
  <2>1. b \in Assets /\ rows[b] \in Row
    BY <1>0, <1>3, <2>a DEF SaveDeployed, Reject, SaveReturned, SaveReleased, List,
       At, IInv, RequestsKnow, Knows, Asset
  <2>2. \E new : Write(b, new) /\ NoteStays(b, new)
    <3>1. CASE SaveDeployed(r)
      <4>1. PICK new : new = [rows[b] EXCEPT !.vault = VaultOf(r), !.status = "PRE_MARKET"]
        OBVIOUS
      <4>2. Write(b, new) /\ new.status # "NONE" /\ new.escrow = rows[b].escrow
        BY <2>a, <2>1, <3>1, <4>1 DEF SaveDeployed, Row
      <4>3. QED
        BY <4>2 DEF NoteStays
    <3>2. CASE Reject(r)
      <4>1. PICK new : new = [rows[b] EXCEPT !.verification = "REJECTED",
                                             !.status = "REJECTED"]
        OBVIOUS
      <4>2. Write(b, new) /\ new.status # "NONE" /\ new.escrow = rows[b].escrow
        BY <2>a, <2>1, <3>2, <4>1 DEF Reject, Row
      <4>3. QED
        BY <4>2 DEF NoteStays
    <3>3. CASE SaveReturned(r) \/ SaveReleased(r)
      <4>1. PICK note \in {"RETURNED_TO_ISSUER", "RELEASED_TO_VAULT"} :
                Write(b, [rows[b] EXCEPT !.escrow = note])
        BY <2>a, <3>3 DEF SaveReturned, SaveReleased
      <4>2. PICK new : new = [rows[b] EXCEPT !.escrow = note]
        OBVIOUS
      <4>3. Write(b, new) /\ new.status = rows[b].status /\ new.escrow # "PENDING"
        BY <2>1, <4>1, <4>2 DEF Row
      <4>4. QED
        BY <4>3 DEF NoteStays
    <3>4. CASE List(r)
      <4>1. PICK new : new = [rows[b] EXCEPT !.status = "ACTIVE"]
        OBVIOUS
      <4>2. Write(b, new) /\ new.status # "NONE" /\ new.escrow = rows[b].escrow
        BY <2>a, <2>1, <3>4, <4>1 DEF List, Row
      <4>3. QED
        BY <4>2 DEF NoteStays
    <3>5. QED
      BY <1>3, <3>1, <3>2, <3>3, <3>4
  <2>3. QED
    BY <1>1, <2>1, <2>2
<1>4. ASSUME NEW b \in Assets, Approve(b) PROVE NoteStays(a, rows'[a])
  <2>1. PICK new : new = [rows[b] EXCEPT !.verification = "APPROVED"]
    OBVIOUS
  <2>2. /\ Write(b, new) /\ new.status = rows[b].status
        /\ new.escrow = rows[b].escrow
    BY <1>0, <1>4, <2>1 DEF Approve, Row
  <2>3. QED
    BY <1>1, <2>2 DEF NoteStays
<1>5. ASSUME NEW r \in Requests, NEW b \in Assets, Arrive(r, b), ~CreateAsset(r, b)
      PROVE  rows' = rows
  BY <1>5 DEF Arrive, BeginDeploy, BeginReject, BeginActivate, BeginDistribute
<1>6. ASSUME NEW r \in Requests, Step(r) \/ Die(r), ~SaveDeployed(r), ~Reject(r),
             ~SaveReturned(r), ~SaveReleased(r), ~List(r)
      PROVE  rows' = rows
  BY <1>6 DEF Step, Die, Fails, RecordLock, RecordLockFails, Mint, DeployVault,
     OptIntoAsset, MoveSupply, OptIntoUsdc, ReturnLiquidity, ReturnFails,
     Release, ReleaseFails, WithdrawTokens, WithdrawTokensFails, WithdrawUsdc,
     WithdrawUsdcFails, BootstrapPool, SeedPool, SeedFails, OptIntoLp, SendLp,
     Distribute, DistributeFails, outsideEscrow, outsideVaults
<1>7. ASSUME \/ \E b \in Assets : RecordByHand(b) \/ DistributeFromVault(b)
             \/ \E d \in Deposits : Deposit(d)
             \/ SetUpEscrow \/ PauseOrUnpause \/ Dispense \/ UNCHANGED vars
      PROVE  rows' = rows
  BY <1>7 DEF RecordByHand, DistributeFromVault, Deposit, SetUpEscrow,
     PauseOrUnpause, Dispense, outsideEscrow, vars
<1>8. QED
  BY <1>0, <1>2, <1>3, <1>4, <1>5, <1>6, <1>7 DEF Next

(* No request sets out to pay for a row that no longer says PENDING. *)
LEMMA NobodySetsOut ==
    ASSUME IInv, [Next]_vars, NEW a \in Assets, rows[a].escrow # "PENDING",
           NEW r \in Requests, ~AboutToPay(r, a)
    PROVE  ~AboutToPay(r, a)'
<1> USE DEF IInv
<1>0. requests \in [Requests -> Request]
  BY DEF TypeOK
<1>1. CASE requests'[r] = requests[r]
  BY <1>1 DEF AboutToPay, At, ReturnWanted
<1>2. ASSUME Done(r) PROVE ~AboutToPay(r, a)'
  BY <1>2, DoneStep DEF AboutToPay, At, Idle
<1>3. ASSUME NEW pc \in PC \ {"release", "return", "reject"}, Goto(r, pc)
      PROVE  ~AboutToPay(r, a)'
  BY <1>3, GotoStep DEF AboutToPay, At
<1>4. ASSUME NEW b \in Assets, NEW pc \in PC, Begin(r, b, pc),
             pc \in {"release", "return"} => rows[b].escrow = "PENDING"
      PROVE  ~AboutToPay(r, a)'
  <2>1. requests'[r] = [pc |-> pc, asset |-> b, vault |-> rows[b].vault,
                        escrow |-> rows[b].escrow]
    BY <1>4, BeginStep
  <2>2. QED
    BY <1>4, <2>1 DEF AboutToPay, At, ReturnWanted
<1>5. ASSUME NEW b \in Assets, Arrive(r, b) PROVE ~AboutToPay(r, a)'
  <2>1. CASE CreateAsset(r, b)
    BY <1>0, <2>1 DEF CreateAsset, AboutToPay, At, Idle
  <2>2. CASE ~CreateAsset(r, b)
    <3>1. PICK pc \in {"mint", "reject", "distribute", FirstActivationStep(b)} :
              Begin(r, b, pc)
      BY <1>5, <2>2 DEF Arrive, BeginDeploy, BeginReject, BeginActivate,
         BeginDistribute
    <3>2. pc \in PC /\ (pc \in {"release", "return"} => rows[b].escrow = "PENDING")
      BY <3>1 DEF PC, FirstActivationStep
    <3>3. QED
      BY <1>4, <3>1, <3>2
  <2>3. QED
    BY <2>1, <2>2
<1>6. ASSUME Mint(r) PROVE ~AboutToPay(r, a)'
  BY <1>0, <1>6 DEF Mint, AboutToPay, At, Request
<1>7. ASSUME Reject(r) PROVE ~AboutToPay(r, a)'
  <2>1. CASE ReturnWanted(r)
    <3>1. Goto(r, "return") /\ "return" \in PC /\ At(r, "reject")
      BY <1>7, <2>1 DEF Reject, PC
    <3>2. requests'[r].asset = requests[r].asset
      BY <3>1, GotoStep
    <3>3. QED
      BY <2>1, <3>1, <3>2 DEF AboutToPay
  <2>2. CASE ~ReturnWanted(r)
    BY <1>2, <1>7, <2>2 DEF Reject
  <2>3. QED
    BY <2>1, <2>2
<1>8. ASSUME Step(r) \/ Die(r), ~Mint(r), ~Reject(r) PROVE ~AboutToPay(r, a)'
  <2>1. Done(r) \/ \E pc \in PC \ {"release", "return", "reject"} : Goto(r, pc)
    BY <1>8 DEF Step, Die, Fails, RecordLock, RecordLockFails, DeployVault,
       OptIntoAsset, MoveSupply, OptIntoUsdc, SaveDeployed, ReturnLiquidity,
       ReturnFails, SaveReturned, Release, ReleaseFails, SaveReleased,
       WithdrawTokens, WithdrawTokensFails, WithdrawUsdc, WithdrawUsdcFails,
       BootstrapPool, SeedPool, SeedFails, OptIntoLp, SendLp, List, Distribute,
       DistributeFails, PC
  <2>2. QED
    BY <1>2, <1>3, <2>1
<1>9. CASE requests'[r] # requests[r]
  <2>1. \/ requests' = requests
        \/ \E q \in Requests : Step(q) \/ Die(q) \/ \E b \in Assets : Arrive(q, b)
    BY DEF Next, Approve, RecordByHand, DistributeFromVault, Deposit,
       SetUpEscrow, PauseOrUnpause, Dispense, vars
  <2>2. Step(r) \/ Die(r) \/ \E b \in Assets : Arrive(r, b)
    BY <1>9, <2>1, OneActor
  <2>3. QED
    BY <1>5, <1>6, <1>7, <1>8, <2>2
<1>10. QED
  BY <1>1, <1>9

(* Every other step moves no money. *)
LEMMA OnlyPaymentsPay ==
    ASSUME [Next]_vars, \A r \in Requests : ~ReturnLiquidity(r) /\ ~Release(r)
    PROVE  UNCHANGED <<released, returned>>
<1> USE DEF issuanceEscrowVars
<1>1. ASSUME NEW r \in Requests, NEW a \in Assets, Arrive(r, a)
      PROVE  UNCHANGED <<released, returned>>
  BY <1>1 DEF Arrive, CreateAsset, BeginDeploy, BeginReject, BeginActivate,
     BeginDistribute, chainVars
<1>2. ASSUME NEW r \in Requests, Step(r) \/ Die(r), ~ReturnLiquidity(r), ~Release(r)
      PROVE  UNCHANGED <<released, returned>>
  BY <1>2 DEF Step, Die, Fails, RecordLock, RecordLockFails, Mint, DeployVault,
     OptIntoAsset, MoveSupply, OptIntoUsdc, SaveDeployed, Reject, ReturnFails,
     SaveReturned, ReleaseFails, SaveReleased, WithdrawTokens,
     WithdrawTokensFails, WithdrawUsdc, WithdrawUsdcFails, BootstrapPool,
     SeedPool, SeedFails, OptIntoLp, SendLp, List, Distribute, DistributeFails,
     RecordIssuanceLock, outsideVaults, chainVars
<1>3. ASSUME NEW a \in Assets, Approve(a) \/ RecordByHand(a) \/ DistributeFromVault(a)
      PROVE  UNCHANGED <<released, returned>>
  BY <1>3 DEF Approve, RecordByHand, RecordIssuanceLock, DistributeFromVault, chainVars
<1>4. ASSUME \/ \E d \in Deposits : Deposit(d)
             \/ SetUpEscrow \/ PauseOrUnpause \/ Dispense
      PROVE  UNCHANGED <<released, returned>>
  BY <1>4 DEF Deposit, IssuerDeposit, SetUpEscrow, EscrowOptIntoUsdc,
     PauseOrUnpause, PauseEscrow, Dispense
<1>5. QED
  BY <1>1, <1>2, <1>3, <1>4 DEF Next, vars, chainVars

(* What is paid for an asset, a request on that asset pays. *)
LEMMA PayersAreAbout ==
    ASSUME IInv, [Next]_vars, NEW a \in Assets,
           \A r \in Requests : ~AboutToPay(r, a)
    PROVE  Payouts(a)' = Payouts(a)
<1>1. ASSUME NEW r \in Requests, ReturnLiquidity(r) \/ Release(r)
      PROVE  Payouts(a)' = Payouts(a)
  <2>1. requests[r].asset # a
    BY <1>1 DEF AboutToPay, ReturnLiquidity, Release, At
  <2>2. released \in [Assets -> Nat] /\ returned \in [Assets -> Nat]
    BY DEF IInv, TypeOK, IssuanceEscrowTypeOK
  <2>3. released'[a] = released[a] /\ returned'[a] = returned[a]
    BY <1>1, <2>1, <2>2 DEF ReturnLiquidity, Release, ReturnToIssuer, ReleaseToVault, Asset
  <2>4. QED
    BY <2>3 DEF Payouts
<1>2. CASE \A r \in Requests : ~ReturnLiquidity(r) /\ ~Release(r)
  BY <1>2, OnlyPaymentsPay DEF Payouts
<1>3. QED
  BY <1>1, <1>2

(* A lock whose row no longer says PENDING, and that no request is about to *)
(* pay, is never paid again, for any overlapping requests that end anywhere *)
(* (asset.service.ts:224, 303).                                             *)
THEOREM NotedLocksAreDone == Spec => NotedIsFinal
<1> DEFINE Final == \A a \in Assets :
               Settled(a) => Settled(a)' /\ Payouts(a)' = Payouts(a)
<1>1. ASSUME IInv, [Next]_vars PROVE Final
  <2>1. ASSUME NEW a \in Assets, Settled(a)
        PROVE  Settled(a)' /\ Payouts(a)' = Payouts(a)
    <3>1. rows'[a].status # "NONE" /\ rows'[a].escrow # "PENDING"
      BY <1>1, <2>1, NotesStay DEF Settled, NoteStays
    <3>2. \A r \in Requests : ~AboutToPay(r, a)'
      BY <1>1, <2>1, NobodySetsOut DEF Settled
    <3>3. Payouts(a)' = Payouts(a)
      BY <1>1, <2>1, PayersAreAbout DEF Settled
    <3>4. QED
      BY <3>1, <3>2, <3>3 DEF Settled
  <2>2. QED
    BY <2>1
<1>2. IInv /\ [Next]_vars => [Final]_vars
  BY <1>1
<1>3. QED
  BY Invariance, <1>2, PTL DEF Spec, NotedIsFinal

-----------------------------------------------------------------------------
(* The account.  Its balance is what the deposits brought less what the    *)
(* locks paid, and every lock cites a deposit that is there.               *)

Backed(a) == Tracked(a) /\ DepositVerified(a)

Worth(a) == IF Recorded(a) THEN issuanceLocks[a].amount ELSE 0
Paid(a)  == Payouts(a) * Worth(a)
Came(d)  == IF d \in deposited THEN UsdcOf[d] ELSE 0
Cited(d) == SumFunctionOnSet([a \in Assets |-> Cites(a, d)], Assets)

LocksAreBacked ==
    /\ \A a \in Assets, r \in Requests : At(r, "record") /\ Asset(r) = a => Backed(a)
    /\ \A a \in Assets :
           Recorded(a) => Backed(a) /\ issuanceLocks[a].amount = PledgedUsdc[a]
    /\ \A a \in Assets : ~Recorded(a) => Payouts(a) = 0

AccountBalances ==
    escrowUsdc + SumFunctionOnSet([a \in Assets |-> Paid(a)], Assets)
        = SumFunctionOnSet([d \in Deposits |-> Came(d)], Deposits)

LocksAreCited ==
    SumFunctionOnSet([a \in Assets |-> Worth(a)], Assets)
        = SumFunctionOnSet([d \in Deposits |-> Cited(d)], Deposits)

LEMMA MoneyTyped ==
    ASSUME TypeOK
    PROVE  /\ \A a \in Assets : Worth(a) \in Nat /\ Payouts(a) \in Nat /\ Paid(a) \in Nat
           /\ \A a \in Assets : \A d : Cites(a, d) \in Nat
           /\ \A d \in Deposits : Came(d) \in Nat /\ UsdcOf[d] \in Nat
           /\ \A d : Cited(d) \in Int
           /\ IsFiniteSet(Assets) /\ IsFiniteSet(Deposits) /\ escrowUsdc \in Nat
<1>1. ASSUME NEW a \in Assets PROVE Recorded(a) => issuanceLocks[a].amount \in Nat
  BY IssuanceEscrowAssumption DEF TypeOK, IssuanceEscrowTypeOK, Recorded, Lock
<1>2. ASSUME NEW a \in Assets
      PROVE  Worth(a) \in Nat /\ Payouts(a) \in Nat /\ \A d : Cites(a, d) \in Nat
  BY <1>1 DEF Worth, Payouts, Cites, TypeOK, IssuanceEscrowTypeOK
<1>3. ASSUME NEW a \in Assets PROVE Paid(a) \in Nat
  <2>1. PICK m \in Nat, n \in Nat : m = Payouts(a) /\ n = Worth(a)
    BY <1>2
  <2>2. QED
    BY <2>1 DEF Paid
<1>4. \A d \in Deposits : Came(d) \in Nat /\ UsdcOf[d] \in Nat
  BY IssuanceAssumption, IssuanceEscrowAssumption DEF Came
<1>5. ASSUME NEW d PROVE Cited(d) \in Int
  <2> DEFINE f == [a \in Assets |-> Cites(a, d)]
  <2>1. IsFiniteSet(Assets) /\ \A a \in Assets : f[a] \in Int
    BY <1>2, IssuanceAssumption
  <2> HIDE DEF f
  <2>2. SumFunctionOnSet(f, Assets) \in Int
    BY <2>1, SumType
  <2>3. QED
    BY <2>2 DEF f, Cited
<1>6. QED
  BY <1>2, <1>3, <1>4, <1>5, IssuanceAssumption DEF TypeOK, IssuanceEscrowTypeOK

(* Money moves by a payment or by a deposit, and a lock is written when it *)
(* is recorded or paid.                                                    *)
LEMMA MoneyMoves ==
    ASSUME [Next]_vars
    PROVE  /\ \/ \E r \in Requests : ReturnLiquidity(r) \/ Release(r)
              \/ \E d \in Deposits : Deposit(d)
              \/ UNCHANGED <<released, returned, escrowUsdc, deposited>>
           /\ \/ \E r \in Requests : ReturnLiquidity(r) \/ Release(r) \/ RecordLock(r)
              \/ \E a \in Assets : RecordByHand(a)
              \/ UNCHANGED issuanceLocks
           /\ (\E d \in Deposits : Deposit(d)) \/ UNCHANGED deposited
<1> DEFINE money == <<released, returned, escrowUsdc, deposited>>
<1> USE DEF issuanceEscrowVars
<1>1. ASSUME NEW r \in Requests, NEW a \in Assets, Arrive(r, a)
      PROVE  UNCHANGED <<money, issuanceLocks>>
  BY <1>1 DEF Arrive, CreateAsset, BeginDeploy, BeginReject, BeginActivate,
     BeginDistribute, chainVars
<1>2. ASSUME NEW r \in Requests, Step(r) \/ Die(r), ~ReturnLiquidity(r), ~Release(r)
      PROVE  UNCHANGED money
  BY <1>2 DEF Step, Die, Fails, RecordLock, RecordLockFails, Mint, DeployVault,
     OptIntoAsset, MoveSupply, OptIntoUsdc, SaveDeployed, Reject, ReturnFails,
     SaveReturned, ReleaseFails, SaveReleased, WithdrawTokens,
     WithdrawTokensFails, WithdrawUsdc, WithdrawUsdcFails, BootstrapPool,
     SeedPool, SeedFails, OptIntoLp, SendLp, List, Distribute, DistributeFails,
     RecordIssuanceLock, outsideVaults, outsideEscrow, chainVars
<1>3. ASSUME NEW r \in Requests, Step(r) \/ Die(r), ~ReturnLiquidity(r), ~Release(r),
             ~RecordLock(r)
      PROVE  UNCHANGED issuanceLocks
  BY <1>3 DEF Step, Die, Fails, RecordLockFails, Mint, DeployVault,
     OptIntoAsset, MoveSupply, OptIntoUsdc, SaveDeployed, Reject, ReturnFails,
     SaveReturned, ReleaseFails, SaveReleased, WithdrawTokens,
     WithdrawTokensFails, WithdrawUsdc, WithdrawUsdcFails, BootstrapPool,
     SeedPool, SeedFails, OptIntoLp, SendLp, List, Distribute, DistributeFails,
     outsideVaults, chainVars
<1>4. ASSUME NEW r \in Requests, ReturnLiquidity(r) \/ Release(r)
      PROVE  UNCHANGED deposited
  BY <1>4 DEF ReturnLiquidity, Release, outsideEscrow
<1>5. ASSUME NEW a \in Assets, Approve(a) \/ DistributeFromVault(a)
      PROVE  UNCHANGED <<money, issuanceLocks>>
  BY <1>5 DEF Approve, DistributeFromVault, chainVars
<1>6. ASSUME NEW a \in Assets, RecordByHand(a) PROVE UNCHANGED money
  BY <1>6 DEF RecordByHand, RecordIssuanceLock, outsideEscrow
<1>7. ASSUME NEW d \in Deposits, Deposit(d) PROVE UNCHANGED issuanceLocks
  BY <1>7 DEF Deposit, IssuerDeposit
<1>8. ASSUME SetUpEscrow \/ PauseOrUnpause \/ Dispense
      PROVE  UNCHANGED <<money, issuanceLocks>>
  BY <1>8 DEF SetUpEscrow, EscrowOptIntoUsdc, PauseOrUnpause, PauseEscrow, Dispense,
     outsideEscrow
<1>9. ASSUME UNCHANGED vars PROVE UNCHANGED <<money, issuanceLocks>>
  BY <1>9 DEF vars, chainVars
<1>10. QED
  BY <1>1, <1>2, <1>3, <1>4, <1>5, <1>6, <1>7, <1>8, <1>9 DEF Next

(* A backed application stays backed. *)
LEMMA DepositsStay ==
    ASSUME [Next]_vars
    PROVE  deposited \subseteq deposited'
BY MoneyMoves DEF Deposit

(* Only createAsset, which has verified the deposit, records a lock later. *)
LEMMA RecordersAreBacked ==
    ASSUME IInv, LocksAreBacked, [Next]_vars
    PROVE  \A a \in Assets, r \in Requests :
               (At(r, "record") /\ Asset(r) = a => Backed(a))'
<1> SUFFICES ASSUME NEW a \in Assets, NEW r \in Requests,
                    At(r, "record")', Asset(r)' = a
             PROVE  Backed(a)'
  OBVIOUS
<1>1. Backed(a) => Backed(a)'
  BY DepositsStay DEF Backed, DepositVerified
<1>2. CASE requests'[r] = requests[r]
  BY <1>1, <1>2 DEF LocksAreBacked, At, Asset
<1>3. CASE requests'[r] # requests[r]
  <2>1. \/ requests' = requests
        \/ \E q \in Requests : Step(q) \/ Die(q) \/ \E b \in Assets : Arrive(q, b)
    BY DEF Next, Approve, RecordByHand, DistributeFromVault, Deposit,
       SetUpEscrow, PauseOrUnpause, Dispense, vars
  <2>2. Step(r) \/ Die(r) \/ \E b \in Assets : Arrive(r, b)
    BY <1>3, <2>1, OneActor DEF IInv
  <2>3. requests \in [Requests -> Request]
    BY DEF IInv, TypeOK
  <2>4. ASSUME Done(r) PROVE FALSE
    BY <2>4, DoneStep DEF IInv, At, Idle
  <2>5. ASSUME NEW pc \in PC \ {"record"}, Goto(r, pc) PROVE FALSE
    BY <2>5, GotoStep DEF IInv, At
  <2>6. ASSUME NEW b \in Assets, NEW pc \in PC \ {"record"}, Begin(r, b, pc)
        PROVE  FALSE
    <3>1. requests'[r] = [pc |-> pc, asset |-> b, vault |-> rows[b].vault,
                          escrow |-> rows[b].escrow]
      BY <2>6, BeginStep DEF IInv
    <3>2. QED
      BY <3>1 DEF At
  <2>7. ASSUME Step(r) \/ Die(r) PROVE FALSE
    <3>1. CASE Mint(r)
      BY <2>3, <3>1 DEF Mint, At, Request
    <3>2. CASE ~Mint(r)
      <4>1. Done(r) \/ \E pc \in PC \ {"record"} : Goto(r, pc)
        BY <2>7, <3>2 DEF Step, Die, Fails, RecordLock, RecordLockFails, DeployVault,
           OptIntoAsset, MoveSupply, OptIntoUsdc, SaveDeployed, Reject,
           ReturnLiquidity, ReturnFails, SaveReturned, Release, ReleaseFails,
           SaveReleased, WithdrawTokens, WithdrawTokensFails, WithdrawUsdc,
           WithdrawUsdcFails, BootstrapPool, SeedPool, SeedFails, OptIntoLp, SendLp,
           List, Distribute, DistributeFails, PC
      <4>2. QED
        BY <2>4, <2>5, <4>1
    <3>3. QED
      BY <3>1, <3>2
  <2>8. ASSUME NEW b \in Assets, Arrive(r, b) PROVE Backed(a)
    <3>1. CASE CreateAsset(r, b)
      <4>1. requests'[r] = IF Tracked(b) THEN [Idle EXCEPT !.pc = "record", !.asset = b]
                                         ELSE Idle
        BY <2>3, <3>1 DEF CreateAsset
      <4>2. Tracked(b) /\ a = b
        BY <4>1 DEF At, Asset, Idle
      <4>3. QED
        BY <3>1, <4>2 DEF CreateAsset, Backed
    <3>2. CASE ~CreateAsset(r, b)
      <4>1. {"mint", "reject", "distribute", FirstActivationStep(b)} \subseteq PC \ {"record"}
        BY DEF PC, FirstActivationStep
      <4>2. QED
        BY <2>6, <2>8, <3>2, <4>1 DEF Arrive, BeginDeploy, BeginReject,
           BeginActivate, BeginDistribute
    <3>3. QED
      BY <3>1, <3>2
  <2>9. QED
    BY <1>1, <2>2, <2>7, <2>8
<1>4. QED
  BY <1>2, <1>3

LEMMA RecordedAreBacked ==
    ASSUME IInv, LocksAreBacked, [Next]_vars
    PROVE  \A a \in Assets :
               (Recorded(a) => Backed(a) /\ issuanceLocks[a].amount = PledgedUsdc[a])'
<1> SUFFICES ASSUME NEW a \in Assets, Recorded(a)'
             PROVE  Backed(a)' /\ issuanceLocks'[a].amount = PledgedUsdc[a]
  OBVIOUS
<1>1. Backed(a) => Backed(a)'
  BY DepositsStay DEF Backed, DepositVerified
<1>2. issuanceLocks \in [Assets -> Lock \cup {NoLock}]
  BY DEF IInv, TypeOK, IssuanceEscrowTypeOK
<1>3. CASE issuanceLocks'[a] = issuanceLocks[a]
  BY <1>1, <1>3 DEF LocksAreBacked, Recorded
<1>4. ASSUME NEW b \in Assets, Backed(b), RecordIssuanceLock(b, PledgedUsdc[b]),
             issuanceLocks'[a] # issuanceLocks[a]
      PROVE  Backed(a)' /\ issuanceLocks'[a].amount = PledgedUsdc[a]
  BY <1>1, <1>2, <1>4 DEF RecordIssuanceLock
<1>5. ASSUME NEW r \in Requests, RecordLock(r), issuanceLocks'[a] # issuanceLocks[a]
      PROVE  Backed(a)' /\ issuanceLocks'[a].amount = PledgedUsdc[a]
  <2>1. PICK b : b = Asset(r)
    OBVIOUS
  <2>2. b \in Assets /\ Backed(b) /\ RecordIssuanceLock(b, PledgedUsdc[b])
    BY <1>5, <2>1 DEF RecordLock, At, IInv, RequestsKnow, Knows, Asset, LocksAreBacked
  <2>3. QED
    BY <1>4, <1>5, <2>2
<1>6. ASSUME NEW b \in Assets, RecordByHand(b), issuanceLocks'[a] # issuanceLocks[a]
      PROVE  Backed(a)' /\ issuanceLocks'[a].amount = PledgedUsdc[a]
  BY <1>4, <1>6 DEF RecordByHand, Backed
<1>7. ASSUME NEW r \in Requests, ReturnLiquidity(r) \/ Release(r),
             issuanceLocks'[a] # issuanceLocks[a]
      PROVE  Backed(a)' /\ issuanceLocks'[a].amount = PledgedUsdc[a]
  <2>1. PICK b, n : Recorded(b) /\ WriteStatus(b, n)
    BY <1>7 DEF ReturnLiquidity, Release, ReturnToIssuer, ReleaseToVault, MayReturn,
       MayRelease, Payable
  <2>2. a = b /\ issuanceLocks[a] \in Lock
    BY <1>2, <1>7, <2>1 DEF WriteStatus, Recorded
  <2>3. PICK to : to = Itob(n)
    OBVIOUS
  <2>4. issuanceLocks'[a] = [issuanceLocks[a] EXCEPT !.status = to]
    BY <1>2, <2>1, <2>2, <2>3 DEF WriteStatus
  <2>5. issuanceLocks'[a].amount = issuanceLocks[a].amount
    BY <2>2, <2>4 DEF Lock
  <2>6. QED
    BY <1>1, <2>1, <2>2, <2>5 DEF LocksAreBacked
<1>8. QED
  BY <1>3, <1>5, <1>6, <1>7, MoneyMoves

LEMMA BackedInit == Init => LocksAreBacked /\ AccountBalances /\ LocksAreCited
<1> SUFFICES ASSUME Init PROVE LocksAreBacked /\ AccountBalances /\ LocksAreCited
  OBVIOUS
<1>1. /\ \A r \in Requests : requests[r].pc = "idle"
      /\ \A a \in Assets : ~Recorded(a) /\ Payouts(a) = 0
      /\ escrowUsdc = 0 /\ deposited = {}
  BY DEF Init, IssuanceEscrowInit, Recorded, Idle, Payouts
<1>2. /\ \A a \in Assets : Worth(a) = 0 /\ Paid(a) = 0 /\ \A d : Cites(a, d) = 0
      /\ \A d \in Deposits : Came(d) = 0
  BY <1>1 DEF Worth, Paid, Cites, Came
<1>3. IsFiniteSet(Assets) /\ IsFiniteSet(Deposits)
  BY IssuanceAssumption
<1>4. SumFunctionOnSet([a \in Assets |-> Paid(a)], Assets) = 0
  <2> DEFINE f == [a \in Assets |-> Paid(a)]
  <2>1. \A a \in Assets : f[a] = 0
    BY <1>2
  <2> HIDE DEF f
  <2>2. SumFunctionOnSet(f, Assets) = 0
    BY <1>3, <2>1, SumOfZeros
  <2>3. QED
    BY <2>2 DEF f
<1>5. SumFunctionOnSet([a \in Assets |-> Worth(a)], Assets) = 0
  <2> DEFINE f == [a \in Assets |-> Worth(a)]
  <2>1. \A a \in Assets : f[a] = 0
    BY <1>2
  <2> HIDE DEF f
  <2>2. SumFunctionOnSet(f, Assets) = 0
    BY <1>3, <2>1, SumOfZeros
  <2>3. QED
    BY <2>2 DEF f
<1>6. SumFunctionOnSet([d \in Deposits |-> Came(d)], Deposits) = 0
  <2> DEFINE f == [d \in Deposits |-> Came(d)]
  <2>1. \A d \in Deposits : f[d] = 0
    BY <1>2
  <2> HIDE DEF f
  <2>2. SumFunctionOnSet(f, Deposits) = 0
    BY <1>3, <2>1, SumOfZeros
  <2>3. QED
    BY <2>2 DEF f
<1>7. ASSUME NEW d PROVE Cited(d) = 0
  <2> DEFINE f == [a \in Assets |-> Cites(a, d)]
  <2>1. \A a \in Assets : f[a] = 0
    BY <1>2
  <2> HIDE DEF f
  <2>2. SumFunctionOnSet(f, Assets) = 0
    BY <1>3, <2>1, SumOfZeros
  <2>3. QED
    BY <2>2 DEF f, Cited
<1>8. SumFunctionOnSet([d \in Deposits |-> Cited(d)], Deposits) = 0
  <2> DEFINE f == [d \in Deposits |-> Cited(d)]
  <2>1. \A d \in Deposits : f[d] = 0
    BY <1>7
  <2> HIDE DEF f
  <2>2. SumFunctionOnSet(f, Deposits) = 0
    BY <1>3, <2>1, SumOfZeros
  <2>3. QED
    BY <2>2 DEF f
<1>9. LocksAreBacked
  BY <1>1 DEF LocksAreBacked, At
<1>10. QED
  BY <1>1, <1>4, <1>5, <1>6, <1>8, <1>9 DEF AccountBalances, LocksAreCited

(* How a step can move the money: not at all, by a deposit, by recording a *)
(* lock or by paying one.                                                  *)
Unmoved == UNCHANGED <<released, returned, escrowUsdc, deposited, issuanceLocks>>

Deposits1(d) ==
    /\ d \notin deposited /\ deposited' = deposited \cup {d}
    /\ escrowUsdc' = escrowUsdc + UsdcOf[d]
    /\ UNCHANGED <<released, returned, issuanceLocks>>

Records1(a) ==
    /\ Backed(a) /\ ~Recorded(a) /\ Recorded(a)'
    /\ Worth(a)' = PledgedUsdc[a]
    /\ \A b \in Assets : b # a => issuanceLocks'[b] = issuanceLocks[b]
    /\ UNCHANGED <<released, returned, escrowUsdc, deposited>>

Pays1(a) ==
    /\ Recorded(a)
    /\ escrowUsdc' = escrowUsdc - Worth(a)
    /\ Payouts(a)' = Payouts(a) + 1
    /\ \A b \in Assets : /\ (Recorded(b)' <=> Recorded(b)) /\ Worth(b)' = Worth(b)
                         /\ b # a => Payouts(b)' = Payouts(b)
    /\ UNCHANGED deposited

LEMMA PaymentMoves ==
    ASSUME IInv, NEW r \in Requests, ReturnLiquidity(r) \/ Release(r)
    PROVE  \E a \in Assets : Pays1(a)
<1>0. PICK own : own = Asset(r)
  OBVIOUS
<1>1. own \in Assets
  BY <1>0 DEF ReturnLiquidity, Release, At, IInv, RequestsKnow, Knows, Asset
<1>2. /\ Recorded(own) /\ Payable(own) /\ UNCHANGED deposited
      /\ escrowUsdc' = escrowUsdc - issuanceLocks[own].amount
      /\ \E n \in 1..2 : WriteStatus(own, n)
      /\ \/ released' = [released EXCEPT ![own] = @ + 1] /\ returned' = returned
         \/ returned' = [returned EXCEPT ![own] = @ + 1] /\ released' = released
  BY <1>0 DEF ReturnLiquidity, Release, ReturnToIssuer, ReleaseToVault, MayReturn,
     MayRelease, Payable, outsideEscrow, RETURNED_TO_ISSUER, RELEASED_TO_VAULT
<1>3. /\ issuanceLocks \in [Assets -> Lock \cup {NoLock}]
      /\ released \in [Assets -> Nat] /\ returned \in [Assets -> Nat]
  BY DEF IInv, TypeOK, IssuanceEscrowTypeOK
<1>4. /\ Payouts(own)' = Payouts(own) + 1
      /\ \A b \in Assets : b # own => Payouts(b)' = Payouts(b)
  BY <1>1, <1>2, <1>3 DEF Payouts
<1>5. /\ issuanceLocks'[own] # NoLock
      /\ issuanceLocks'[own].amount = issuanceLocks[own].amount
      /\ \A b \in Assets : b # own => issuanceLocks'[b] = issuanceLocks[b]
  <2>1. PICK n \in 1..2 : WriteStatus(own, n)
    BY <1>2
  <2>2. PICK to : to = Itob(n)
    OBVIOUS
  <2>3. issuanceLocks' = [issuanceLocks EXCEPT ![own].status = to]
    BY <2>1, <2>2 DEF WriteStatus
  <2>4. issuanceLocks[own] \in Lock
    BY <1>1, <1>2, <1>3 DEF Recorded
  <2>5. issuanceLocks'[own] = [issuanceLocks[own] EXCEPT !.status = to]
    BY <1>1, <1>3, <2>3
  <2>6. issuanceLocks'[own] # NoLock
    <3>1. IssuanceEscrowTypeOK
      BY DEF IInv, TypeOK
    <3>2. issuanceLocks'[own] \in Lock
      BY <1>1, <1>2, <2>1, <3>1, PaymentWrites
    <3>3. QED
      BY <3>2, IssuanceEscrowAssumption
  <2>7. QED
    BY <1>1, <1>3, <2>3, <2>4, <2>5, <2>6 DEF Lock
<1>6. \A b \in Assets : (Recorded(b)' <=> Recorded(b)) /\ Worth(b)' = Worth(b)
  BY <1>2, <1>5 DEF Recorded, Worth
<1>7. Pays1(own)
  BY <1>2, <1>4, <1>6 DEF Pays1, Worth
<1>8. QED
  BY <1>1, <1>7

LEMMA RecordMoves ==
    ASSUME IInv, NEW a \in Assets, Backed(a), UNCHANGED deposited,
           RecordIssuanceLock(a, PledgedUsdc[a])
    PROVE  Records1(a)
<1>1. issuanceLocks \in [Assets -> Lock \cup {NoLock}]
  BY DEF IInv, TypeOK, IssuanceEscrowTypeOK
<1>2. PICK new : new = [amount |-> PledgedUsdc[a], status |-> Itob(PENDING)]
  OBVIOUS
<1>3. new \in Lock /\ new.amount = PledgedUsdc[a]
  <2>1. PledgedUsdc[a] \in 1..MaxLock
    BY IssuanceAssumption, IssuanceEscrowAssumption DEF Backed, Tracked
  <2>2. QED
    BY <1>2, <2>1, ItobTyped DEF Lock, PENDING
<1>4. issuanceLocks' = [issuanceLocks EXCEPT ![a] = new]
  BY <1>2 DEF RecordIssuanceLock
<1>5. /\ issuanceLocks'[a] = new
      /\ \A b \in Assets : b # a => issuanceLocks'[b] = issuanceLocks[b]
  BY <1>1, <1>4
<1>6. Recorded(a)' /\ Worth(a)' = PledgedUsdc[a]
  BY <1>3, <1>5, IssuanceEscrowAssumption DEF Recorded, Worth
<1>7. QED
  BY <1>5, <1>6 DEF Records1, RecordIssuanceLock, MayRecordLock

LEMMA MoneySteps ==
    ASSUME IInv, LocksAreBacked, [Next]_vars
    PROVE  \/ Unmoved
           \/ \E d \in Deposits : Deposits1(d)
           \/ \E a \in Assets : Records1(a) \/ Pays1(a)
<1>1. ASSUME NEW r \in Requests, ReturnLiquidity(r) \/ Release(r)
      PROVE  \E a \in Assets : Pays1(a)
  BY <1>1, PaymentMoves
<1>2. ASSUME NEW d \in Deposits, Deposit(d) PROVE Deposits1(d)
  BY <1>2 DEF Deposit, IssuerDeposit, Deposits1
<1>3. ASSUME NEW r \in Requests, RecordLock(r) PROVE \E a \in Assets : Records1(a)
  <2>1. PICK a : a = Asset(r)
    OBVIOUS
  <2>2. a \in Assets /\ Backed(a)
    BY <1>3, <2>1 DEF RecordLock, At, IInv, RequestsKnow, Knows, Asset, LocksAreBacked
  <2>3. RecordIssuanceLock(a, PledgedUsdc[a]) /\ UNCHANGED deposited
    BY <1>3, <2>1 DEF RecordLock, outsideEscrow
  <2>4. QED
    BY <2>2, <2>3, RecordMoves
<1>4. ASSUME NEW a \in Assets, RecordByHand(a) PROVE Records1(a)
  BY <1>4, RecordMoves DEF RecordByHand, Backed, outsideEscrow
<1>5. QED
  BY <1>1, <1>2, <1>3, <1>4, MoneyMoves DEF Unmoved

LEMMA BackedStep ==
    ASSUME IInv, LocksAreBacked, [Next]_vars
    PROVE  LocksAreBacked'
<1>1. ASSUME NEW a \in Assets, ~Recorded(a)' PROVE Payouts(a)' = 0
  <2>1. CASE Unmoved \/ \E d \in Deposits : Deposits1(d)
    BY <1>1, <2>1 DEF Unmoved, Deposits1, Recorded, Payouts, LocksAreBacked
  <2>2. ASSUME NEW b \in Assets, Records1(b) PROVE Payouts(a)' = 0
    BY <1>1, <2>2 DEF Records1, Recorded, Payouts, LocksAreBacked
  <2>3. ASSUME NEW b \in Assets, Pays1(b) PROVE Payouts(a)' = 0
    <3>1. ~Recorded(a) /\ a # b
      BY <1>1, <2>3 DEF Pays1
    <3>2. QED
      BY <2>3, <3>1 DEF Pays1, LocksAreBacked
  <2>4. QED
    BY <2>1, <2>2, <2>3, MoneySteps
<1>2. QED
  BY <1>1, RecordersAreBacked, RecordedAreBacked DEF LocksAreBacked

(* A lock cites one deposit, for all it is worth. *)
LEMMA CitesWorth ==
    \A a \in Assets : \A d :
        /\ Cites(a, d) = IF DepositOf[a] = d THEN Worth(a) ELSE 0
        /\ Cites(a, d)' = IF DepositOf[a] = d THEN Worth(a)' ELSE 0
BY DEF Cites, Worth, Recorded

LEMMA CitedAgain ==
    ASSUME NEW d, \A a \in Assets : Cites(a, d)' = Cites(a, d)
    PROVE  Cited(d)' = Cited(d)
<1>1. [a \in Assets |-> Cites(a, d)'] = [a \in Assets |-> Cites(a, d)]
  OBVIOUS
<1>2. QED
  BY <1>1 DEF Cited

LEMMA AccountStep ==
    ASSUME IInv, LocksAreBacked, AccountBalances, LocksAreCited, [Next]_vars
    PROVE  AccountBalances' /\ LocksAreCited'
<1>p. PICK paid, paid1 : /\ paid = [a \in Assets |-> Paid(a)]
                         /\ paid1 = [a \in Assets |-> Paid(a)']
  OBVIOUS
<1>w. PICK worth, worth1 : /\ worth = [a \in Assets |-> Worth(a)]
                           /\ worth1 = [a \in Assets |-> Worth(a)']
  OBVIOUS
<1>c. PICK came, came1 : /\ came = [d \in Deposits |-> Came(d)]
                         /\ came1 = [d \in Deposits |-> Came(d)']
  OBVIOUS
<1>d. PICK cited, cited1 : /\ cited = [d \in Deposits |-> Cited(d)]
                           /\ cited1 = [d \in Deposits |-> Cited(d)']
  OBVIOUS
<1>1. /\ escrowUsdc + SumFunctionOnSet(paid, Assets) = SumFunctionOnSet(came, Deposits)
      /\ SumFunctionOnSet(worth, Assets) = SumFunctionOnSet(cited, Deposits)
  BY <1>p, <1>w, <1>c, <1>d DEF AccountBalances, LocksAreCited
<1>2. SUFFICES /\ escrowUsdc' + SumFunctionOnSet(paid1, Assets)
                      = SumFunctionOnSet(came1, Deposits)
               /\ SumFunctionOnSet(worth1, Assets) = SumFunctionOnSet(cited1, Deposits)
  BY <1>p, <1>w, <1>c, <1>d DEF AccountBalances, LocksAreCited
<1>3. /\ IsFiniteSet(Assets) /\ IsFiniteSet(Deposits) /\ escrowUsdc \in Int
      /\ \A a \in Assets : /\ paid[a] \in Int /\ worth[a] \in Nat
                           /\ Payouts(a) \in Nat /\ \A d : Cites(a, d) \in Int
      /\ \A d \in Deposits : came[d] \in Int /\ cited[d] \in Int /\ UsdcOf[d] \in Int
  BY <1>p, <1>w, <1>c, <1>d, MoneyTyped DEF IInv
<1>4. /\ SumFunctionOnSet(paid, Assets) \in Int /\ SumFunctionOnSet(worth, Assets) \in Int
      /\ SumFunctionOnSet(came, Deposits) \in Int /\ SumFunctionOnSet(cited, Deposits) \in Int
  BY <1>3, SumType
<1>5. ASSUME \A a \in Assets : Worth(a)' = Worth(a)
      PROVE  worth1 = worth /\ cited1 = cited
  <2>1. \A d : Cited(d)' = Cited(d)
    BY <1>5, CitesWorth, CitedAgain
  <2>2. QED
    BY <1>5, <2>1, <1>w, <1>d
<1>6. CASE Unmoved
  <2>1. \A a \in Assets : Worth(a)' = Worth(a) /\ Paid(a)' = Paid(a)
    BY <1>6 DEF Unmoved, Worth, Recorded, Paid, Payouts
  <2>2. \A d \in Deposits : Came(d)' = Came(d)
    BY <1>6 DEF Unmoved, Came
  <2>3. paid1 = paid /\ came1 = came /\ worth1 = worth /\ cited1 = cited
    BY <2>1, <2>2, <1>5, <1>p, <1>c
  <2>4. QED
    BY <1>1, <1>6, <2>3 DEF Unmoved
<1>7. ASSUME NEW d \in Deposits, Deposits1(d)
      PROVE  /\ escrowUsdc' + SumFunctionOnSet(paid1, Assets)
                      = SumFunctionOnSet(came1, Deposits)
             /\ SumFunctionOnSet(worth1, Assets) = SumFunctionOnSet(cited1, Deposits)
  <2>1. \A a \in Assets : Worth(a)' = Worth(a) /\ Paid(a)' = Paid(a)
    BY <1>7 DEF Deposits1, Worth, Recorded, Paid, Payouts
  <2>2. /\ came[d] = 0 /\ came1[d] = UsdcOf[d]
        /\ \A e \in Deposits : e # d => came1[e] = came[e]
    BY <1>7, <1>c DEF Deposits1, Came
  <2>3. paid1 = paid /\ worth1 = worth /\ cited1 = cited
    BY <2>1, <1>5, <1>p
  <2>4. SumFunctionOnSet(came1, Deposits)
            = SumFunctionOnSet(came, Deposits) - came[d] + came1[d]
    BY <1>3, <2>2, SumChanged
  <2>5. QED
    BY <1>1, <1>3, <1>4, <1>7, <2>2, <2>3, <2>4 DEF Deposits1
<1>8. ASSUME NEW a \in Assets, Pays1(a)
      PROVE  /\ escrowUsdc' + SumFunctionOnSet(paid1, Assets)
                      = SumFunctionOnSet(came1, Deposits)
             /\ SumFunctionOnSet(worth1, Assets) = SumFunctionOnSet(cited1, Deposits)
  <2>1. \A b \in Assets : Worth(b)' = Worth(b)
    BY <1>8 DEF Pays1
  <2>2. came1 = came /\ worth1 = worth /\ cited1 = cited
    BY <1>8, <2>1, <1>5, <1>c DEF Pays1, Came
  <2>3. \A b \in Assets : b # a => paid1[b] = paid[b]
    BY <1>8, <2>1, <1>p DEF Pays1, Paid
  <2>4. paid1[a] = paid[a] + worth[a]
    <3>1. PICK m \in Nat, n \in Nat : m = Payouts(a) /\ n = worth[a]
      BY <1>3
    <3>2. Paid(a)' = (m + 1) * n /\ Paid(a) = m * n
      BY <1>8, <2>1, <3>1, <1>w DEF Pays1, Paid
    <3>3. (m + 1) * n = m * n + n
      OBVIOUS
    <3>4. QED
      BY <3>1, <3>2, <3>3, <1>p
  <2>5. paid1[a] \in Int
    BY <1>3, <2>4
  <2>6. SumFunctionOnSet(paid1, Assets)
            = SumFunctionOnSet(paid, Assets) - paid[a] + paid1[a]
    BY <1>3, <2>3, <2>5, SumChanged
  <2>7. escrowUsdc' = escrowUsdc - worth[a]
    BY <1>8, <1>w DEF Pays1
  <2>8. QED
    BY <1>1, <1>3, <1>4, <2>2, <2>4, <2>6, <2>7
<1>9. ASSUME NEW a \in Assets, Records1(a)
      PROVE  /\ escrowUsdc' + SumFunctionOnSet(paid1, Assets)
                      = SumFunctionOnSet(came1, Deposits)
             /\ SumFunctionOnSet(worth1, Assets) = SumFunctionOnSet(cited1, Deposits)
  <2>1. PICK pledged, D : pledged = PledgedUsdc[a] /\ D = DepositOf[a]
    OBVIOUS
  <2>2. pledged \in Int /\ D \in Deposits
    BY <1>9, <2>1, IssuanceAssumption, IssuanceEscrowAssumption
       DEF Records1, Backed, DepositVerified, IInv, TypeOK
  <2>3. /\ worth[a] = 0 /\ worth1[a] = pledged
        /\ \A b \in Assets : b # a => Worth(b)' = Worth(b) /\ worth1[b] = worth[b]
    BY <1>9, <2>1, <1>w DEF Records1, Worth, Recorded
  <2>4. came1 = came /\ escrowUsdc' = escrowUsdc
    BY <1>9, <1>c DEF Records1, Came
  <2>5. paid1 = paid
    <3>1. Payouts(a) = 0 /\ Payouts(a)' = 0 /\ Worth(a) = 0 /\ Worth(a)' = pledged
      BY <1>9, <2>1, <2>3, <1>w DEF Records1, Payouts, LocksAreBacked
    <3>2. Paid(a)' = 0 /\ Paid(a) = 0
      BY <3>1, <2>2 DEF Paid
    <3>3. \A b \in Assets : b # a => Paid(b)' = Paid(b)
      BY <1>9, <2>3 DEF Records1, Paid, Payouts
    <3>4. QED
      BY <3>2, <3>3, <1>p
  <2>6. SumFunctionOnSet(worth1, Assets)
            = SumFunctionOnSet(worth, Assets) - worth[a] + worth1[a]
    BY <1>3, <2>2, <2>3, SumChanged
  <2>7. \A e \in Deposits : e # D => cited1[e] = cited[e]
    <3>1. \A e : e # D => \A b \in Assets : Cites(b, e)' = Cites(b, e)
      BY <2>1, <2>3, CitesWorth
    <3>2. \A e : e # D => Cited(e)' = Cited(e)
      BY <3>1, CitedAgain
    <3>3. QED
      BY <3>2, <1>d
  <2>8. cited1[D] = cited[D] + pledged
    <3>1. PICK f, g : /\ f = [b \in Assets |-> Cites(b, D)]
                      /\ g = [b \in Assets |-> Cites(b, D)']
      OBVIOUS
    <3>2. /\ f[a] = 0 /\ g[a] = pledged
          /\ \A b \in Assets : b # a => g[b] = f[b]
      BY <2>1, <2>3, <3>1, <1>w, CitesWorth
    <3>3. \A b \in Assets : f[b] \in Int
      BY <1>3, <3>1
    <3>4. SumFunctionOnSet(g, Assets) = SumFunctionOnSet(f, Assets) - f[a] + g[a]
      BY <1>3, <2>2, <3>2, <3>3, SumChanged
    <3>5. cited[D] = SumFunctionOnSet(f, Assets) /\ cited1[D] = SumFunctionOnSet(g, Assets)
      BY <2>2, <3>1, <1>d DEF Cited
    <3>6. QED
      BY <1>3, <2>2, <3>2, <3>4, <3>5
  <2>9. SumFunctionOnSet(cited1, Deposits)
            = SumFunctionOnSet(cited, Deposits) - cited[D] + cited1[D]
    <3>1. cited1[D] \in Int
      BY <1>3, <2>2, <2>8
    <3>2. QED
      BY <1>3, <2>2, <2>7, <3>1, SumChanged
  <2>10. QED
    BY <1>1, <1>3, <1>4, <2>2, <2>3, <2>4, <2>5, <2>6, <2>8, <2>9
<1>10. QED
  BY <1>6, <1>7, <1>8, <1>9, MoneySteps

(* With what was paid, the pending locks are worth as much as all locks and *)
(* what was paid again; and all locks are worth what they cite.            *)
LEMMA CoveredByAccount ==
    ASSUME IInv, LocksAreBacked, AccountBalances, LocksAreCited
    PROVE  LocksCovered
<1>a. PICK paid, worth, owed, again :
          /\ paid = [a \in Assets |-> Paid(a)] /\ worth = [a \in Assets |-> Worth(a)]
          /\ owed = [a \in Assets |-> Owed(a)] /\ again = [a \in Assets |-> PaidAgain(a)]
  OBVIOUS
<1>b. PICK came, cited, beyond :
          /\ came = [d \in Deposits |-> Came(d)] /\ cited = [d \in Deposits |-> Cited(d)]
          /\ beyond = [d \in Deposits |-> CitedBeyond(d)]
  OBVIOUS
<1>1. /\ escrowUsdc + SumFunctionOnSet(paid, Assets) = SumFunctionOnSet(came, Deposits)
      /\ SumFunctionOnSet(worth, Assets) = SumFunctionOnSet(cited, Deposits)
  BY <1>a, <1>b DEF AccountBalances, LocksAreCited
<1>2. /\ IsFiniteSet(Assets) /\ IsFiniteSet(Deposits) /\ escrowUsdc \in Int
      /\ \A a \in Assets : paid[a] \in Int /\ worth[a] \in Nat /\ Payouts(a) \in Nat
      /\ \A d \in Deposits : came[d] \in Int /\ cited[d] \in Int /\ UsdcOf[d] \in Nat
  BY <1>a, <1>b, MoneyTyped DEF IInv
<1>3. ASSUME NEW a \in Assets
      PROVE  owed[a] \in Int /\ again[a] \in Int /\ owed[a] + paid[a] = worth[a] + again[a]
  <2>1. PICK m \in Nat, n \in Nat : m = Payouts(a) /\ n = worth[a]
    BY <1>2
  <2>2. paid[a] = m * n
    BY <2>1, <1>a DEF Paid
  <2>3. Recorded(a) => n = issuanceLocks[a].amount
    BY <2>1, <1>a DEF Worth
  <2>4. CASE ~Recorded(a)
    <3>1. m = 0 /\ n = 0
      BY <2>1, <2>4, <1>a DEF LocksAreBacked, Worth
    <3>2. paid[a] = 0 /\ owed[a] = 0 /\ again[a] = 0 /\ worth[a] = 0
      <4>1. Payouts(a) = 0
        BY <2>1, <3>1
      <4>2. PaidAgain(a) = 0 /\ Owed(a) = 0
        BY <2>4, <4>1 DEF Owed, PaidAgain
      <4>3. QED
        BY <2>1, <2>2, <3>1, <4>2, <1>a
    <3>3. QED
      BY <3>2
  <2>5. CASE Recorded(a) /\ m = 0
    <3>1. paid[a] = 0 /\ owed[a] = n /\ again[a] = 0 /\ worth[a] = n
      <4>1. Payouts(a) = 0
        BY <2>1, <2>5
      <4>2. PaidAgain(a) = 0 /\ Owed(a) = n
        BY <2>3, <2>5, <4>1 DEF Owed, PaidAgain
      <4>3. QED
        BY <2>1, <2>2, <2>5, <4>2, <1>a
    <3>2. QED
      BY <2>1, <3>1
  <2>6. CASE Recorded(a) /\ m > 0
    <3>1. owed[a] = 0 /\ again[a] = (m - 1) * n /\ worth[a] = n
      <4>1. Owed(a) = 0
        BY <2>1, <2>6 DEF Owed
      <4>2. PaidAgain(a) = (m - 1) * n
        <5>1. CASE m = 1
          <6>1. Payouts(a) = 1 /\ (m - 1) * n = 0
            BY <2>1, <5>1
          <6>2. PaidAgain(a) = 0
            BY <6>1 DEF PaidAgain
          <6>3. QED
            BY <6>1, <6>2
        <5>2. CASE m > 1
          BY <2>1, <2>3, <2>6, <5>2 DEF PaidAgain
        <5>3. QED
          BY <2>6, <5>1, <5>2
      <4>3. QED
        BY <2>1, <4>1, <4>2, <1>a
    <3>2. m * n = n + (m - 1) * n /\ (m - 1) * n \in Int
      BY <2>1, <2>6
    <3>3. QED
      BY <2>2, <3>1, <3>2
  <2>7. QED
    BY <2>1, <2>4, <2>5, <2>6
<1>4. ASSUME NEW d \in Deposits
      PROVE  beyond[d] \in Int /\ cited[d] <= came[d] + beyond[d]
  <2>1. PICK f : f = [a \in Assets |-> Cites(a, d)]
    OBVIOUS
  <2>2. cited[d] = SumFunctionOnSet(f, Assets) /\ SumFunction(f) = SumFunctionOnSet(f, Assets)
    BY <2>1, <1>b DEF Cited, SumFunction
  <2>3. beyond[d] = IF cited[d] > UsdcOf[d] THEN cited[d] - UsdcOf[d] ELSE 0
    BY <2>1, <2>2, <1>b DEF CitedBeyond
  <2>4. CASE d \in deposited
    BY <1>2, <2>3, <2>4, <1>b DEF Came
  <2>5. CASE d \notin deposited
    <3>1. \A a \in Assets : f[a] = 0
      BY <2>1, <2>5 DEF Cites, LocksAreBacked, Backed, DepositVerified
    <3>2. cited[d] = 0
      BY <1>2, <2>2, <3>1, SumOfZeros
    <3>3. QED
      BY <1>2, <2>3, <2>5, <3>2, <1>b DEF Came
  <2>6. QED
    BY <2>4, <2>5
<1>5. SumFunctionOnSet(owed, Assets) + SumFunctionOnSet(paid, Assets)
          = SumFunctionOnSet(worth, Assets) + SumFunctionOnSet(again, Assets)
  <2>1. PICK both : both = [a \in Assets |-> owed[a] + paid[a]]
    OBVIOUS
  <2>2. \A a \in Assets : both[a] = owed[a] + paid[a] /\ both[a] = worth[a] + again[a]
    BY <1>3, <2>1
  <2>3. SumFunctionOnSet(both, Assets)
            = SumFunctionOnSet(owed, Assets) + SumFunctionOnSet(paid, Assets)
    BY <1>2, <1>3, <2>2, SumPlus
  <2>4. SumFunctionOnSet(both, Assets)
            = SumFunctionOnSet(worth, Assets) + SumFunctionOnSet(again, Assets)
    BY <1>2, <1>3, <2>2, SumPlus
  <2>5. QED
    BY <2>3, <2>4
<1>6. SumFunctionOnSet(cited, Deposits)
          <= SumFunctionOnSet(came, Deposits) + SumFunctionOnSet(beyond, Deposits)
  <2>1. PICK both : both = [d \in Deposits |-> came[d] + beyond[d]]
    OBVIOUS
  <2>2. \A d \in Deposits : /\ both[d] = came[d] + beyond[d]
                            /\ both[d] \in Int /\ cited[d] <= both[d]
    BY <1>2, <1>4, <2>1
  <2>3. SumFunctionOnSet(both, Deposits)
            = SumFunctionOnSet(came, Deposits) + SumFunctionOnSet(beyond, Deposits)
    BY <1>2, <1>4, <2>2, SumPlus
  <2>4. SumFunctionOnSet(cited, Deposits) <= SumFunctionOnSet(both, Deposits)
    BY <1>2, <2>2, SumAtMost
  <2>5. QED
    BY <2>3, <2>4
<1>7. /\ SumFunctionOnSet(owed, Assets) \in Int /\ SumFunctionOnSet(paid, Assets) \in Int
      /\ SumFunctionOnSet(worth, Assets) \in Int /\ SumFunctionOnSet(again, Assets) \in Int
      /\ SumFunctionOnSet(cited, Deposits) \in Int
      /\ SumFunctionOnSet(came, Deposits) \in Int
      /\ SumFunctionOnSet(beyond, Deposits) \in Int
  BY <1>2, <1>3, <1>4, SumType
<1>8. SumFunctionOnSet(owed, Assets)
          <= escrowUsdc + SumFunctionOnSet(again, Assets) + SumFunctionOnSet(beyond, Deposits)
  BY <1>1, <1>2, <1>5, <1>6, <1>7
<1>9. /\ SumFunction(owed) = SumFunctionOnSet(owed, Assets)
      /\ SumFunction(again) = SumFunctionOnSet(again, Assets)
      /\ SumFunction(beyond) = SumFunctionOnSet(beyond, Deposits)
  BY <1>a, <1>b DEF SumFunction
<1>10. QED
  BY <1>8, <1>9, <1>a, <1>b DEF LocksCovered

(* The escrow account can pay every lock that is still pending, but for the *)
(* deposits that several applications cite and the locks that are paid      *)
(* again, for any overlapping requests that end anywhere                    *)
(* (asset.service.ts:45, issuance-escrow.algo.ts:80-118).                   *)
THEOREM PendingLocksAreCovered == Spec => []LocksCovered
<1> DEFINE Accounts == IInv /\ LocksAreBacked /\ AccountBalances /\ LocksAreCited
<1>1. Init => LocksAreBacked /\ AccountBalances /\ LocksAreCited
  BY BackedInit
<1>2. IInv /\ LocksAreBacked /\ AccountBalances /\ LocksAreCited /\ [Next]_vars
          => LocksAreBacked' /\ AccountBalances' /\ LocksAreCited'
  BY BackedStep, AccountStep
<1>3. Accounts => LocksCovered
  BY CoveredByAccount
<1>4. QED
  BY Invariance, <1>1, <1>2, <1>3, PTL DEF Spec

-----------------------------------------------------------------------------
(* The life of an asset.  A market is made with released money because the *)
(* USDC that activateMarket takes out of a vault can only have come from a *)
(* release; so the invariant follows that money: to the vault, into the    *)
(* hands of the request that withdraws it, and to the pool.                *)

Spending == {"bootstrap", "seed", "lp", "sendlp", "list"}

InOrder(q) ==
    /\ q.pc # "idle" => rows[q.asset].status # "NONE"
    /\ q.pc \in Activating => PledgedUsdc[q.asset] > 0
    /\ q.pc \in Spending => released[q.asset] > 0

Released(v) == minted[v] \in Assets /\ released[minted[v]] > 0

LifeIsFunded ==
    /\ \A v \in Vaults : Holds(v, "usdc") > 0 \/ pools[v] = "seeded" => Released(v)
    /\ \A r \in Requests : InOrder(requests[r])
    /\ \A a \in Assets : rows[a].status = "NONE" => rows[a].escrow = "NONE"

(* What a vault holds of a kind of asset grows by transfers of that kind,   *)
(* and each kind has one step that makes them.                             *)
LEMMA VaultKeeps ==
    ASSUME VaultsTyped, NEW u \in Vaults, NEW v \in Vaults, NEW kind \in Kinds,
           \/ CreateVault(u)
           \/ \E k \in Kinds : OptInVault(u, k)
           \/ \E k \in Kinds, n \in Nat : ReceiveInVault(u, k, n) /\ (k # kind \/ u # v)
           \/ \E k \in Kinds, n \in Nat : WithdrawForPool(u, k, n)
           \/ \E n \in Nat : DistributeToIssuer(u, n)
    PROVE  Holds(v, kind)' <= Holds(v, kind)
<1>1. /\ vaults \in [Vaults -> Vault]
      /\ vaults[u].holds \in [Kinds -> Nat]
      /\ vaults[v].holds[kind] \in Nat
      /\ \A k \in Kinds : vaults[u].holds[k] \in Nat
  BY DEF VaultsTyped, Vault
<1> USE DEF Holds, Vault
<1>2. CASE CreateVault(u) \/ \E k \in Kinds : OptInVault(u, k)
  <2>1. PICK new \in Vault :
            vaults' = [vaults EXCEPT ![u] = new] /\ new.holds = vaults[u].holds
    <3>1. CASE CreateVault(u)
      BY <1>1, <3>1, CreatedRecord DEF CreateVault
    <3>2. ASSUME NEW k \in Kinds, OptInVault(u, k)
          PROVE  \E new \in Vault :
                     vaults' = [vaults EXCEPT ![u] = new] /\ new.holds = vaults[u].holds
      <4> DEFINE new == [vaults[u] EXCEPT !.optedIn = vaults[u].optedIn \cup {k}]
      <4>1. new \in Vault /\ new.holds = vaults[u].holds
        BY <1>1
      <4>2. vaults' = [vaults EXCEPT ![u] = new]
        BY <1>1, <3>2 DEF OptInVault
      <4> HIDE DEF new
      <4>3. QED
        BY <4>1, <4>2
    <3>3. QED
      BY <1>2, <3>1, <3>2
  <2>2. QED
    BY <1>1, <2>1
<1>3. ASSUME NEW k \in Kinds, NEW n \in Nat, ReceiveInVault(u, k, n), k # kind \/ u # v
      PROVE  Holds(v, kind)' <= Holds(v, kind)
  BY <1>1, <1>3 DEF ReceiveInVault
<1>4. ASSUME NEW k \in Kinds, NEW n \in Nat, WithdrawForPool(u, k, n)
      PROVE  Holds(v, kind)' <= Holds(v, kind)
  BY <1>1, <1>4 DEF WithdrawForPool
<1>5. ASSUME NEW n \in Nat, DistributeToIssuer(u, n)
      PROVE  Holds(v, kind)' <= Holds(v, kind)
  <2> DEFINE left == [vaults[u].holds EXCEPT !["rwa"] = vaults[u].holds["rwa"] - n]
             new == [vaults[u] EXCEPT !.holds = left,
                                      !.distributed = vaults[u].distributed + n]
  <2>1. vaults' = [vaults EXCEPT ![u] = new]
    BY <1>1, <1>5 DEF DistributeToIssuer
  <2>2. left[kind] <= vaults[u].holds[kind]
    BY <1>1, <1>5 DEF Kinds
  <2> HIDE DEF left
  <2>3. new.holds = left
    BY <1>1
  <2> HIDE DEF new
  <2>4. QED
    BY <1>1, <2>1, <2>2, <2>3
<1>6. QED
  BY <1>2, <1>3, <1>4, <1>5

LEMMA HoldingsMove ==
    ASSUME TypeOK, RequestsKnow, [Next]_vars, NEW v \in Vaults, NEW kind \in Kinds
    PROVE  \/ Holds(v, kind)' <= Holds(v, kind)
           \/ \E r \in Requests :
                  /\ VaultOf(r) = v
                  /\ \/ MoveSupply(r) /\ kind = "rwa"
                     \/ Release(r) /\ kind = "usdc"
                     \/ SendLp(r) /\ kind = "lp"
<1> USE IssuanceAssumption, TokenVaultAssumption, IssuanceEscrowAssumption
<1> DEFINE Kept == Holds(v, kind)' <= Holds(v, kind)
           Sent(r) == /\ VaultOf(r) = v
                      /\ \/ MoveSupply(r) /\ kind = "rwa"
                         \/ Release(r) /\ kind = "usdc"
                         \/ SendLp(r) /\ kind = "lp"
<1>0. VaultsTyped /\ (UNCHANGED vaults => Kept)
  <2>1. VaultsTyped /\ Holds(v, kind) \in Nat
    BY DEF TypeOK, VaultsTyped, Holds, Vault
  <2>2. QED
    BY <2>1 DEF Holds
<1>1. ASSUME NEW r \in Requests, requests[r].pc \in Deploying \cup Activating
      PROVE  VaultOf(r) \in Vaults /\ Asset(r) \in Assets
  BY <1>1 DEF RequestsKnow, Knows, VaultOf, Asset, Deploying, Activating
<1>2. ASSUME NEW r \in Requests, NEW a \in Assets, Arrive(r, a)
      PROVE  UNCHANGED vaults
  BY <1>2 DEF Arrive, CreateAsset, BeginDeploy, BeginReject, BeginActivate,
     BeginDistribute, chainVars
<1>3. ASSUME NEW r \in Requests,
             DeployVault(r) \/ OptIntoAsset(r) \/ OptIntoUsdc(r) \/ OptIntoLp(r)
      PROVE  Kept
  <2>1. VaultOf(r) \in Vaults
    BY <1>1, <1>3 DEF DeployVault, OptIntoAsset, OptIntoUsdc, OptIntoLp, At,
       Deploying, Activating
  <2>2. CreateVault(VaultOf(r)) \/ \E k \in Kinds : OptInVault(VaultOf(r), k)
    BY <1>3 DEF DeployVault, OptIntoAsset, OptIntoUsdc, OptIntoLp, Kinds
  <2>3. QED
    BY <1>0, <2>1, <2>2, VaultKeeps
<1>4. ASSUME NEW r \in Requests, MoveSupply(r) \/ SendLp(r) \/ Release(r), ~Sent(r)
      PROVE  Kept
  <2>1. VaultOf(r) \in Vaults /\ Asset(r) \in Assets
    BY <1>1, <1>4 DEF MoveSupply, SendLp, Release, At, Deploying, Activating
  <2>2. Supply \in Nat /\ adminHolds[VaultOf(r)].lp \in Nat
    BY <2>1 DEF TypeOK
  <2>3. Release(r) => issuanceLocks[Asset(r)].amount \in Nat
    BY <2>1 DEF Release, ReleaseToVault, MayRelease, Payable, Recorded,
       TypeOK, IssuanceEscrowTypeOK, Lock
  <2>4. \E k \in Kinds, n \in Nat :
            ReceiveInVault(VaultOf(r), k, n) /\ (k # kind \/ VaultOf(r) # v)
    BY <1>4, <2>2, <2>3 DEF MoveSupply, SendLp, Release, Kinds
  <2>5. QED
    BY <1>0, <2>1, <2>4, VaultKeeps
<1>5. ASSUME NEW r \in Requests, WithdrawTokens(r) \/ WithdrawUsdc(r)
      PROVE  Kept
  <2>1. VaultOf(r) \in Vaults /\ Asset(r) \in Assets
    BY <1>1, <1>5 DEF WithdrawTokens, WithdrawUsdc, At, Activating
  <2>2. Supply \in Nat /\ PledgedUsdc[Asset(r)] \in Nat
    BY <2>1
  <2>3. \E k \in Kinds, n \in Nat : WithdrawForPool(VaultOf(r), k, n)
    BY <1>5, <2>2 DEF WithdrawTokens, WithdrawUsdc, Kinds
  <2>4. QED
    BY <1>0, <2>1, <2>3, VaultKeeps
<1>6. ASSUME NEW r \in Requests, Step(r) \/ Die(r),
             ~DeployVault(r), ~OptIntoAsset(r), ~OptIntoUsdc(r), ~OptIntoLp(r),
             ~MoveSupply(r), ~SendLp(r), ~Release(r), ~WithdrawTokens(r),
             ~WithdrawUsdc(r)
      PROVE  UNCHANGED vaults
  BY <1>6 DEF Step, Die, Fails, RecordLock, RecordLockFails, Mint, SaveDeployed,
     Reject, ReturnLiquidity, ReturnFails, SaveReturned, ReleaseFails,
     SaveReleased, WithdrawTokensFails, WithdrawUsdcFails, BootstrapPool,
     SeedPool, SeedFails, List, Distribute, DistributeFails, outsideEscrow,
     chainVars
<1>7. ASSUME NEW a \in Assets, DistributeFromVault(a)
      PROVE  Kept
  <2>1. rows[a].vault \in Vaults
    BY <1>7 DEF DistributeFromVault, TypeOK, Row
  <2>2. PICK amount \in 1..Supply : DistributeToIssuer(rows[a].vault, amount)
    BY <1>7 DEF DistributeFromVault
  <2>3. QED
    BY <1>0, <2>1, <2>2, VaultKeeps
<1>8. ASSUME NEW a \in Assets, Approve(a) \/ RecordByHand(a)
      PROVE  UNCHANGED vaults
  BY <1>8 DEF Approve, RecordByHand, outsideEscrow, chainVars
<1>9. ASSUME \/ \E d \in Deposits : Deposit(d)
             \/ SetUpEscrow \/ PauseOrUnpause \/ Dispense
      PROVE  UNCHANGED vaults
  BY <1>9 DEF Deposit, SetUpEscrow, PauseOrUnpause, Dispense, outsideEscrow
<1>10. ASSUME UNCHANGED vars PROVE UNCHANGED vaults
  BY <1>10 DEF vars, chainVars
<1>11. ASSUME NEW r \in Requests, Step(r) \/ Die(r) PROVE Kept \/ Sent(r)
  <2> HIDE DEF Kept, Sent
  <2>1. QED
    BY <1>0, <1>3, <1>4, <1>5, <1>6, <1>11
<1> HIDE DEF Kept, Sent
<1>12. Kept \/ \E r \in Requests : Sent(r)
  BY <1>0, <1>2, <1>7, <1>8, <1>9, <1>10, <1>11 DEF Next
<1>13. QED
  BY <1>12 DEF Kept, Sent

(* The requests and the rows. *)
LEMMA OrderKept ==
    ASSUME IInv, LifeIsFunded, TypeOK', [Next]_vars, NEW r \in Requests,
           Step(r) \/ Die(r) \/ \E a \in Assets : Arrive(r, a)
    PROVE  LET new == requests'[r] IN
           /\ new.pc # "idle" =>
                  \/ rows[new.asset].status # "NONE"
                  \/ rows'[new.asset].status # "NONE"
           /\ new.pc \in Activating => PledgedUsdc[new.asset] > 0
           /\ new.pc \in Spending => released[new.asset] > 0
<1> USE IssuanceAssumption
<1> DEFINE v == requests[r].vault
           a == requests[r].asset
           new == requests'[r]
           Good == /\ new.pc # "idle" =>
                          \/ rows[new.asset].status # "NONE"
                          \/ rows'[new.asset].status # "NONE"
                   /\ new.pc \in Activating => PledgedUsdc[new.asset] > 0
                   /\ new.pc \in Spending => released[new.asset] > 0
<1>0. /\ Knows(requests[r]) /\ InOrder(requests[r])
      /\ TypeOK /\ VaultOf(r) = v /\ Asset(r) = a
  BY DEF IInv, RequestsKnow, LifeIsFunded, VaultOf, Asset
<1>1. ASSUME new.pc = "idle" PROVE Good
  BY <1>1 DEF Activating, Spending
<1>2. ASSUME Done(r) PROVE Good
  BY <1>0, <1>1, <1>2, DoneStep DEF Idle
<1>3. ASSUME NEW pc \in PC, Goto(r, pc), requests[r].pc # "idle",
             pc \in Activating => requests[r].pc \in Activating,
             pc \in Spending => requests[r].pc \in Spending \/ released[a] > 0
      PROVE  Good
  <2>1. new.pc = pc /\ new.asset = a
    BY <1>0, <1>3, GotoStep
  <2>2. QED
    BY <1>0, <1>3, <2>1 DEF InOrder
<1>4. ASSUME NEW b \in Assets, Arrive(r, b) PROVE Good
  <2>1. ASSUME NEW pc, Begin(r, b, pc), pc \notin Spending,
               pc \in Activating => PledgedUsdc[b] > 0
        PROVE  Good
    <3>1. new.pc = pc /\ new.asset = b /\ rows[b].status # "NONE"
      BY <1>0, <2>1 DEF Begin, TypeOK
    <3>2. QED
      BY <2>1, <3>1
  <2>2. CASE CreateAsset(r, b)
    <3>1. \/ new = Idle
          \/ new = [Idle EXCEPT !.pc = "record", !.asset = b]
      BY <1>0, <2>2 DEF CreateAsset, TypeOK
    <3>2. new.pc = "idle" \/ (new.pc = "record" /\ new.asset = b)
      <4>1. /\ Idle.pc = "idle"
            /\ [Idle EXCEPT !.pc = "record", !.asset = b].pc = "record"
            /\ [Idle EXCEPT !.pc = "record", !.asset = b].asset = b
        BY DEF Idle
      <4>2. QED
        BY <3>1, <4>1
    <3>3. rows'[b].status = "SUBMITTED"
      <4>1. [NoRow EXCEPT !.status = "SUBMITTED",
                          !.escrow = IF PledgedUsdc[b] > 0 THEN "PENDING" ELSE "NONE"].status
                = "SUBMITTED"
        BY DEF NoRow
      <4>2. QED
        BY <1>0, <2>2, <4>1 DEF CreateAsset, Write, TypeOK
    <3>4. QED
      BY <1>1, <3>2, <3>3 DEF Activating, Spending
  <2>3. CASE BeginActivate(r, b)
    BY <2>1, <2>3 DEF BeginActivate, FirstActivationStep, Spending
  <2>4. CASE BeginDeploy(r, b) \/ BeginReject(r, b) \/ BeginDistribute(r, b)
    BY <2>1, <2>4 DEF BeginDeploy, BeginReject, BeginDistribute, Spending, Activating
  <2>5. QED
    BY <1>4, <2>2, <2>3, <2>4 DEF Arrive
<1>5. ASSUME Mint(r) PROVE Good
  <2>1. new.pc = "vault" /\ new.asset = a /\ requests[r].pc = "mint"
    BY <1>0, <1>5 DEF Mint, At, TypeOK, Request
  <2>2. QED
    BY <1>0, <2>1 DEF InOrder, Activating, Spending
<1>6. ASSUME WithdrawUsdc(r) PROVE Good
  <2>1. /\ requests[r].pc = "withdrawUsdc" /\ Goto(r, "bootstrap")
        /\ PledgedUsdc[a] <= Holds(v, "usdc")
    BY <1>0, <1>6 DEF WithdrawUsdc, At, WithdrawForPool
  <2>2. v \in Vaults /\ minted[v] = a /\ PledgedUsdc[a] > 0 /\ a \in Assets
    BY <1>0, <2>1 DEF Knows, InOrder, Activating
  <2>3. Holds(v, "usdc") \in Nat /\ PledgedUsdc[a] \in Nat
    BY <1>0, <2>2, IssuanceEscrowAssumption DEF TypeOK, Vault, Kinds, Holds
  <2>4. released[a] > 0
    BY <2>1, <2>2, <2>3 DEF LifeIsFunded, Released
  <2>5. QED
    BY <1>3, <2>1, <2>4 DEF PC, Activating
<1>7. ASSUME Step(r), ~Mint(r), ~WithdrawUsdc(r), ~Done(r) PROVE Good
  <2>1. PICK pc \in PC :
            /\ Goto(r, pc) /\ requests[r].pc # "idle"
            /\ pc \in Activating => requests[r].pc \in Activating
            /\ pc \in Spending => requests[r].pc \in Spending
    BY <1>7 DEF Step, Fails, RecordLock, RecordLockFails, DeployVault,
       OptIntoAsset, MoveSupply, OptIntoUsdc, SaveDeployed, Reject,
       ReturnLiquidity, ReturnFails, SaveReturned, Release, ReleaseFails,
       SaveReleased, WithdrawTokens, WithdrawTokensFails, WithdrawUsdcFails,
       BootstrapPool, SeedPool, SeedFails, OptIntoLp, SendLp, List, Distribute,
       DistributeFails, PC, At, Activating, Spending
  <2>2. QED
    BY <1>3, <2>1
<1> HIDE DEF Good
<1>8. Good
  BY <1>2, <1>4, <1>5, <1>6, <1>7 DEF Die
<1>9. QED
  BY <1>8 DEF Good

(* What a write of a row may do to what the row tells. *)
RowMove(a, new) ==
    \/ Noted(new) = Noted(rows[a]) /\ new.status \in {"SUBMITTED", "PRE_MARKET", "REJECTED"}
    \/ Noted(new) = Noted(rows[a]) /\ new.status = rows[a].status
    \/ Noted(new) = Noted(rows[a]) /\ new.status = "ACTIVE" /\ HasMarket(a)
    \/ new.status = rows[a].status /\ Noted(new) \in PaidTo(a)

LEMMA RowMoves ==
    ASSUME IInv, LifeIsFunded, [Next]_vars
    PROVE  \/ rows' = rows
           \/ /\ UNCHANGED chainVars
              /\ \E a \in Assets, new \in Row :
                     Write(a, new) /\ RowMove(a, new) /\ new.status # "NONE"
<1> USE IssuanceAssumption DEF RowMove, Noted
<1> DEFINE Told ==
        /\ UNCHANGED chainVars
        /\ \E a \in Assets, new \in Row :
               Write(a, new) /\ RowMove(a, new) /\ new.status # "NONE"
<1>0. /\ \A a \in Assets : rows[a] \in Row
      /\ \A r \in Requests : requests[r].pc # "idle" =>
             /\ Asset(r) \in Assets /\ rows[Asset(r)].status # "NONE"
             /\ Knows(requests[r])
  BY DEF IInv, TypeOK, RequestsKnow, Knows, Asset, LifeIsFunded, InOrder
<1>1. ASSUME NEW r \in Requests, NEW a \in Assets, CreateAsset(r, a) PROVE Told
  <2>n. PICK new : new = [NoRow EXCEPT !.status = "SUBMITTED",
                        !.escrow = IF PledgedUsdc[a] > 0 THEN "PENDING" ELSE "NONE"]
    OBVIOUS
  <2>1. /\ new \in Row /\ new.status = "SUBMITTED"
        /\ new.escrow \in {"PENDING", "NONE"}
    BY <2>n DEF NoRow, Row, AssetStatus, Verification, EscrowStatus
  <2>2. Write(a, new) /\ UNCHANGED chainVars /\ rows[a].status = "NONE"
    BY <1>1, <2>n DEF CreateAsset
  <2>3. rows[a].escrow = "NONE"
    BY <2>2 DEF LifeIsFunded
  <2>4. QED
    BY <2>1, <2>2, <2>3
<1>2. ASSUME NEW r \in Requests, SaveDeployed(r) PROVE Told
  <2>a. PICK a : a = Asset(r)
    OBVIOUS
  <2>n. PICK new : new = [rows[a] EXCEPT !.vault = VaultOf(r), !.status = "PRE_MARKET"]
    OBVIOUS
  <2>1. a \in Assets /\ rows[a] \in Row /\ VaultOf(r) \in Vaults
    BY <1>0, <1>2, <2>a DEF SaveDeployed, At, Knows, Deploying, VaultOf
  <2>2. new \in Row /\ new.status = "PRE_MARKET" /\ new.escrow = rows[a].escrow
    BY <2>1, <2>n DEF Row, AssetStatus
  <2>3. Write(a, new) /\ UNCHANGED chainVars
    BY <1>2, <2>a, <2>n DEF SaveDeployed
  <2>4. QED
    BY <2>1, <2>2, <2>3
<1>3. ASSUME NEW a \in Assets, Approve(a) PROVE Told
  <2>n. PICK new : new = [rows[a] EXCEPT !.verification = "APPROVED"]
    OBVIOUS
  <2>1. new \in Row /\ new.status = rows[a].status /\ new.escrow = rows[a].escrow
    BY <1>0, <2>n DEF Row, Verification
  <2>2. Write(a, new) /\ UNCHANGED chainVars /\ rows[a].status # "NONE"
    BY <1>3, <2>n DEF Approve
  <2>3. QED
    BY <2>1, <2>2
<1>4. ASSUME NEW r \in Requests, Reject(r) PROVE Told
  <2>a. PICK a : a = Asset(r)
    OBVIOUS
  <2>n. PICK new : new = [rows[a] EXCEPT !.verification = "REJECTED",
                                         !.status = "REJECTED"]
    OBVIOUS
  <2>1. a \in Assets /\ rows[a] \in Row
    BY <1>0, <1>4, <2>a DEF Reject, At
  <2>2. new \in Row /\ new.status = "REJECTED" /\ new.escrow = rows[a].escrow
    BY <2>1, <2>n DEF Row, Verification, AssetStatus
  <2>3. Write(a, new) /\ UNCHANGED chainVars
    BY <1>4, <2>a, <2>n DEF Reject
  <2>4. QED
    BY <2>1, <2>2, <2>3
<1>5. ASSUME NEW r \in Requests, SaveReturned(r) \/ SaveReleased(r) PROVE Told
  <2>a. PICK a : a = Asset(r)
    OBVIOUS
  <2>1. PICK status \in {"RETURNED_TO_ISSUER", "RELEASED_TO_VAULT"} :
            /\ Write(a, [rows[a] EXCEPT !.escrow = status])
            /\ status = "RETURNED_TO_ISSUER" => At(r, "returned")
            /\ status = "RELEASED_TO_VAULT" => At(r, "released")
    BY <1>5, <2>a DEF SaveReturned, SaveReleased
  <2>n. PICK new : new = [rows[a] EXCEPT !.escrow = status]
    OBVIOUS
  <2>2. /\ a \in Assets /\ rows[a] \in Row /\ rows[a].status # "NONE"
        /\ status = "RETURNED_TO_ISSUER" => returned[a] > 0
        /\ status = "RELEASED_TO_VAULT" => released[a] > 0
    BY <1>0, <1>5, <2>1, <2>a DEF SaveReturned, SaveReleased, At, Knows, Asset
  <2>3. new \in Row /\ new.status = rows[a].status /\ new.escrow = status
    BY <2>2, <2>n DEF Row, EscrowStatus
  <2>4. Write(a, new) /\ UNCHANGED chainVars
    BY <1>5, <2>1, <2>n DEF SaveReturned, SaveReleased
  <2>5. Noted(new) \in PaidTo(a)
    BY <2>2, <2>3 DEF PaidTo
  <2>6. QED
    BY <2>2, <2>3, <2>4, <2>5
<1>6. ASSUME NEW r \in Requests, List(r) PROVE Told
  <2>a. PICK a : a = Asset(r)
    OBVIOUS
  <2>n. PICK new : new = [rows[a] EXCEPT !.status = "ACTIVE"]
    OBVIOUS
  <2>1. a \in Assets /\ rows[a] \in Row /\ HasMarket(a)
    BY <1>0, <1>6, <2>a DEF List, At, Knows, Activating, Asset, HasMarket
  <2>2. new \in Row /\ new.status = "ACTIVE" /\ new.escrow = rows[a].escrow
    BY <2>1, <2>n DEF Row, AssetStatus
  <2>3. Write(a, new) /\ UNCHANGED chainVars
    BY <1>6, <2>a, <2>n DEF List
  <2>4. QED
    BY <2>1, <2>2, <2>3
<1>7. ASSUME NEW r \in Requests, NEW a \in Assets, Arrive(r, a), ~CreateAsset(r, a)
      PROVE  rows' = rows
  BY <1>7 DEF Arrive, BeginDeploy, BeginReject, BeginActivate, BeginDistribute
<1>8. ASSUME NEW r \in Requests, Step(r) \/ Die(r), ~SaveDeployed(r), ~Reject(r),
             ~SaveReturned(r), ~SaveReleased(r), ~List(r)
      PROVE  rows' = rows
  BY <1>8 DEF Step, Die, Fails, RecordLock, RecordLockFails, Mint, DeployVault,
     OptIntoAsset, MoveSupply, OptIntoUsdc, ReturnLiquidity, ReturnFails,
     Release, ReleaseFails, WithdrawTokens, WithdrawTokensFails, WithdrawUsdc,
     WithdrawUsdcFails, BootstrapPool, SeedPool, SeedFails, OptIntoLp, SendLp,
     Distribute, DistributeFails, outsideEscrow, outsideVaults
<1>9. ASSUME NEW a \in Assets, RecordByHand(a) \/ DistributeFromVault(a)
      PROVE  rows' = rows
  BY <1>9 DEF RecordByHand, DistributeFromVault, outsideEscrow
<1>10. ASSUME \/ \E d \in Deposits : Deposit(d)
              \/ SetUpEscrow \/ PauseOrUnpause \/ Dispense
       PROVE  rows' = rows
  BY <1>10 DEF Deposit, SetUpEscrow, PauseOrUnpause, Dispense, outsideEscrow
<1>11. ASSUME UNCHANGED vars PROVE rows' = rows
  BY <1>11 DEF vars
<1> HIDE DEF Told
<1>12. rows' = rows \/ Told
  BY <1>1, <1>2, <1>3, <1>4, <1>5, <1>6, <1>7, <1>8, <1>9, <1>10, <1>11 DEF Next
<1>13. QED
  BY <1>12 DEF Told

(* A pool is seeded by a request that has USDC from a release. *)
LEMMA PoolMoves ==
    ASSUME TypeOK, RequestsKnow, [Next]_vars, NEW v \in Vaults, pools'[v] = "seeded"
    PROVE  \/ pools[v] = "seeded"
           \/ \E r \in Requests : SeedPool(r) /\ VaultOf(r) = v
<1> DEFINE Kept == pools'[v] = "seeded" => pools[v] = "seeded"
<1>0. UNCHANGED pools => Kept
  OBVIOUS
<1>1. ASSUME NEW r \in Requests, BootstrapPool(r) PROVE Kept
  BY <1>1 DEF BootstrapPool, TypeOK
<1>2. ASSUME NEW r \in Requests, SeedPool(r), VaultOf(r) # v PROVE Kept
  BY <1>2 DEF SeedPool, TypeOK
<1>3. ASSUME NEW r \in Requests, Step(r) \/ Die(r), ~BootstrapPool(r), ~SeedPool(r)
      PROVE  UNCHANGED pools
  BY <1>3 DEF Step, Die, Fails, RecordLock, RecordLockFails, Mint, DeployVault,
     OptIntoAsset, MoveSupply, OptIntoUsdc, SaveDeployed, Reject,
     ReturnLiquidity, ReturnFails, SaveReturned, Release, ReleaseFails,
     SaveReleased, WithdrawTokens, WithdrawTokensFails, WithdrawUsdc,
     WithdrawUsdcFails, SeedFails, OptIntoLp, SendLp, List, Distribute,
     DistributeFails, outsideEscrow, outsideVaults, chainVars
<1>4. ASSUME NEW r \in Requests, NEW a \in Assets, Arrive(r, a)
      PROVE  UNCHANGED pools
  BY <1>4 DEF Arrive, CreateAsset, BeginDeploy, BeginReject, BeginActivate,
     BeginDistribute, chainVars
<1>5. ASSUME NEW a \in Assets, Approve(a) \/ RecordByHand(a) \/ DistributeFromVault(a)
      PROVE  UNCHANGED pools
  BY <1>5 DEF Approve, RecordByHand, DistributeFromVault, outsideEscrow, chainVars
<1>6. ASSUME \/ \E d \in Deposits : Deposit(d)
             \/ SetUpEscrow \/ PauseOrUnpause \/ Dispense
      PROVE  UNCHANGED pools
  BY <1>6 DEF Deposit, SetUpEscrow, PauseOrUnpause, Dispense, outsideEscrow
<1>7. ASSUME UNCHANGED vars PROVE UNCHANGED pools
  BY <1>7 DEF vars, chainVars
<1> HIDE DEF Kept
<1>8. Kept \/ \E r \in Requests : SeedPool(r) /\ VaultOf(r) = v
  BY <1>0, <1>1, <1>2, <1>3, <1>4, <1>5, <1>6, <1>7 DEF Next
<1>9. QED
  BY <1>8 DEF Kept

LEMMA LifeInit == Init => LifeIsFunded
<1> SUFFICES ASSUME Init PROVE LifeIsFunded
  OBVIOUS
<1>1. \A v \in Vaults : Holds(v, "usdc") = 0 /\ pools[v] = "none"
  BY DEF Init, VaultInit, NoVault, Holds, Kinds
<1>2. \A r \in Requests : requests[r].pc = "idle"
  BY DEF Init, Idle
<1>3. \A a \in Assets : rows[a].escrow = "NONE"
  BY DEF Init, NoRow
<1>4. QED
  BY <1>1, <1>2, <1>3 DEF LifeIsFunded, InOrder, Activating, Spending

LEMMA LifeStep ==
    ASSUME IInv, TypeOK', LifeIsFunded, [Next]_vars
    PROVE  LifeIsFunded'
<1> USE IssuanceAssumption
<1>0. ChainGrows /\ TypeOK /\ RequestsKnow
  BY ChainMoves DEF IInv
<1>1. ASSUME NEW a \in Assets
      PROVE  /\ rows[a].status # "NONE" => rows'[a].status # "NONE"
             /\ rows'[a].status = "NONE" => rows'[a].escrow = "NONE"
             /\ released[a] > 0 => released'[a] > 0
  <2>1. released[a] > 0 => released'[a] > 0
    BY <1>0 DEF ChainGrows, TypeOK, IssuanceEscrowTypeOK
  <2>2. CASE rows' = rows
    BY <2>1, <2>2 DEF LifeIsFunded
  <2>3. CASE rows' # rows
    <3>1. PICK b \in Assets, new \in Row : Write(b, new) /\ new.status # "NONE"
      BY <2>3, RowMoves
    <3>2. QED
      BY <1>0, <2>1, <3>1, WriteStep DEF LifeIsFunded
  <2>4. QED
    BY <2>2, <2>3
<1>2. ASSUME NEW v \in Vaults, Holds(v, "usdc")' > 0 \/ pools'[v] = "seeded"
      PROVE  Released(v)'
  <2>1. ASSUME Released(v) PROVE Released(v)'
    BY <1>0, <1>1, <2>1 DEF Released, ChainGrows
  <2>2. ASSUME NEW r \in Requests, Release(r), VaultOf(r) = v PROVE Released(v)'
    <3>1. Asset(r) \in Assets /\ minted[v] = Asset(r)
      BY <1>0, <2>2 DEF Release, At, RequestsKnow, Knows, Activating, Asset, VaultOf
    <3>2. released'[Asset(r)] > 0
      BY <1>0, <2>2, <3>1 DEF Release, ReleaseToVault, TypeOK, IssuanceEscrowTypeOK
    <3>3. QED
      BY <1>0, <3>1, <3>2 DEF Released, ChainGrows
  <2>3. ASSUME NEW r \in Requests, SeedPool(r), VaultOf(r) = v PROVE Released(v)
    BY <1>0, <2>3 DEF SeedPool, At, RequestsKnow, Knows, Activating, Asset,
       VaultOf, LifeIsFunded, InOrder, Spending, Released
  <2>4. Holds(v, "usdc") \in Nat /\ Holds(v, "usdc")' \in Nat
    BY DEF IInv, TypeOK, Vault, Kinds, Holds
  <2>5. \/ Holds(v, "usdc") > 0 \/ pools[v] = "seeded"
        \/ \E r \in Requests : Release(r) /\ VaultOf(r) = v
        \/ \E r \in Requests : SeedPool(r) /\ VaultOf(r) = v
    BY <1>0, <1>2, <2>4, HoldingsMove, PoolMoves DEF Kinds
  <2>6. QED
    BY <2>1, <2>2, <2>3, <2>5 DEF LifeIsFunded
<1>3. ASSUME NEW q \in Requests PROVE InOrder(requests[q])'
  <2>1. /\ requests[q] \in Request /\ requests'[q] \in Request
        /\ requests'[q].pc # "idle" => requests'[q].asset \in Assets
    <3>1. RequestsKnow'
      BY InvStep DEF IInv
    <3>2. QED
      BY <1>0, <3>1 DEF TypeOK, RequestsKnow, Knows
  <2>2. CASE requests'[q] = requests[q]
    <3>1. InOrder(requests[q]) /\ (requests[q].pc # "idle" => requests[q].asset \in Assets)
      BY <1>0 DEF LifeIsFunded, RequestsKnow, Knows
    <3>2. QED
      BY <1>1, <2>2, <3>1 DEF InOrder, Activating, Spending
  <2>3. CASE requests'[q] # requests[q]
    <3>1. \/ requests' = requests
          \/ \E r \in Requests : Step(r) \/ Die(r) \/ \E a \in Assets : Arrive(r, a)
      BY DEF Next, Approve, RecordByHand, DistributeFromVault, Deposit,
         SetUpEscrow, PauseOrUnpause, Dispense, vars
    <3>2. Step(q) \/ Die(q) \/ \E a \in Assets : Arrive(q, a)
      BY <1>0, <2>3, <3>1, OneActor
    <3>3. QED
      BY <1>1, <2>1, <3>2, OrderKept DEF InOrder, Activating, Spending
  <2>4. QED
    BY <2>2, <2>3
<1>4. QED
  BY <1>1, <1>2, <1>3 DEF LifeIsFunded

LEMMA LifeInvariance == Spec => [](IInv /\ LifeIsFunded)
<1>1. Init => IInv /\ LifeIsFunded
  BY InvInit, LifeInit
<1>2. IInv /\ LifeIsFunded /\ [Next]_vars => (IInv /\ LifeIsFunded)'
  <2>1. IInv /\ [Next]_vars => IInv'
    BY InvStep
  <2>2. IInv' => TypeOK'
    BY DEF IInv
  <2>3. QED
    BY <2>1, <2>2, LifeStep
<1>3. QED
  BY <1>1, <1>2, PTL DEF Spec

(* Only the seeding of a pool and the sending of its LP tokens make a      *)
(* market, and each for the request's own asset.                           *)
LEMMA MarketMoves ==
    ASSUME IInv, TypeOK', LifeIsFunded, [Next]_vars, NEW a \in Assets, HasMarket(a)'
    PROVE  \/ HasMarket(a)
           \/ \E r \in Requests : (SeedPool(r) \/ SendLp(r)) /\ Asset(r) = a
<1> USE IssuanceAssumption
<1>1. PICK v \in Vaults : minted'[v] = a /\ pools'[v] = "seeded" /\ Holds(v, "lp")' > 0
  BY DEF HasMarket
<1>2. /\ TypeOK /\ RequestsKnow /\ ChainGrows
      /\ Holds(v, "lp") \in Nat /\ Holds(v, "lp")' \in Nat
  BY ChainMoves DEF IInv, TypeOK, Vault, Kinds, Holds
<1>3. ASSUME NEW r \in Requests, SeedPool(r) \/ SendLp(r), VaultOf(r) = v
      PROVE  Asset(r) = a
  BY <1>1, <1>2, <1>3 DEF SeedPool, SendLp, At, RequestsKnow, Knows, Activating,
     Asset, VaultOf, ChainGrows
<1>4. CASE pools[v] # "seeded"
  BY <1>1, <1>2, <1>3, <1>4, PoolMoves
<1>5. CASE pools[v] = "seeded"
  <2>1. minted[v] = a
    BY <1>1, <1>2, <1>5 DEF LifeIsFunded, Released, ChainGrows
  <2>2. CASE Holds(v, "lp") > 0
    BY <1>5, <2>1, <2>2 DEF HasMarket
  <2>3. CASE ~(Holds(v, "lp") > 0)
    <3>1. \E r \in Requests : SendLp(r) /\ VaultOf(r) = v
      BY <1>1, <1>2, <2>3, HoldingsMove DEF Kinds
    <3>2. QED
      BY <1>3, <3>1
  <2>4. QED
    BY <2>2, <2>3
<1>6. QED
  BY <1>4, <1>5

LEMMA LifeBegins == Init => Life!Init
<1> SUFFICES ASSUME Init PROVE Life!Init
  OBVIOUS
<1>1. \A a \in Assets : PaidTo(a) = {} /\ Noted(rows[a]) = "none"
  BY DEF Init, IssuanceEscrowInit, PaidTo, Noted, NoRow
<1>2. \A a \in Assets : ~HasMarket(a) /\ rows[a].status # "ACTIVE"
  BY DEF Init, HasMarket, NoRow
<1>3. QED
  BY <1>1, <1>2 DEF Life!Init, paidBar, notedBar, fundedBar, listedBar

LEMMA MarketStays ==
    ASSUME IInv, TypeOK', [Next]_vars, NEW a \in Assets, HasMarket(a)
    PROVE  HasMarket(a)'
<1>1. PICK v \in Vaults : minted[v] = a /\ pools[v] = "seeded" /\ Holds(v, "lp") > 0
  BY DEF HasMarket
<1>2. Holds(v, "lp") \in Nat /\ Holds(v, "lp")' \in Nat
  BY DEF IInv, TypeOK, Vault, Holds, Kinds
<1>3. minted'[v] = a /\ pools'[v] = "seeded" /\ Holds(v, "lp")' > 0
  BY <1>1, <1>2, ChainMoves, IssuanceAssumption DEF IInv, ChainGrows, VaultsGrow
<1>4. QED
  BY <1>3 DEF HasMarket

LEMMA MarketMakerMoves ==
    ASSUME TypeOK, NEW r \in Requests, SeedPool(r) \/ SendLp(r)
    PROVE  /\ requests'[r] # requests[r]
           /\ \A q \in Requests \ {r} : requests'[q] = requests[q]
<1>1. PICK pc \in PC : Goto(r, pc) /\ requests[r].pc # pc
  BY DEF SeedPool, SendLp, At, PC
<1>2. /\ requests'[r].pc = pc
      /\ \A q \in Requests \ {r} : requests'[q] = requests[q]
  BY <1>1, GotoStep
<1>3. QED
  BY <1>1, <1>2

(* A release pays the vault, a return the issuer. *)
LEMMA PaymentIsPay ==
    ASSUME IInv, TypeOK', LifeIsFunded, [Next]_vars,
           NEW r \in Requests, Release(r) \/ ReturnLiquidity(r)
    PROVE  \E payee \in Life!Payees : Life!Pay(Asset(r), payee)
<1>1. /\ Asset(r) \in Assets /\ rows' = rows
      /\ ~SeedPool(r) /\ ~SendLp(r)
      /\ requests[r].pc \in {"release", "return"} /\ requests'[r] # requests[r]
      /\ \A q \in Requests \ {r} : requests'[q] = requests[q]
  <2>1. PICK pc \in {"released", "returned"} : Goto(r, pc)
    BY DEF Release, ReturnLiquidity
  <2>2. pc \in PC
    BY DEF PC
  <2>3. requests'[r].pc = pc /\ \A q \in Requests \ {r} : requests'[q] = requests[q]
    BY <2>1, <2>2, GotoStep DEF IInv
  <2>4. requests[r].pc \in {"release", "return"} /\ rows' = rows
    BY DEF Release, ReturnLiquidity, At, outsideEscrow
  <2>5. Asset(r) \in Assets
    BY <2>4 DEF IInv, RequestsKnow, Knows, Asset
  <2>6. ~SeedPool(r) /\ ~SendLp(r)
    BY <2>4 DEF SeedPool, SendLp, At
  <2>7. QED
    BY <2>3, <2>4, <2>5, <2>6
<1>2. PICK payee \in Life!Payees :
          \A a \in Assets : PaidTo(a)' = IF a = Asset(r) THEN PaidTo(a) \cup {payee}
                                                         ELSE PaidTo(a)
  <2>1. /\ released \in [Assets -> Nat] /\ returned \in [Assets -> Nat]
    BY DEF IInv, TypeOK, IssuanceEscrowTypeOK
  <2>2. CASE Release(r)
    <3>1. released' = [released EXCEPT ![Asset(r)] = @ + 1] /\ returned' = returned
      BY <2>2 DEF Release, ReleaseToVault
    <3>2. \A a \in Assets : PaidTo(a)' = IF a = Asset(r) THEN PaidTo(a) \cup {"vault"}
                                                         ELSE PaidTo(a)
      BY <1>1, <2>1, <3>1 DEF PaidTo
    <3>3. QED
      BY <3>2 DEF Life!Payees
  <2>3. CASE ReturnLiquidity(r)
    <3>1. returned' = [returned EXCEPT ![Asset(r)] = @ + 1] /\ released' = released
      BY <2>3 DEF ReturnLiquidity, ReturnToIssuer
    <3>2. \A a \in Assets : PaidTo(a)' = IF a = Asset(r) THEN PaidTo(a) \cup {"issuer"}
                                                         ELSE PaidTo(a)
      BY <1>1, <2>1, <3>1 DEF PaidTo
    <3>3. QED
      BY <3>2 DEF Life!Payees
  <2>4. QED
    BY <2>2, <2>3
<1>3. \A a \in Assets : HasMarket(a)' <=> HasMarket(a)
  <2>1. \A q \in Requests : ~SeedPool(q) /\ ~SendLp(q)
    BY <1>1, MarketMakerMoves DEF IInv
  <2>2. QED
    BY <2>1, MarketStays, MarketMoves
<1>4. paidBar' = [paidBar EXCEPT ![Asset(r)] = @ \cup {payee}]
  BY <1>1, <1>2 DEF paidBar
<1>5. fundedBar' = fundedBar /\ notedBar' = notedBar /\ listedBar' = listedBar
  BY <1>1, <1>3 DEF fundedBar, notedBar, listedBar, Noted
<1>6. QED
  BY <1>4, <1>5 DEF Life!Pay

(* A row is written while the chain stands still. *)
LEMMA WriteIsLife ==
    ASSUME IInv, TypeOK', LifeIsFunded, UNCHANGED chainVars,
           NEW a \in Assets, NEW new \in Row, Write(a, new), RowMove(a, new)
    PROVE  [Life!Next]_(Life!lifeVars)
<1>1. /\ rows'[a] = new
      /\ \A b \in Assets \ {a} : rows'[b] = rows[b]
  BY WriteStep DEF IInv
<1>2. paidBar' = paidBar /\ fundedBar' = fundedBar
  BY DEF paidBar, fundedBar, PaidTo, HasMarket, Holds, chainVars, issuanceEscrowVars
<1>3. /\ notedBar' = [notedBar EXCEPT ![a] = Noted(new)]
      /\ Noted(new) = Noted(rows[a]) => notedBar' = notedBar
  BY <1>1 DEF notedBar, Noted
<1>4. /\ new.status = "ACTIVE" => listedBar' = listedBar \cup {a}
      /\ new.status # "ACTIVE" => listedBar' = listedBar \ {a}
      /\ new.status = rows[a].status => listedBar' = listedBar
  BY <1>1 DEF listedBar
<1>5. CASE /\ Noted(new) = Noted(rows[a])
           /\ new.status \in {"SUBMITTED", "PRE_MARKET", "REJECTED"}
  BY <1>2, <1>3, <1>4, <1>5 DEF Life!Delist, Life!Next
<1>6. CASE Noted(new) = Noted(rows[a]) /\ new.status = rows[a].status
  BY <1>2, <1>3, <1>4, <1>6 DEF Life!lifeVars
<1>7. CASE Noted(new) = Noted(rows[a]) /\ new.status = "ACTIVE" /\ HasMarket(a)
  <2>1. a \in fundedBar
    BY <1>7 DEF fundedBar
  <2>2. QED
    BY <1>2, <1>3, <1>4, <1>7, <2>1 DEF Life!List, Life!Next
<1>8. CASE new.status = rows[a].status /\ Noted(new) \in PaidTo(a)
  <2>1. Noted(new) \in Life!Payees /\ Noted(new) \in paidBar[a]
    BY <1>8 DEF paidBar, PaidTo, Life!Payees
  <2>2. QED
    BY <1>2, <1>3, <1>4, <1>8, <2>1 DEF Life!Note, Life!Next
<1>9. QED
  BY <1>5, <1>6, <1>7, <1>8 DEF RowMove

(* No row is written and nothing is paid: at most a market is made.        *)
LEMMA MarketIsLife ==
    ASSUME IInv, TypeOK', LifeIsFunded, LifeIsFunded', [Next]_vars,
           UNCHANGED <<rows, released, returned>>
    PROVE  [Life!Next]_(Life!lifeVars)
<1>1. paidBar' = paidBar /\ notedBar' = notedBar /\ listedBar' = listedBar
  BY DEF paidBar, notedBar, listedBar, PaidTo, Noted
<1>2. fundedBar \subseteq fundedBar'
  BY MarketStays DEF fundedBar
<1>3. CASE fundedBar' = fundedBar
  BY <1>1, <1>3 DEF Life!lifeVars
<1>4. CASE fundedBar' # fundedBar
  <2>1. PICK a \in Assets : HasMarket(a)' /\ ~HasMarket(a)
    BY <1>2, <1>4 DEF fundedBar
  <2>2. PICK r \in Requests : (SeedPool(r) \/ SendLp(r)) /\ Asset(r) = a
    BY <2>1, MarketMoves
  <2>3. ASSUME NEW b \in Assets, HasMarket(b)', ~HasMarket(b) PROVE b = a
    <3>1. PICK q \in Requests : (SeedPool(q) \/ SendLp(q)) /\ Asset(q) = b
      BY <2>3, MarketMoves
    <3>2. q = r
      BY <2>2, <3>1, MarketMakerMoves DEF IInv
    <3>3. QED
      BY <2>2, <3>1, <3>2
  <2>4. fundedBar' = fundedBar \cup {a}
    BY <1>2, <2>1, <2>3 DEF fundedBar
  <2>5. "vault" \in paidBar[a]
    <3>1. released[a] > 0
      BY <2>1 DEF HasMarket, LifeIsFunded, Released
    <3>2. QED
      BY <3>1 DEF paidBar, PaidTo
  <2>6. QED
    BY <1>1, <2>4, <2>5 DEF Life!OpenMarket, Life!Next
<1>5. QED
  BY <1>3, <1>4

LEMMA LifeAdvances ==
    ASSUME IInv, TypeOK', LifeIsFunded, LifeIsFunded', [Next]_vars
    PROVE  [Life!Next]_(Life!lifeVars)
<1>1. ASSUME NEW r \in Requests, Release(r) \/ ReturnLiquidity(r)
      PROVE  Life!Next
  <2>1. Asset(r) \in Assets
    BY <1>1 DEF Release, ReturnLiquidity, At, IInv, RequestsKnow, Knows, Asset
  <2>2. QED
    BY <1>1, <2>1, PaymentIsPay DEF Life!Next
<1>2. CASE \A r \in Requests : ~Release(r) /\ ~ReturnLiquidity(r)
  <2>1. UNCHANGED <<released, returned>>
    BY <1>2, OnlyPaymentsPay
  <2>2. CASE rows' = rows
    BY <2>1, <2>2, MarketIsLife
  <2>3. CASE rows' # rows
    BY <2>3, RowMoves, WriteIsLife
  <2>4. QED
    BY <2>2, <2>3
<1>3. QED
  BY <1>1, <1>2

(* However requests overlap and wherever they die, the service implements  *)
(* the life of an asset: rows tell of payments after they are made, every  *)
(* market is made with its own asset's deposit, and listing comes last.    *)
THEOREM AssetLifeIsImplemented == Spec => ImplementsAssetLife
<1>1. Init => Life!Init
  BY LifeBegins
<1>2. IInv /\ LifeIsFunded /\ (IInv /\ LifeIsFunded)' /\ [Next]_vars
          => [Life!Next]_(Life!lifeVars)
  <2>1. IInv' => TypeOK'
    BY DEF IInv
  <2>2. QED
    BY <2>1, LifeAdvances
<1>3. QED
  BY <1>1, <1>2, LifeInvariance, PTL DEF Spec, ImplementsAssetLife, Life!Spec

LEMMA PromiseStep ==
    ASSUME Life!LifeInv, [Life!Next]_(Life!lifeVars)
    PROVE  Life!LifeInv'
<1> USE DEF Life!LifeInv
<1>0. /\ paidBar' = [a \in Assets |-> paidBar'[a]]
      /\ paidBar = [a \in Assets |-> paidBar[a]]
      /\ notedBar = [a \in Assets |-> notedBar[a]]
  BY DEF paidBar, notedBar
<1>1. CASE UNCHANGED Life!lifeVars
  BY <1>1 DEF Life!lifeVars
<1>2. ASSUME NEW a \in Assets, NEW payee \in Life!Payees,
             Life!Pay(a, payee) \/ Life!Note(a, payee)
      PROVE  Life!LifeInv'
  BY <1>0, <1>2 DEF Life!Pay, Life!Note, Life!Payees
<1>3. ASSUME NEW a \in Assets, Life!OpenMarket(a) \/ Life!List(a) \/ Life!Delist(a)
      PROVE  Life!LifeInv'
  BY <1>3 DEF Life!OpenMarket, Life!List, Life!Delist
<1>4. QED
  BY <1>1, <1>2, <1>3 DEF Life!Next

(* Whoever implements the life of an asset lists nothing without an open   *)
(* market and opens none without the asset's own deposit; so does issuance. *)
THEOREM AssetLifeKept == (Life!Spec => []Life!LifeInv) /\ (Spec => []Life!LifeInv)
<1>1. Life!Init => Life!LifeInv
  BY DEF Life!Init, Life!LifeInv
<1>2. Life!Spec => []Life!LifeInv
  BY <1>1, PromiseStep, PTL DEF Life!Spec
<1>3. QED
  BY <1>2, AssetLifeIsImplemented, PTL DEF ImplementsAssetLife
=============================================================================
