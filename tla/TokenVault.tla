----------------------------- MODULE TokenVault -----------------------------
(***************************************************************************)
(* The TokenVault applications (contracts/token-vault/src/                 *)
(* token-vault.algo.ts): one per minted ASA, which keeps the supply of the *)
(* ASA, the USDC released from the issuance escrow and the LP tokens of    *)
(* the pool.  The caller is always the admin: every method asserts it.     *)
(***************************************************************************)
EXTENDS Integers

CONSTANTS
    Vaults,        \* application ids; each vault is made for its own ASA
    Supply         \* totalSupply, in lots

VARIABLES vaults   \* vault -> its state, see Vault

Kinds == {"rwa", "usdc", "lp"}

(* distributed: distributedAmount; optedIn: asset kinds the account can    *)
(* hold; holds: its balances.                                              *)
Vault == [created: BOOLEAN, optedIn: SUBSET Kinds, holds: [Kinds -> Nat],
          distributed: Nat]

NoVault == [created |-> FALSE, optedIn |-> {},
            holds |-> [k \in Kinds |-> 0], distributed |-> 0]

ASSUME TokenVaultAssumption == Supply \in Nat

Created(v)  == vaults[v].created
Holds(v, k) == vaults[v].holds[k]

VaultInit == vaults = [v \in Vaults |-> NoVault]

-----------------------------------------------------------------------------
(* createApplication *)
CreateVault(v) ==
    /\ ~Created(v)
    /\ vaults' = [vaults EXCEPT ![v].created = TRUE]

(* optIntoAsset, optIntoUsdc, optIntoLpToken *)
OptInVault(v, k) ==
    /\ Created(v)
    /\ vaults' = [vaults EXCEPT ![v].optedIn = @ \cup {k}]

CanReceive(v, k) == k \in vaults[v].optedIn

(* An ordinary transfer to the vault's account, no call of the contract. *)
ReceiveInVault(v, k, amount) ==
    /\ CanReceive(v, k)
    /\ vaults' = [vaults EXCEPT ![v].holds[k] = @ + amount]

MayDistribute(v, amount) == vaults[v].distributed + amount <= Supply

DistributeToIssuer(v, amount) ==
    /\ MayDistribute(v, amount)
    /\ amount <= Holds(v, "rwa")
    /\ vaults' = [vaults EXCEPT ![v].holds["rwa"] = @ - amount,
                                ![v].distributed = @ + amount]

(* withdrawForPool (the ASA) and withdrawUsdcForPool, which pays out       *)
(* whatever asset id it is called with.                                    *)
WithdrawForPool(v, k, amount) ==
    /\ Created(v)
    /\ amount <= Holds(v, k)
    /\ vaults' = [vaults EXCEPT ![v].holds[k] = @ - amount]
=============================================================================
