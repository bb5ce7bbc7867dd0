---------------------------- MODULE Whitelist ----------------------------
(***************************************************************************)
(* Who may hold an asset: the WhitelistRegistry contract, the compliance   *)
(* service's table beside it and the pre-trade check that reads both       *)
(* (contracts/whitelist-registry, packages/algorand, services/compliance). *)
(* The service writes the table only: its own calls of the contract carry  *)
(* no ABI selector, are refused, and the refusal is swallowed.             *)
(***************************************************************************)
EXTENDS Integers

CONSTANTS Wallets, AssetIds,
          Identity0,        \* IDENTITY_ASSET_ID
          NoRow, NoBox, Absent,
          AnnualLimit,      \* tier -> limit of the trade value; 0 means none
          Unit,             \* 1_000_000, by which prices are scaled
          MinInvestment,    \* the minimum of a MIN_INVESTMENT rule, 0 without one
          Products,         \* bound: quantity * price of a trade
          Ends,             \* bound: expiry times that are used, 0 for none
          MaxTime           \* bound

Asa == 1
KycTiers == {1, 3}          \* bound: a tier with a limit and the one without

ASSUME WhitelistAssumption ==
    /\ AnnualLimit \in [KycTiers -> Nat] /\ Unit \in Nat \ {0}
    /\ Products \subseteq Nat /\ Ends \subseteq Nat

VARIABLES
    row,       \* whitelistEntry of a wallet and asset id: asaId, tier, isActive, expiresAt
    box,       \* the registry's box of a wallet: tier and expiry, for Asa
    halted,    \* isPaused
    now,       \* the service's clock
    latest,    \* Global.latestTimestamp
    adding,    \* the second half of an internal whitelist/add, or Absent
    check,     \* the pre-trade check in progress, or Absent
    skips      \* DEV_SKIP_COMPLIANCE, which does not change

whitelistVars == <<row, box, halted, now, latest, adding, check, skips>>

WhitelistInit ==
    /\ row = [k \in Wallets \X AssetIds |-> NoRow]
    /\ box = [w \in Wallets |-> NoBox]
    /\ halted = FALSE /\ now = 1 /\ latest = 1
    /\ adding = Absent /\ check = Absent
    /\ skips \in BOOLEAN

-----------------------------------------------------------------------------
(* The contract: its compliance oracle adds, with a tier of 1 to 3, and    *)
(* removes, while it is not paused; who the oracle is is left out.         *)
AddToWhitelist(w, tier, end) ==
    /\ ~halted
    /\ box' = [box EXCEPT ![w] = [tier |-> tier, expiry |-> end]]
    /\ UNCHANGED <<row, halted, now, latest, adding, check, skips>>

RemoveFromWhitelist(w) ==
    /\ ~halted /\ box[w] # NoBox
    /\ box' = [box EXCEPT ![w] = NoBox]
    /\ UNCHANGED <<row, halted, now, latest, adding, check, skips>>

Pause ==
    /\ halted' = ~halted
    /\ UNCHANGED <<row, box, now, latest, adding, check, skips>>

(* isWhitelisted, by the chain's clock *)
IsWhitelisted(w) ==
    box[w] # NoBox /\ ~(box[w].expiry > 0 /\ latest > box[w].expiry)

-----------------------------------------------------------------------------
(* Without an expiry, the one of a row that exists is kept. *)
Upserted(w, id, tier, end) ==
    [asa |-> IF id = Identity0 THEN 0 ELSE Asa, tier |-> tier, active |-> TRUE,
     expires |-> IF end = 0 /\ row[<<w, id>>] # NoRow THEN row[<<w, id>>].expires ELSE end]

(* whitelist/add writes the identity row, calls the contract in vain, and  *)
(* goes on to the asset's row, if an asset was given.                      *)
InternalAdd(w, id, tier, end) ==
    /\ adding = Absent
    /\ row' = [row EXCEPT ![<<w, Identity0>>] = Upserted(w, Identity0, tier, end)]
    /\ adding' = IF id = Identity0 THEN Absent
                 ELSE [wallet |-> w, id |-> id, tier |-> tier, expires |-> end]
    /\ UNCHANGED <<box, halted, now, latest, check, skips>>

AddAsset ==
    /\ adding # Absent
    /\ row' = [row EXCEPT ![<<adding.wallet, adding.id>>] =
                  Upserted(adding.wallet, adding.id, adding.tier, adding.expires)]
    /\ adding' = Absent
    /\ UNCHANGED <<box, halted, now, latest, check, skips>>

(* An await throws: answered with success false, the first row stays. *)
AddFails ==
    /\ adding # Absent
    /\ adding' = Absent
    /\ UNCHANGED <<row, box, halted, now, latest, check, skips>>

(* whitelist/remove: every row of the wallet, and no box. *)
InternalRemove(w) ==
    /\ \E id \in AssetIds : row[<<w, id>>] # NoRow /\ row[<<w, id>>].active
    /\ row' = [k \in DOMAIN row |->
                  IF k[1] = w /\ row[k] # NoRow THEN [row[k] EXCEPT !.active = FALSE] ELSE row[k]]
    /\ UNCHANGED <<box, halted, now, latest, adding, check, skips>>

(* devApproveWallet, which the asset service calls for wallets it pays:    *)
(* tier 1 for two years, after a removal too.                              *)
DevApprove(w, id) ==
    /\ id # Identity0
    /\ \E end \in Ends :
          /\ end > now
          /\ row' = [row EXCEPT ![<<w, id>>] = Upserted(w, id, 1, end)]
    /\ UNCHANGED <<box, halted, now, latest, adding, check, skips>>

-----------------------------------------------------------------------------
(* checkPreTrade: with DEV_SKIP_COMPLIANCE everything is approved, without *)
(* a look at any grant; else the box is read first, ...                    *)
StartCheck(w, product) ==
    /\ check = Absent
    /\ check' = [stage |-> IF skips THEN "approved" ELSE "box", wallet |-> w, product |-> product]
    /\ UNCHANGED <<row, box, halted, now, latest, adding, skips>>

(* Fault: the service trusts a box of any age. *)
QueryWhitelist_AnyAge(w) == box[w] # NoBox

(* queryWhitelistOnChain, by the service's clock *)
QueryWhitelist(w) == box[w] # NoBox /\ ~(box[w].expiry > 0 /\ box[w].expiry < now)

(* checkAnnualLimit: the volume of the year so far is always passed as 0.  *)
WithinLimit(tier, product) ==
    AnnualLimit[tier] = 0 \/ product \div Unit <= AnnualLimit[tier]

AfterGrant(tier) ==
    check' = IF WithinLimit(tier, check.product) THEN [check EXCEPT !.stage = "rules"] ELSE Absent

ReadBox ==
    /\ check # Absent /\ check.stage = "box"
    /\ IF QueryWhitelist(check.wallet)
       THEN AfterGrant(box[check.wallet].tier)
       ELSE check' = [check EXCEPT !.stage = "row"]
    /\ UNCHANGED <<row, box, halted, now, latest, adding, skips>>

(* algod does not answer. *)
BoxUnread ==
    /\ check # Absent /\ check.stage = "box"
    /\ check' = [check EXCEPT !.stage = "row"]
    /\ UNCHANGED <<row, box, halted, now, latest, adding, skips>>

ActiveRows(w) ==
    {r \in {row[<<w, id>>] : id \in AssetIds} \ {NoRow} : r.asa = Asa /\ r.active}

Overdue(r) == r.expires # 0 /\ r.expires < now

(* ... then any active row with the asaId, when the box grants nothing.    *)
ReadRow ==
    /\ check # Absent /\ check.stage = "row"
    /\ \/ ActiveRows(check.wallet) = {} /\ check' = Absent
       \/ \E r \in ActiveRows(check.wallet) :
             IF Overdue(r) THEN check' = Absent ELSE AfterGrant(r.tier)
    /\ UNCHANGED <<row, box, halted, now, latest, adding, skips>>

(* The rules; MIN_INVESTMENT compares the unscaled product.                *)
MeetsRules == check.product >= MinInvestment

(* Approved, or BELOW_MINIMUM_INVESTMENT. *)
Answer ==
    /\ check # Absent /\ check.stage = "rules"
    /\ check' = IF MeetsRules THEN [check EXCEPT !.stage = "approved"] ELSE Absent
    /\ UNCHANGED <<row, box, halted, now, latest, adding, skips>>

Answered ==
    /\ check # Absent /\ check.stage = "approved"
    /\ check' = Absent
    /\ UNCHANGED <<row, box, halted, now, latest, adding, skips>>

Tick ==
    /\ now < MaxTime
    /\ now' = now + 1
    /\ UNCHANGED <<row, box, halted, latest, adding, check, skips>>

(* A block carries a time the clock has passed. *)
NewBlock ==
    /\ latest < now
    /\ latest' = latest + 1
    /\ UNCHANGED <<row, box, halted, now, adding, check, skips>>

WhitelistNext ==
    \/ \E w \in Wallets :
          \/ RemoveFromWhitelist(w) \/ InternalRemove(w)
          \/ \E product \in Products : StartCheck(w, product)
          \/ \E id \in AssetIds : DevApprove(w, id)
          \/ \E tier \in KycTiers, end \in Ends :
                \/ AddToWhitelist(w, tier, end)
                \/ \E id \in AssetIds : InternalAdd(w, id, tier, end)
    \/ Pause \/ AddAsset \/ AddFails \/ ReadBox \/ BoxUnread \/ ReadRow \/ Answer \/ Answered
    \/ Tick \/ NewBlock

WhitelistSpec == WhitelistInit /\ [][WhitelistNext]_whitelistVars

-----------------------------------------------------------------------------
(* Everything that entitles a wallet to hold the asset at this moment.     *)
LiveGrants(w) ==
    (IF IsWhitelisted(w) THEN {box[w].tier} ELSE {})
        \cup {r.tier : r \in {x \in ActiveRows(w) : ~Overdue(x)}}

(* The service decides off chain what the registry decides on chain, and   *)
(* falls back on a table of its own: a trade passes the whitelist only     *)
(* while the contract itself, or an active row that has not expired,       *)
(* grants the buyer a tier whose limit is not below the trade's value;     *)
(* without DEV_SKIP_COMPLIANCE there is no other way to an approval        *)
(* (rules.service.ts:54, on-chain-queries.ts:92).                          *)
ApprovedOnLiveGrant ==
    [][/\ check # Absent /\ check' # Absent /\ check.stage # "rules" /\ check'.stage = "rules"
         => \E t \in LiveGrants(check.wallet) :
               AnnualLimit[t] = 0 \/ check.product <= AnnualLimit[t] * Unit + Unit - 1
       /\ check' # Absent /\ check'.stage = "approved" /\ check' # check
         => skips \/ (check # Absent /\ check.stage = "rules")]_whitelistVars
=============================================================================
