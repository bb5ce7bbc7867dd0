---------------------------- MODULE StrikeToken ----------------------------
(***************************************************************************)
(* The StrikeToken application (contracts/strike_token.py): a fixed supply *)
(* that create_token puts into the contract's own account, the "mint" that *)
(* sends from it, burns that come back to it, and vesting.  Callers hold   *)
(* the role a method asks for.  revoke_vesting changes nothing and         *)
(* remove_asset_controls nothing that a method reads: no action for them.  *)
(***************************************************************************)
EXTENDS TxnGroup, FiniteSetsExt, Functions

CONSTANTS
    Holders,           \* accounts that hold STRIKE
    TotalSupply,       \* total_supply
    Mints, Burnt, Transfers,   \* amounts of the calls
    Vestings,          \* schedules the admin may create
    Beneficiaries,
    MaxUint,           \* 2^64 - 1: an AVM product above it fails the call
    TimeStep,          \* days between two calls that differ in time
    MaxMinted,         \* bound: STRIKE ever sent from the contract's account
    MaxTime            \* bound: Global.latest_timestamp

ASSUME TokenAssumption ==
    /\ {TotalSupply, MaxUint, TimeStep, MaxMinted, MaxTime} \subseteq Nat
    /\ Mints \subseteq Nat /\ Burnt \subseteq Nat /\ Transfers \subseteq Nat
    /\ Vestings \subseteq [total: Nat \ {0}, cliff: Nat, duration: Nat \ {0}]
    /\ Beneficiaries \subseteq Holders /\ "token" \notin Holders

VARIABLES
    now,               \* Global.latest_timestamp
    created,           \* asset_id > 0
    reserve,           \* STRIKE in the contract's account
    wallet,            \* STRIKE of every holder
    minted, burned,    \* minted_supply, burned_supply
    schedules,         \* vesting_schedules
    tokenPaused,       \* is_paused
    overburned         \* history: STRIKE booked again as burned

tokenVars == <<now, created, reserve, wallet, minted, burned, schedules, tokenPaused,
               overburned>>

TokenInit ==
    /\ now = 1 /\ created = FALSE /\ tokenPaused = FALSE
    /\ reserve = 0 /\ minted = 0 /\ burned = 0
    /\ wallet = [h \in Holders |-> 0]
    /\ schedules = <<>> /\ overburned = 0 /\ group = NoGroup

(* create_token: the creator of an ASA receives all of it. *)
CreateToken ==
    /\ ~created /\ created' = TRUE
    /\ reserve' = TotalSupply
    /\ UNCHANGED <<now, wallet, minted, burned, schedules, tokenPaused, overburned, group>>

(* An inner transfer out of the contract's account. *)
SendFromReserve(to, amount) ==
    /\ amount <= reserve
    /\ reserve' = reserve - amount
    /\ wallet' = [wallet EXCEPT ![to] = @ + amount]

(* mint *)
Mint(to, amount) ==
    /\ created /\ ~tokenPaused
    /\ minted + amount <= TotalSupply
    /\ SendFromReserve(to, amount)
    /\ minted' = minted + amount
    /\ UNCHANGED <<now, created, burned, schedules, tokenPaused, overburned, group>>

(* Transaction 0 sends STRIKE, a plain ASA, to another holder or to the    *)
(* contract's account.                                                     *)
SendStrike(a, to, amount) ==
    /\ Begin("strike", to, amount)
    /\ created /\ a # to /\ amount <= wallet[a]
    /\ IF to = "token"
       THEN /\ wallet' = [wallet EXCEPT ![a] = @ - amount]
            /\ reserve' = reserve + amount
       ELSE /\ wallet' = [wallet EXCEPT ![a] = @ - amount, ![to] = @ + amount]
            /\ UNCHANGED reserve
    /\ UNCHANGED <<now, created, minted, burned, schedules, tokenPaused, overburned>>

(* burn: transaction 0 brought the tokens back.                            *)
Burn(amount) ==
    /\ created /\ ~tokenPaused
    /\ Carries("strike", "token") /\ Book(amount)
    /\ burned' = burned + amount
    /\ overburned' = overburned + BookedAgain(amount)
    /\ UNCHANGED <<now, created, reserve, wallet, minted, schedules, tokenPaused>>

(* create_vesting: a second schedule replaces the first, released or not.  *)
CreateVesting(b, v) ==
    /\ ~tokenPaused
    /\ schedules' = [h \in DOMAIN schedules \cup {b} |->
           IF h = b THEN [total |-> v.total, released |-> 0, start |-> now,
                          cliff |-> v.cliff, duration |-> v.duration]
                    ELSE schedules[h]]
    /\ UNCHANGED <<now, created, reserve, wallet, minted, burned, tokenPaused,
                   overburned, group>>

(* _calculate_vested *)
Vested(s) ==
    IF now < s.start + s.cliff THEN 0
    ELSE IF now >= s.start + s.duration THEN s.total
    ELSE (s.total * (now - s.start)) \div s.duration

(* Its product has 64 bits: until the schedule is over a large total makes *)
(* every release fail.                                                     *)
VestedFits(s) ==
    (now >= s.start + s.cliff /\ now < s.start + s.duration)
        => s.total * (now - s.start) <= MaxUint

(* release_vested: bounded by the account's balance, not by total_supply.  *)
ReleaseVested(b) ==
    LET s == schedules[b] IN
    /\ created /\ ~tokenPaused
    /\ VestedFits(s) /\ Vested(s) > s.released
    /\ minted + Vested(s) - s.released <= MaxMinted
    /\ SendFromReserve(b, Vested(s) - s.released)
    /\ schedules' = [schedules EXCEPT ![b].released = Vested(s)]
    /\ minted' = minted + Vested(s) - s.released
    /\ UNCHANGED <<now, created, burned, tokenPaused, overburned, group>>

(* An inner transfer between two holders' accounts. *)
TransferStrike(a, b, amount) ==
    /\ a # b /\ amount <= wallet[a]
    /\ wallet' = [wallet EXCEPT ![a] = @ - amount, ![b] = @ + amount]
    /\ UNCHANGED <<now, created, reserve, minted, burned, schedules, tokenPaused,
                   overburned, group>>

(* pause, unpause *)
PauseToken ==
    /\ tokenPaused' = ~tokenPaused
    /\ UNCHANGED <<now, created, reserve, wallet, minted, burned, schedules,
                   overburned, group>>

(* The chain's clock. *)
Tick ==
    /\ now + TimeStep <= MaxTime /\ now' = now + TimeStep
    /\ UNCHANGED <<created, reserve, wallet, minted, burned, schedules, tokenPaused,
                   overburned, group>>

TokenNext ==
    \/ CreateToken
    \/ \E to \in Beneficiaries, amount \in Mints : Mint(to, amount)
    \/ \E a \in Beneficiaries, to \in Holders \cup {"token"}, amount \in Transfers :
           SendStrike(a, to, amount)
    \/ \E amount \in Burnt : Burn(amount)
    \/ \E b \in Beneficiaries, v \in Vestings : CreateVesting(b, v)
    \/ \E b \in DOMAIN schedules : ReleaseVested(b)
    \/ PauseToken
    \/ Tick
    \/ End /\ UNCHANGED tokenVars

-----------------------------------------------------------------------------
(* What circulates is never more than minted_supply less burned_supply,    *)
(* through releases that mint past total_supply what burns brought back    *)
(* (strike_token.py:161, :293), but for what several calls of burn book of *)
(* one transfer (:186): by that much, and no more, get_token_info may show *)
(* too little.                                                             *)
CirculationAccounted == created => TotalSupply - reserve <= minted - burned + overburned
=============================================================================
