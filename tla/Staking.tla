------------------------------ MODULE Staking ------------------------------
(***************************************************************************)
(* The Staking application (contracts/staking.py) over the STRIKE token.   *)
(* A call reads the transfer it asks for at transaction 0 of its group;    *)
(* time is counted in days.  AVM products have 64 bits and fail the call beyond    *)
(* them.  The market addresses are stored and never read.                  *)
(***************************************************************************)
EXTENDS StrikeToken

CONSTANTS
    StakingApp,        \* the contract's account, a holder of STRIKE
    Admin,             \* the contract's admin, another holder
    Stakes,            \* amounts staked and unstaked, all >= min_stake
    LockDays,          \* lock periods asked for
    Rewards,           \* ALGO deposited as rewards, or paid in as a fee
    Precision,         \* 1e12
    Period,            \* distribution_period, in days
    TxnFee, StakingFunds, StakingMinBalance, StakeBoxRent,
    MaxAlgo,           \* bound: ALGO in the contract's account
    MaxRewards         \* bound: rewards ever deposited

ASSUME StakingAssumption ==
    /\ StakingApp \in Holders \ Beneficiaries
    /\ Admin \in Holders \ {StakingApp}
    /\ Stakes \subseteq Nat \ {0} /\ LockDays \subseteq Nat
    /\ Rewards \subseteq Nat
    /\ {Precision, Period} \subseteq Nat \ {0}
    /\ {TxnFee, StakingFunds, StakingMinBalance, StakeBoxRent, MaxAlgo,
        MaxRewards} \subseteq Nat

VARIABLES
    stakes,            \* StakeInfo boxes
    totalStaked, totalWeighted, totalStakers,
    accRewardPerShare, lastRewardTime, rewardRate,
    rewardsBalance,    \* algo_rewards_balance
    distributed,       \* total_rewards_distributed
    stakingPaused,     \* is_paused
    stakingAlgo,       \* ALGO of the contract's account
    rescued,           \* history: STRIKE taken by emergency_withdraw
    overstaked         \* history: STRIKE booked again as staked

totals      == <<totalStaked, totalWeighted, totalStakers>>
accrual     == <<accRewardPerShare, lastRewardTime, rewardRate>>
stakingVars == <<stakes, totals, accrual, rewardsBalance, distributed,
                 stakingPaused, stakingAlgo, rescued, overstaked>>
vars        == <<tokenVars, stakingVars, group>>

Stake == [amount: Nat, lockUntil: Nat, multiplier: Nat, debt: Nat, pending: Nat]

-----------------------------------------------------------------------------
(* _get_lock_multiplier, in basis points *)
Multiplier(days) ==
    IF days = 0 THEN 10000 ELSE IF days <= 30 THEN 12500
    ELSE IF days <= 90 THEN 15000 ELSE IF days <= 180 THEN 20000 ELSE 30000

Weighted(amount, multiplier) == (amount * multiplier) \div 10000

LockEnd(days) == IF days = 0 THEN 0 ELSE now + days

(* The subtractions that are skipped when they would go below zero. *)
Less(total, x) == IF total >= x THEN total - x ELSE total

(* _update_rewards: what has accrued per share since the last call, at a   *)
(* rate that nothing stops when the deposited rewards are used up.         *)
Accrued ==
    IF totalWeighted = 0 THEN 0
    ELSE ((now - lastRewardTime) * rewardRate * Precision) \div totalWeighted

AccruedFits ==
    totalWeighted > 0 => (now - lastRewardTime) * rewardRate * Precision <= MaxUint

UpdateRewards ==
    /\ AccruedFits
    /\ accRewardPerShare' = accRewardPerShare + Accrued
    /\ lastRewardTime' = now
    /\ UNCHANGED rewardRate

(* staked_amount * acc_reward_per_share // precision, after the update *)
RewardOf(amount) == (amount * accRewardPerShare') \div Precision
RewardFits(amount) == amount * accRewardPerShare' <= MaxUint

(* Rewards of a box since its debt was set, by the amount and not by the   *)
(* weight it was counted with.                                             *)
Earned(box) == Floored(RewardOf(box.amount) - box.debt)

StakingPays(amount) ==
    /\ stakingAlgo' = stakingAlgo - amount - TxnFee
    /\ stakingAlgo' >= StakingMinBalance + Cardinality(DOMAIN stakes') * StakeBoxRent

WithStake(u, box) ==
    [v \in DOMAIN stakes \cup {u} |-> IF v = u THEN box ELSE stakes[v]]

(* Fault: the new lock replaces a longer one. *)
JoinedLock_Latest(old, new) == new

JoinedLock(old, new) == Max({old, new})

-----------------------------------------------------------------------------
StakingInit ==
    /\ stakes = <<>> /\ totalStaked = 0 /\ totalWeighted = 0 /\ totalStakers = 0
    /\ accRewardPerShare = 0 /\ lastRewardTime = 1 /\ rewardRate = 0
    /\ rewardsBalance = 0 /\ distributed = 0
    /\ stakingPaused = FALSE /\ stakingAlgo = StakingFunds
    /\ rescued = 0 /\ overstaked = 0

(* stake: what an existing stake has earned since its debt was set is not  *)
(* carried over, and the weight grows by the new part alone.               *)
DoStake(u, amount, days) ==
    LET known == u \in DOMAIN stakes
        old   == stakes[u]
        sum   == IF known THEN old.amount + amount ELSE amount
    IN  /\ ~stakingPaused
        /\ Carries("strike", StakingApp) /\ Book(amount)
        /\ overstaked' = overstaked + BookedAgain(amount)
        /\ UpdateRewards /\ RewardFits(sum)
        /\ stakes' = WithStake(u,
               [amount     |-> sum,
                lockUntil  |-> IF known THEN JoinedLock(old.lockUntil, LockEnd(days))
                               ELSE LockEnd(days),
                multiplier |-> IF known THEN Max({old.multiplier, Multiplier(days)})
                               ELSE Multiplier(days),
                debt       |-> RewardOf(sum),
                pending    |-> IF known THEN old.pending ELSE 0])
        /\ totalStakers' = IF known THEN totalStakers ELSE totalStakers + 1
        /\ totalStaked' = totalStaked + amount
        /\ totalWeighted' = totalWeighted + Weighted(amount, Multiplier(days))
        /\ UNCHANGED <<rewardsBalance, distributed, stakingPaused, stakingAlgo, rescued,
                       tokenVars>>

(* unstake: all of it deletes the box, with the rewards it had pending.    *)
Unstake(u, amount) ==
    LET old  == stakes[u]
        rest == old.amount - amount
    IN  /\ ~stakingPaused
        /\ amount <= old.amount /\ now >= old.lockUntil
        /\ UpdateRewards /\ RewardFits(old.amount)
        /\ stakes' = IF rest > 0
                     THEN WithStake(u, [old EXCEPT !.amount = rest,
                                                   !.debt = RewardOf(rest),
                                                   !.pending = @ + Earned(old)])
                     ELSE Restrict(stakes, DOMAIN stakes \ {u})
        /\ totalStakers' = IF rest > 0 THEN totalStakers ELSE Less(totalStakers, 1)
        /\ totalStaked' = Less(totalStaked, amount)
        /\ totalWeighted' = Less(totalWeighted, Weighted(amount, old.multiplier))
        /\ TransferStrike(StakingApp, u, amount)
        /\ StakingPays(0)
        /\ UNCHANGED <<rewardsBalance, distributed, stakingPaused, rescued, overstaked>>

(* claim_rewards: pays nothing and reports success when the deposited      *)
(* rewards do not reach; nothing changes then but the accrual.             *)
ClaimRewards(u) ==
    LET old == stakes[u]
        due == Earned(old) + old.pending
    IN  /\ ~stakingPaused
        /\ UpdateRewards /\ RewardFits(old.amount)
        /\ IF due > 0 /\ due <= rewardsBalance
           THEN /\ stakes' = WithStake(u, [old EXCEPT !.debt = RewardOf(old.amount),
                                                   !.pending = 0])
                /\ StakingPays(due)
                /\ rewardsBalance' = rewardsBalance - due
                /\ distributed' = distributed + due
           ELSE UNCHANGED <<stakes, stakingAlgo, rewardsBalance, distributed>>
        /\ UNCHANGED <<totals, stakingPaused, rescued, overstaked, tokenVars, group>>

(* Transaction 0 pays the contract. *)
PayStaking(amount) ==
    /\ Begin("algo", "staking", amount)
    /\ stakingAlgo + amount <= MaxAlgo
    /\ stakingAlgo' = stakingAlgo + amount
    /\ UNCHANGED <<stakes, totals, accrual, rewardsBalance, distributed,
                   stakingPaused, rescued, overstaked, tokenVars>>

(* deposit_rewards: anyone, behind a payment that covers the amount.       *)
DepositRewards(amount) ==
    /\ rewardsBalance + distributed + amount <= MaxRewards
    /\ Carries("algo", "staking") /\ Book(amount)
    /\ rewardsBalance' = rewardsBalance + amount
    /\ rewardRate' = IF totalWeighted > 0 THEN rewardsBalance' \div Period ELSE rewardRate
    /\ UNCHANGED <<stakes, totals, accRewardPerShare, lastRewardTime, distributed,
                   stakingPaused, stakingAlgo, rescued, overstaked, tokenVars>>

(* _route_fee of both markets: a plain payment, which no method of this    *)
(* contract turns into rewards.                                            *)
ReceiveFee(amount) ==
    /\ stakingAlgo + amount <= MaxAlgo
    /\ stakingAlgo' = stakingAlgo + amount
    /\ UNCHANGED <<stakes, totals, accrual, rewardsBalance, distributed,
                   stakingPaused, rescued, overstaked, tokenVars, group>>

(* Fault: the compounded rewards stay deposited and are not distributed.   *)
CompoundedInto_Twice(due) == distributed

CompoundedInto(due) == distributed + due

(* compound: as many units of STRIKE are added to the stake as there are   *)
(* units of ALGO due; no STRIKE comes in.                                  *)
Compound(u) ==
    LET old == stakes[u]
        due == Earned(old) + old.pending
        sum == old.amount + due
        was == Weighted(old.amount, old.multiplier)
    IN  /\ ~stakingPaused
        /\ UpdateRewards /\ RewardFits(sum)
        /\ due <= rewardsBalance
        /\ stakes' = IF due = 0 THEN stakes
                     ELSE WithStake(u, [old EXCEPT !.amount = sum,
                                                   !.debt = RewardOf(sum),
                                                   !.pending = 0])
        /\ rewardsBalance' = rewardsBalance - due
        /\ distributed' = CompoundedInto(due)
        /\ totalStaked' = totalStaked + due
        /\ totalWeighted' = IF totalWeighted >= was
                            THEN totalWeighted - was + Weighted(sum, old.multiplier)
                            ELSE totalWeighted
        /\ UNCHANGED <<totalStakers, stakingPaused, stakingAlgo, rescued, overstaked,
                       tokenVars, group>>

(* extend_lock, without accruing first *)
ExtendLock(u, days) ==
    LET old == stakes[u]
        was == Weighted(old.amount, old.multiplier)
    IN  /\ ~stakingPaused
        /\ now + days > old.lockUntil /\ Multiplier(days) >= old.multiplier
        /\ stakes' = WithStake(u, [old EXCEPT !.lockUntil = now + days,
                                              !.multiplier = Multiplier(days)])
        /\ totalWeighted' = IF totalWeighted >= was
               THEN totalWeighted - was + Weighted(old.amount, Multiplier(days))
               ELSE totalWeighted
        /\ UNCHANGED <<totalStaked, totalStakers, accrual, rewardsBalance,
                       distributed, stakingPaused, stakingAlgo, rescued, overstaked,
                       tokenVars, group>>

(* pause, unpause *)
PauseStaking ==
    /\ stakingPaused' = ~stakingPaused
    /\ UNCHANGED <<stakes, totals, accrual, rewardsBalance, distributed,
                   stakingAlgo, rescued, overstaked, tokenVars, group>>

(* emergency_withdraw of STRIKE or of ALGO by the admin: no book changes.  *)
EmergencyWithdraw(strike, algo) ==
    /\ stakingAlgo' = stakingAlgo - algo - TxnFee
    /\ stakingAlgo' >= StakingMinBalance + Cardinality(DOMAIN stakes) * StakeBoxRent
    /\ IF strike > 0 THEN TransferStrike(StakingApp, Admin, strike)
                     ELSE UNCHANGED <<tokenVars, group>>
    /\ rescued' = rescued + strike
    /\ UNCHANGED <<stakes, totals, accrual, rewardsBalance, distributed, stakingPaused,
                   overstaked>>

Init == TokenInit /\ StakingInit

Next ==
    \/ TokenNext /\ UNCHANGED stakingVars
    \/ \E u \in Beneficiaries, amount \in Stakes, days \in LockDays :
           DoStake(u, amount, days)
    \/ \E u \in DOMAIN stakes, amount \in Stakes : Unstake(u, amount)
    \/ \E u \in DOMAIN stakes : ClaimRewards(u)
    \/ \E u \in DOMAIN stakes : Compound(u)
    \/ \E u \in DOMAIN stakes, days \in LockDays : ExtendLock(u, days)
    \/ \E amount \in Rewards : PayStaking(amount)
    \/ \E amount \in Rewards : DepositRewards(amount)
    \/ \E amount \in Rewards : ReceiveFee(amount)
    \/ PauseStaking
    \/ \E strike \in Stakes : EmergencyWithdraw(strike, 0)
    \/ \E algo \in Rewards : EmergencyWithdraw(0, algo)

Spec == Init /\ [][Next]_vars

-----------------------------------------------------------------------------
(* compound adds STRIKE to a stake that nobody sent (staking.py:405), and  *)
(* several stakes of one group book one transfer (:161): what the account  *)
(* lacks of the staked total is at most the rewards recorded as            *)
(* distributed, what was booked again and what the admin took in an        *)
(* emergency.                                                              *)
ShortfallIsCompounded ==
    totalStaked <= wallet[StakingApp] + distributed + rescued + overstaked

(* A stake under a running lock does not shrink and its lock does not come *)
(* nearer, by whatever calls: a second stake with a shorter lock, a        *)
(* compound, an extension (staking.py:189, :453).                          *)
LockKept ==
    [][\A u \in DOMAIN stakes : stakes[u].lockUntil > now =>
           /\ u \in DOMAIN stakes'
           /\ stakes'[u].amount >= stakes[u].amount
           /\ stakes'[u].lockUntil >= stakes[u].lockUntil]_vars
=============================================================================
