---------------------------- MODULE StakingProofs ----------------------------
(* Proofs about the staking contract over its token: circulation is         *)
(* accounted for, a running lock holds, and what the contract lacks of the  *)
(* staked total is bounded.                                                 *)
EXTENDS Staking, SumTheorems

-----------------------------------------------------------------------------
(* The group: transaction 0 carries STRIKE or ALGO.                         *)

GroupTyped ==
    group \in [asset: {"none", "algo", "strike"}, to: Holders \cup {"none", "token", "staking"},
               amount: Nat, unbooked: Nat, calls: Nat]

LEMMA BegunGroup ==
    ASSUME NEW asset \in {"algo", "strike"}, NEW to \in Holders \cup {"token", "staking"},
           NEW amount \in Nat, Begin(asset, to, amount)
    PROVE  GroupTyped'
BY GroupAssumption DEF Begin, GroupTyped

(* A call moves what it books from the unbooked part of the transfer to     *)
(* what was booked again.                                                   *)
LEMMA BookedGroup ==
    ASSUME GroupTyped, NEW x \in Nat, Book(x)
    PROVE  /\ GroupTyped'
           /\ group'.asset = group.asset /\ group'.to = group.to
           /\ BookedAgain(x) \in Nat
           /\ BookedAgain(x) - group'.unbooked = x - group.unbooked
<1>1. group.amount \in Nat /\ group.unbooked \in Nat /\ group.calls \in Nat
  BY DEF GroupTyped
<1>2. /\ group.calls > 0 /\ x <= group.amount
      /\ group' = [group EXCEPT !.calls = group.calls - 1,
                                !.unbooked = Floored(group.unbooked - x)]
  BY <1>1 DEF Book
<1>3. Floored(group.unbooked - x) \in Nat /\ group.calls - 1 \in Nat
  BY <1>1, <1>2 DEF Floored
<1>4. /\ GroupTyped' /\ group'.unbooked = Floored(group.unbooked - x)
      /\ group'.asset = group.asset /\ group'.to = group.to
  BY <1>2, <1>3 DEF GroupTyped
<1>5. BookedAgain(x) = Floored(x - group.unbooked)
  BY <1>2 DEF BookedAgain
<1>6. QED
  BY <1>1, <1>4, <1>5 DEF Floored

(* What of a transfer no call has booked: of STRIKE sent back to the token  *)
(* contract, and of STRIKE sent to the staking contract.                    *)
SpareBurn(g)  == IF g.asset = "strike" /\ g.to = "token" THEN g.unbooked ELSE 0
SpareStake(g) == IF g.asset = "strike" /\ g.to = StakingApp THEN g.unbooked ELSE 0

LEMMA SpareIsNat ==
    ASSUME GroupTyped
    PROVE  SpareBurn(group) \in Nat /\ SpareStake(group) \in Nat
BY DEF GroupTyped, SpareBurn, SpareStake

LEMMA SpareKept ==
    ASSUME group' = group
    PROVE  SpareBurn(group') = SpareBurn(group) /\ SpareStake(group') = SpareStake(group)
BY DEF SpareBurn, SpareStake

LEMMA SpareEnds ==
    ASSUME End
    PROVE  SpareBurn(group') = 0 /\ SpareStake(group') = 0
BY DEF End, NoGroup, SpareBurn, SpareStake

LEMMA SpareBegins ==
    ASSUME NEW to \in Holders \cup {"token", "staking"}, NEW asset \in {"algo", "strike"},
           NEW amount \in Nat, Begin(asset, to, amount)
    PROVE  /\ SpareBurn(group) = 0
           /\ SpareBurn(group') = IF asset = "strike" /\ to = "token" THEN amount ELSE 0
           /\ SpareStake(group) = 0
           /\ SpareStake(group') = IF asset = "strike" /\ to = StakingApp THEN amount ELSE 0
BY DEF Begin, NoGroup, SpareBurn, SpareStake

LEMMA SpareBooked ==
    ASSUME GroupTyped, NEW x \in Nat, Book(x)
    PROVE  /\ SpareBurn(group') \in Nat /\ SpareStake(group') \in Nat /\ BookedAgain(x) \in Nat
           /\ IF Carries("strike", "token")
              THEN BookedAgain(x) - SpareBurn(group') = x - SpareBurn(group)
              ELSE SpareBurn(group') = 0 /\ SpareBurn(group) = 0
           /\ IF Carries("strike", StakingApp)
              THEN BookedAgain(x) - SpareStake(group') = x - SpareStake(group)
              ELSE SpareStake(group') = 0 /\ SpareStake(group) = 0
<1>1. /\ GroupTyped' /\ group'.asset = group.asset /\ group'.to = group.to
      /\ BookedAgain(x) \in Nat /\ group'.unbooked \in Nat
      /\ BookedAgain(x) - group'.unbooked = x - group.unbooked
  BY BookedGroup DEF GroupTyped
<1>2. StakingApp # "token"
  BY StakingAssumption, TokenAssumption
<1> HIDE DEF BookedAgain
<1>3. CASE Carries("strike", "token")
  BY <1>1, <1>2, <1>3 DEF Carries, SpareBurn, SpareStake
<1>4. CASE Carries("strike", StakingApp)
  BY <1>1, <1>2, <1>4 DEF Carries, SpareBurn, SpareStake
<1>5. CASE ~Carries("strike", "token") /\ ~Carries("strike", StakingApp)
  BY <1>1, <1>5 DEF Carries, SpareBurn, SpareStake
<1>6. QED
  BY <1>3, <1>4, <1>5

-----------------------------------------------------------------------------
(* The token *)

Schedule == [total: Nat \ {0}, released: Int, start: Nat, cliff: Nat, duration: Nat \ {0}]

TokenTyped ==
    /\ now \in Nat /\ created \in BOOLEAN
    /\ reserve \in Int /\ minted \in Int /\ burned \in Int /\ overburned \in Nat
    /\ \A b \in DOMAIN schedules : schedules[b] \in Schedule

(* Before create_token nothing is minted, burned or sent back.  After it,   *)
(* what came back and no call has burned yet does not circulate and counts  *)
(* as if it did.                                                            *)
TokenInv ==
    /\ TokenTyped
    /\ ~created => minted = 0 /\ burned = 0 /\ SpareBurn(group) = 0
    /\ created => TotalSupply - reserve + SpareBurn(group) <= minted - burned + overburned

LEMMA AccountedIsEnough ==
    ASSUME GroupTyped, TokenInv
    PROVE  CirculationAccounted
<1>1. TotalSupply \in Nat /\ SpareBurn(group) \in Nat
  BY TokenAssumption, SpareIsNat
<1>2. QED
  BY <1>1 DEF TokenInv, TokenTyped, CirculationAccounted

(* A step that touches no figure of the token. *)
LEMMA TokenKept ==
    ASSUME GroupTyped, TokenInv,
           UNCHANGED <<created, reserve, minted, burned, overburned, schedules>>, now' \in Nat,
           SpareBurn(group') \in Nat, SpareBurn(group') <= SpareBurn(group)
    PROVE  TokenInv'
<1>1. TotalSupply \in Nat /\ SpareBurn(group) \in Nat
  BY TokenAssumption, SpareIsNat
<1>2. TokenTyped'
  BY DEF TokenInv, TokenTyped
<1>3. QED
  BY <1>1, <1>2 DEF TokenInv, TokenTyped

-----------------------------------------------------------------------------
(* What a schedule has vested is an amount, at any time. *)
LEMMA VestedIsInt ==
    ASSUME now \in Nat, NEW s \in Schedule
    PROVE  Vested(s) \in Int
<1>1. s.total \in Nat /\ s.start \in Nat /\ s.duration \in Nat \ {0}
  BY DEF Schedule
<1>2. s.total * (now - s.start) \in Int
  BY <1>1
<1>3. (s.total * (now - s.start)) \div s.duration \in Int
  <2> DEFINE product == s.total * (now - s.start)
             duration == s.duration
  <2>1. product \in Int /\ duration \in Nat \ {0}
    BY <1>1, <1>2
  <2> HIDE DEF product, duration
  <2>2. product \div duration \in Int
    BY <2>1
  <2>3. QED
    BY <2>2 DEF product, duration
<1>4. QED
  BY <1>1, <1>3 DEF Vested

(* Tokens leave the account only when minted_supply grows by as much, and  *)
(* a group burns no more than what came back, but for what is booked again.*)
LEMMA TokenStep ==
    ASSUME GroupTyped, TokenInv, TokenNext
    PROVE  TokenInv'
<1>1. TotalSupply \in Nat /\ SpareBurn(group) \in Nat
  BY TokenAssumption, SpareIsNat
<1>2. /\ now \in Nat /\ created \in BOOLEAN
      /\ reserve \in Int /\ minted \in Int /\ burned \in Int /\ overburned \in Nat
      /\ \A b \in DOMAIN schedules : schedules[b] \in Schedule
  BY DEF TokenInv, TokenTyped
<1>3. /\ ~created => minted = 0 /\ burned = 0 /\ SpareBurn(group) = 0
      /\ created => TotalSupply - reserve + SpareBurn(group) <= minted - burned + overburned
  BY DEF TokenInv
<1>4. CASE CreateToken
  <2>1. SpareBurn(group') = SpareBurn(group)
    BY <1>4, SpareKept DEF CreateToken
  <2>2. QED
    BY <1>1, <1>2, <1>3, <1>4, <2>1 DEF CreateToken, TokenInv, TokenTyped
<1>5. ASSUME NEW to \in Beneficiaries, NEW amount \in Mints, Mint(to, amount)
      PROVE  TokenInv'
  <2>1. amount \in Nat
    BY TokenAssumption
  <2>2. SpareBurn(group') = SpareBurn(group)
    BY <1>5, SpareKept DEF Mint
  <2>3. QED
    BY <1>1, <1>2, <1>3, <1>5, <2>1, <2>2 DEF Mint, SendFromReserve, TokenInv, TokenTyped
<1>6. ASSUME NEW a \in Beneficiaries, NEW to \in Holders \cup {"token"}, NEW amount \in Transfers,
             SendStrike(a, to, amount)
      PROVE  TokenInv'
  <2>1. amount \in Nat
    BY TokenAssumption
  <2>2. /\ SpareBurn(group) = 0 /\ SpareBurn(group') = IF to = "token" THEN amount ELSE 0
        /\ reserve' = IF to = "token" THEN reserve + amount ELSE reserve
        /\ created /\ UNCHANGED <<now, created, minted, burned, schedules, overburned>>
    BY <1>6, <2>1, SpareBegins DEF SendStrike
  <2>3. QED
    BY <1>1, <1>2, <1>3, <2>1, <2>2 DEF TokenInv, TokenTyped
<1>7. ASSUME NEW amount \in Burnt, Burn(amount)
      PROVE  TokenInv'
  <2>1. amount \in Nat
    BY TokenAssumption
  <2>2. /\ Carries("strike", "token") /\ Book(amount) /\ created
        /\ burned' = burned + amount /\ overburned' = overburned + BookedAgain(amount)
        /\ UNCHANGED <<now, created, reserve, minted, schedules>>
    BY <1>7 DEF Burn
  <2>3. /\ SpareBurn(group') \in Nat /\ BookedAgain(amount) \in Nat
        /\ BookedAgain(amount) - SpareBurn(group') = amount - SpareBurn(group)
    BY <2>1, <2>2, SpareBooked
  <2>4. QED
    BY <1>1, <1>2, <1>3, <2>1, <2>2, <2>3 DEF TokenInv, TokenTyped
<1>8. ASSUME NEW b \in Beneficiaries, NEW v \in Vestings, CreateVesting(b, v)
      PROVE  TokenInv'
  <2>1. v \in [total: Nat \ {0}, cliff: Nat, duration: Nat \ {0}]
    BY TokenAssumption
  <2>2. \A h \in DOMAIN schedules' : schedules'[h] \in Schedule
    BY <1>2, <1>8, <2>1 DEF CreateVesting, Schedule
  <2>3. SpareBurn(group') = SpareBurn(group)
    BY <1>8, SpareKept DEF CreateVesting
  <2>4. QED
    BY <1>1, <1>2, <1>3, <1>8, <2>2, <2>3 DEF CreateVesting, TokenInv, TokenTyped
<1>9. ASSUME NEW b \in DOMAIN schedules, ReleaseVested(b)
      PROVE  TokenInv'
  <2> DEFINE vested == Vested(schedules[b])
             part == vested - schedules[b].released
  <2>1. vested \in Int /\ part \in Int
    BY <1>2, VestedIsInt DEF Schedule
  <2>2. /\ created /\ UNCHANGED <<now, created, burned, overburned, group>>
        /\ reserve' = reserve - part
        /\ minted' = minted + vested - schedules[b].released
        /\ schedules' = [schedules EXCEPT ![b].released = vested]
    BY <1>9 DEF ReleaseVested, SendFromReserve
  <2>3. schedules[b].released \in Int
    BY <1>2 DEF Schedule
  <2>4. \A h \in DOMAIN schedules' : schedules'[h] \in Schedule
    <3> HIDE DEF vested
    <3>1. QED
      BY <1>2, <2>1, <2>2 DEF Schedule
  <2>5. minted' = minted + part
    <3> HIDE DEF vested
    <3>1. QED
      BY <1>2, <2>1, <2>2, <2>3
  <2>6. SpareBurn(group') = SpareBurn(group)
    BY <2>2, SpareKept
  <2>7. QED
    <3> HIDE DEF part, vested
    <3>1. QED
      BY <1>1, <1>2, <1>3, <2>1, <2>2, <2>4, <2>5, <2>6 DEF TokenInv, TokenTyped
<1>10. CASE PauseToken \/ Tick \/ (End /\ UNCHANGED tokenVars)
  <2>1. /\ UNCHANGED <<created, reserve, minted, burned, overburned, schedules>>
        /\ now' \in Nat
    BY <1>2, <1>10, TokenAssumption DEF PauseToken, Tick, tokenVars
  <2>2. SpareBurn(group') \in Nat /\ SpareBurn(group') <= SpareBurn(group)
    BY <1>1, <1>10, SpareKept, SpareEnds DEF PauseToken, Tick
  <2>3. QED
    BY <2>1, <2>2, TokenKept
<1>11. QED
  BY <1>4, <1>5, <1>6, <1>7, <1>8, <1>9, <1>10 DEF TokenNext

-----------------------------------------------------------------------------
(* Arithmetic of the contract: products, shares and the larger of two. *)

LEMMA ScaledIsNat ==
    ASSUME NEW a \in Nat, NEW b \in Nat, NEW c \in Nat \ {0}
    PROVE  (a * b) \div c \in Nat
<1> DEFINE product == a * b
<1>1. product \in Nat
  OBVIOUS
<1> HIDE DEF product
<1>2. product \div c \in Nat
  BY <1>1
<1>3. QED
  BY <1>2 DEF product

LEMMA WeightedIsNat ==
    ASSUME NEW amount \in Nat, NEW multiplier \in Nat
    PROVE  Weighted(amount, multiplier) \in Nat
BY ScaledIsNat DEF Weighted

LEMMA LargerOfTwo ==
    ASSUME NEW x \in Nat, NEW y \in Nat
    PROVE  Max({x, y}) \in Nat /\ Max({x, y}) >= x /\ Max({x, y}) >= y
<1>1. \E m \in {x, y} : \A n \in {x, y} : m >= n
  OBVIOUS
<1>2. Max({x, y}) \in {x, y} /\ \A n \in {x, y} : Max({x, y}) >= n
  BY <1>1 DEF Max
<1>3. QED
  BY <1>2

(* What the staking contract's state looks like. *)
StakingTyped ==
    /\ \A u \in DOMAIN stakes : stakes[u] \in Stake
    /\ totalWeighted \in Nat
    /\ accRewardPerShare \in Nat /\ rewardRate \in Nat
    /\ lastRewardTime \in Nat /\ lastRewardTime <= now
    /\ rewardsBalance \in Nat

LEMMA AccrualStep ==
    ASSUME StakingTyped, now \in Nat, UpdateRewards, now' = now
    PROVE  /\ accRewardPerShare' \in Nat /\ rewardRate' \in Nat
           /\ lastRewardTime' \in Nat /\ lastRewardTime' <= now'
<1>1. Precision \in Nat
  BY StakingAssumption
<1>2. (now - lastRewardTime) * rewardRate \in Nat
  <2> DEFINE elapsed == now - lastRewardTime
  <2>1. elapsed \in Nat /\ rewardRate \in Nat
    BY DEF StakingTyped
  <2> HIDE DEF elapsed
  <2>2. elapsed * rewardRate \in Nat
    BY <2>1
  <2>3. QED
    BY <2>2 DEF elapsed
<1>3. Accrued \in Nat
  <2> DEFINE units == (now - lastRewardTime) * rewardRate
  <2>1. units \in Nat /\ totalWeighted \in Nat
    BY <1>2 DEF StakingTyped
  <2> HIDE DEF units
  <2>2. totalWeighted # 0 => (units * Precision) \div totalWeighted \in Nat
    BY <1>1, <2>1, ScaledIsNat
  <2>3. QED
    BY <2>2 DEF Accrued, units
<1>4. QED
  BY <1>3 DEF UpdateRewards, StakingTyped

LEMMA RewardIsNat ==
    ASSUME accRewardPerShare' \in Nat, NEW amount \in Nat
    PROVE  RewardOf(amount) \in Nat
BY ScaledIsNat, StakingAssumption DEF RewardOf

LEMMA EarnedIsNat ==
    ASSUME accRewardPerShare' \in Nat, NEW box \in Stake
    PROVE  Earned(box) \in Nat
<1> DEFINE reward == RewardOf(box.amount)
<1>1. reward \in Nat /\ box.debt \in Nat
  BY RewardIsNat DEF Stake
<1> HIDE DEF reward
<1>2. Floored(reward - box.debt) \in Nat
  BY <1>1 DEF Floored
<1>3. QED
  BY <1>2 DEF Earned, reward

-----------------------------------------------------------------------------
BoxesTyped == \A u \in DOMAIN stakes : stakes[u] \in Stake

(* What a step does to the stakes under a running lock (LockKept). *)
LocksHold ==
    \A u \in DOMAIN stakes : stakes[u].lockUntil > now =>
        /\ u \in DOMAIN stakes'
        /\ stakes'[u].amount >= stakes[u].amount
        /\ stakes'[u].lockUntil >= stakes[u].lockUntil

(* Writing one box that grows, or that no lock holds, keeps every lock. *)
LEMMA BoxWritten ==
    ASSUME BoxesTyped, NEW u, NEW box \in Stake, stakes' = WithStake(u, box),
           (u \in DOMAIN stakes /\ stakes[u].lockUntil > now) =>
               box.amount >= stakes[u].amount /\ box.lockUntil >= stakes[u].lockUntil
    PROVE  BoxesTyped' /\ LocksHold
<1>1. /\ DOMAIN stakes' = DOMAIN stakes \cup {u}
      /\ stakes'[u] = box
      /\ \A v \in DOMAIN stakes \ {u} : stakes'[v] = stakes[v]
  BY DEF WithStake
<1>2. \A v \in DOMAIN stakes : stakes[v].amount \in Nat /\ stakes[v].lockUntil \in Nat
  BY DEF BoxesTyped, Stake
<1>3. BoxesTyped'
  BY <1>1 DEF BoxesTyped
<1>4. LocksHold
  BY <1>1, <1>2 DEF LocksHold
<1>5. QED
  BY <1>3, <1>4

LEMMA BoxesKept ==
    ASSUME BoxesTyped, stakes' = stakes
    PROVE  BoxesTyped' /\ LocksHold
<1>1. \A v \in DOMAIN stakes : stakes[v].amount \in Nat /\ stakes[v].lockUntil \in Nat
  BY DEF BoxesTyped, Stake
<1>2. QED
  BY <1>1 DEF BoxesTyped, LocksHold

(* A second stake keeps the later of the two locks. *)
LEMMA StakeStep ==
    ASSUME StakingTyped, now \in Nat, NEW u \in Beneficiaries, NEW amount \in Stakes,
           NEW days \in LockDays, DoStake(u, amount, days)
    PROVE  StakingTyped' /\ LocksHold
<1> DEFINE known == u \in DOMAIN stakes
           old == stakes[u]
           sum == IF known THEN old.amount + amount ELSE amount
           end == IF known THEN JoinedLock(old.lockUntil, LockEnd(days)) ELSE LockEnd(days)
           mult == IF known THEN Max({old.multiplier, Multiplier(days)}) ELSE Multiplier(days)
           kept == IF known THEN old.pending ELSE 0
           box == [amount |-> sum, lockUntil |-> end, multiplier |-> mult,
                   debt |-> RewardOf(sum), pending |-> kept]
<1>1. amount \in Nat /\ days \in Nat
  BY StakingAssumption
<1>2. UpdateRewards
  BY DEF DoStake
<1>3. now' = now
  BY DEF DoStake, tokenVars
<1>4. /\ accRewardPerShare' \in Nat /\ rewardRate' \in Nat
      /\ lastRewardTime' \in Nat /\ lastRewardTime' <= now'
  BY <1>2, <1>3, AccrualStep
<1>5. known => old \in Stake
  BY DEF StakingTyped
<1>6. Multiplier(days) \in Nat /\ LockEnd(days) \in Nat
  BY <1>1 DEF Multiplier, LockEnd
<1>7. sum \in Nat /\ kept \in Nat
  BY <1>1, <1>5 DEF Stake
<1>8. end \in Nat /\ mult \in Nat /\ (known => end >= old.lockUntil)
  <2>1. CASE known
    <3>1. old.lockUntil \in Nat /\ old.multiplier \in Nat
      BY <1>5, <2>1 DEF Stake
    <3>2. QED
      BY <1>6, <2>1, <3>1, LargerOfTwo DEF JoinedLock
  <2>2. CASE ~known
    BY <1>6, <2>2
  <2>3. QED
    BY <2>1, <2>2
<1>9. RewardOf(sum) \in Nat
  BY <1>4, <1>7, RewardIsNat
<1>10. box \in Stake
  <2> HIDE DEF sum, end, mult, kept
  <2>1. QED
    BY <1>7, <1>8, <1>9 DEF Stake
<1>11. stakes' = WithStake(u, box)
  BY DEF DoStake
<1>12. known => box.amount >= old.amount /\ box.lockUntil >= old.lockUntil
  <2>1. known => sum >= old.amount
    BY <1>1, <1>5 DEF Stake
  <2>2. QED
    BY <1>8, <2>1
<1>13. BoxesTyped' /\ LocksHold
  <2> HIDE DEF box
  <2>1. QED
    BY <1>10, <1>11, <1>12, BoxWritten DEF StakingTyped, BoxesTyped
<1>14. totalWeighted' \in Nat
  <2>1. Weighted(amount, Multiplier(days)) \in Nat
    BY <1>1, <1>6, WeightedIsNat
  <2>2. totalWeighted' = totalWeighted + Weighted(amount, Multiplier(days))
    BY DEF DoStake
  <2>3. QED
    BY <2>1, <2>2 DEF StakingTyped
<1>15. rewardsBalance' = rewardsBalance
  BY DEF DoStake
<1>16. StakingTyped'
  BY <1>4, <1>13, <1>14, <1>15 DEF StakingTyped, BoxesTyped
<1>17. QED
  BY <1>13, <1>16

(* The weight a box was counted with is taken off only when it is there. *)
LEMMA LessIsNat ==
    ASSUME NEW total \in Nat, NEW x \in Nat
    PROVE  Less(total, x) \in Nat
BY DEF Less

(* An unstake is refused before the end of the lock. *)
LEMMA UnstakeStep ==
    ASSUME StakingTyped, now \in Nat, NEW u \in DOMAIN stakes, NEW amount \in Stakes,
           Unstake(u, amount)
    PROVE  StakingTyped' /\ LocksHold /\ TransferStrike(StakingApp, u, amount)
<1> DEFINE old == stakes[u]
           rest == old.amount - amount
           debt == RewardOf(rest)
           due == old.pending + Earned(old)
           box == [old EXCEPT !.amount = rest, !.debt = debt, !.pending = due]
<1>1. amount \in Nat /\ old \in Stake
  BY StakingAssumption DEF StakingTyped
<1>2. UpdateRewards /\ TransferStrike(StakingApp, u, amount) /\ now' = now
  BY DEF Unstake, TransferStrike
<1>3. /\ accRewardPerShare' \in Nat /\ rewardRate' \in Nat
      /\ lastRewardTime' \in Nat /\ lastRewardTime' <= now'
  BY <1>2, AccrualStep
<1>4. old.amount \in Nat /\ old.lockUntil \in Nat /\ old.pending \in Nat /\ old.multiplier \in Nat
  BY <1>1 DEF Stake
<1>5. rest \in Nat /\ now >= old.lockUntil
  BY <1>1, <1>4 DEF Unstake
<1>6. debt \in Nat /\ due \in Nat
  <2>1. Earned(old) \in Nat
    BY <1>1, <1>3, EarnedIsNat
  <2> HIDE DEF old
  <2>2. debt \in Nat
    BY <1>3, <1>5, RewardIsNat
  <2>3. QED
    BY <1>4, <2>1, <2>2
<1>7. box \in Stake
  <2> HIDE DEF old, rest, debt, due
  <2>1. QED
    BY <1>1, <1>5, <1>6 DEF Stake
<1>8. stakes' = IF rest > 0 THEN WithStake(u, box) ELSE Restrict(stakes, DOMAIN stakes \ {u})
  BY DEF Unstake
<1>9. BoxesTyped' /\ LocksHold
  <2> HIDE DEF box, rest
  <2>1. CASE rest > 0
    <3>1. stakes' = WithStake(u, box) /\ BoxesTyped
      BY <1>8, <2>1 DEF StakingTyped, BoxesTyped
    <3>2. ~(stakes[u].lockUntil > now)
      BY <1>4, <1>5
    <3>3. QED
      BY <1>7, <3>1, <3>2, BoxWritten
  <2>2. CASE ~(rest > 0)
    <3>1. /\ DOMAIN stakes' = DOMAIN stakes \ {u}
          /\ \A v \in DOMAIN stakes \ {u} : stakes'[v] = stakes[v]
      BY <1>8, <2>2 DEF Restrict
    <3>2. \A v \in DOMAIN stakes : stakes[v].amount \in Nat /\ stakes[v].lockUntil \in Nat
      BY DEF StakingTyped, Stake
    <3>3. BoxesTyped'
      BY <3>1 DEF StakingTyped, BoxesTyped
    <3>4. LocksHold
      BY <1>4, <1>5, <3>1, <3>2 DEF LocksHold
    <3>5. QED
      BY <3>3, <3>4
  <2>3. QED
    BY <2>1, <2>2
<1>10. totalWeighted' \in Nat /\ rewardsBalance' \in Nat
  <2>1. Weighted(amount, old.multiplier) \in Nat
    BY <1>1, <1>4, WeightedIsNat
  <2>2. totalWeighted' = Less(totalWeighted, Weighted(amount, old.multiplier))
        /\ rewardsBalance' = rewardsBalance
    BY DEF Unstake
  <2>3. QED
    BY <2>1, <2>2, LessIsNat DEF StakingTyped
<1>11. StakingTyped'
  BY <1>3, <1>9, <1>10 DEF StakingTyped, BoxesTyped
<1>12. QED
  BY <1>2, <1>9, <1>11

LEMMA ClaimStep ==
    ASSUME StakingTyped, now \in Nat, NEW u \in DOMAIN stakes, ClaimRewards(u)
    PROVE  StakingTyped' /\ LocksHold
<1> DEFINE old == stakes[u]
           due == Earned(old) + old.pending
           debt == RewardOf(old.amount)
           box == [old EXCEPT !.debt = debt, !.pending = 0]
<1>1. old \in Stake /\ BoxesTyped
  BY DEF StakingTyped, BoxesTyped
<1>2. UpdateRewards /\ now' = now
  BY DEF ClaimRewards, tokenVars
<1>3. /\ accRewardPerShare' \in Nat /\ rewardRate' \in Nat
      /\ lastRewardTime' \in Nat /\ lastRewardTime' <= now'
  BY <1>2, AccrualStep
<1>4. old.amount \in Nat /\ old.lockUntil \in Nat /\ old.pending \in Nat
  BY <1>1 DEF Stake
<1>5. due \in Nat /\ debt \in Nat
  <2>1. Earned(old) \in Nat /\ debt \in Nat
    BY <1>1, <1>3, <1>4, EarnedIsNat, RewardIsNat
  <2>2. QED
    BY <1>4, <2>1
<1>6. box \in Stake /\ box.amount = old.amount /\ box.lockUntil = old.lockUntil
  <2> HIDE DEF old, debt
  <2>1. QED
    BY <1>1, <1>5 DEF Stake
<1>7. \/ stakes' = WithStake(u, box) /\ due <= rewardsBalance /\ rewardsBalance' = rewardsBalance - due
      \/ stakes' = stakes /\ rewardsBalance' = rewardsBalance
  BY DEF ClaimRewards
<1>8. BoxesTyped' /\ LocksHold
  <2> HIDE DEF box
  <2>1. CASE stakes' = stakes
    BY <1>1, <2>1, BoxesKept
  <2>2. CASE stakes' = WithStake(u, box)
    BY <1>1, <1>4, <1>6, <2>2, BoxWritten
  <2>3. QED
    BY <1>7, <2>1, <2>2
<1>9. rewardsBalance' \in Nat
  <2> HIDE DEF due
  <2>1. QED
    BY <1>5, <1>7 DEF StakingTyped
<1>10. totalWeighted' = totalWeighted
  BY DEF ClaimRewards, totals
<1>11. QED
  BY <1>3, <1>8, <1>9, <1>10 DEF StakingTyped, BoxesTyped

(* What is compounded makes a stake larger and leaves its lock. *)
LEMMA CompoundStep ==
    ASSUME StakingTyped, now \in Nat, NEW u \in DOMAIN stakes, Compound(u)
    PROVE  StakingTyped' /\ LocksHold
<1> DEFINE old == stakes[u]
           due == Earned(old) + old.pending
           sum == old.amount + due
           was == Weighted(old.amount, old.multiplier)
           next == Weighted(sum, old.multiplier)
           debt == RewardOf(sum)
           box == [old EXCEPT !.amount = sum, !.debt = debt, !.pending = 0]
<1>1. old \in Stake /\ BoxesTyped
  BY DEF StakingTyped, BoxesTyped
<1>2. UpdateRewards /\ now' = now
  BY DEF Compound, tokenVars
<1>3. /\ accRewardPerShare' \in Nat /\ rewardRate' \in Nat
      /\ lastRewardTime' \in Nat /\ lastRewardTime' <= now'
  BY <1>2, AccrualStep
<1>4. /\ old.amount \in Nat /\ old.lockUntil \in Nat /\ old.pending \in Nat
      /\ old.multiplier \in Nat
  BY <1>1 DEF Stake
<1>5. due \in Nat
  <2>1. Earned(old) \in Nat
    BY <1>1, <1>3, EarnedIsNat
  <2>2. QED
    BY <1>4, <2>1
<1>6. sum \in Nat /\ sum >= old.amount
  <2> HIDE DEF due
  <2>1. QED
    BY <1>4, <1>5
<1>7. debt \in Nat /\ was \in Nat /\ next \in Nat
  <2> HIDE DEF old, sum
  <2>1. QED
    BY <1>3, <1>4, <1>6, RewardIsNat, WeightedIsNat
<1>8. box \in Stake /\ box.amount = sum /\ box.lockUntil = old.lockUntil
  <2> HIDE DEF old, debt, sum
  <2>1. QED
    BY <1>1, <1>6, <1>7 DEF Stake
<1>9. /\ stakes' = IF due = 0 THEN stakes ELSE WithStake(u, box)
      /\ due <= rewardsBalance /\ rewardsBalance' = rewardsBalance - due
      /\ totalWeighted' = IF totalWeighted >= was THEN totalWeighted - was + next
                          ELSE totalWeighted
  BY DEF Compound
<1>10. BoxesTyped' /\ LocksHold
  <2> HIDE DEF box, due
  <2>1. CASE stakes' = stakes
    BY <1>1, <2>1, BoxesKept
  <2>2. CASE stakes' = WithStake(u, box)
    BY <1>1, <1>4, <1>6, <1>8, <2>2, BoxWritten
  <2>3. QED
    BY <1>9, <2>1, <2>2
<1>11. rewardsBalance' \in Nat /\ totalWeighted' \in Nat
  <2> HIDE DEF due, was, next
  <2>1. QED
    BY <1>5, <1>7, <1>9 DEF StakingTyped
<1>12. QED
  BY <1>3, <1>10, <1>11 DEF StakingTyped, BoxesTyped

(* An extension ends later than the lock it replaces. *)
LEMMA ExtendStep ==
    ASSUME StakingTyped, now \in Nat, NEW u \in DOMAIN stakes, NEW days \in LockDays,
           ExtendLock(u, days)
    PROVE  StakingTyped' /\ LocksHold
<1> DEFINE old == stakes[u]
           was == Weighted(old.amount, old.multiplier)
           next == Weighted(old.amount, Multiplier(days))
           box == [old EXCEPT !.lockUntil = now + days, !.multiplier = Multiplier(days)]
<1>1. old \in Stake /\ BoxesTyped /\ days \in Nat
  BY StakingAssumption DEF StakingTyped, BoxesTyped
<1>2. old.amount \in Nat /\ old.lockUntil \in Nat /\ old.multiplier \in Nat
  BY <1>1 DEF Stake
<1>3. Multiplier(days) \in Nat
  BY <1>1 DEF Multiplier
<1>4. was \in Nat /\ next \in Nat
  <2> HIDE DEF old
  <2>1. QED
    BY <1>2, <1>3, WeightedIsNat
<1>5. box \in Stake /\ box.amount = old.amount /\ box.lockUntil = now + days
  <2> DEFINE end == now + days
             mult == Multiplier(days)
  <2>1. end \in Nat /\ mult \in Nat
    BY <1>1, <1>3
  <2>2. box = [old EXCEPT !.lockUntil = end, !.multiplier = mult]
    OBVIOUS
  <2> HIDE DEF old, box, mult
  <2>3. QED
    BY <1>1, <2>1, <2>2 DEF Stake
<1>6. /\ stakes' = WithStake(u, box) /\ now + days > old.lockUntil
      /\ totalWeighted' = IF totalWeighted >= was THEN totalWeighted - was + next
                          ELSE totalWeighted
      /\ UNCHANGED <<accrual, rewardsBalance, now>>
  BY DEF ExtendLock, tokenVars
<1>7. BoxesTyped' /\ LocksHold
  <2> HIDE DEF box
  <2>1. QED
    BY <1>1, <1>2, <1>5, <1>6, BoxWritten
<1>8. totalWeighted' \in Nat
  <2> HIDE DEF was, next
  <2>1. QED
    BY <1>4, <1>6 DEF StakingTyped
<1>9. QED
  BY <1>6, <1>7, <1>8 DEF StakingTyped, BoxesTyped, accrual

(* The calls that touch no stake. *)
LEMMA OtherCallsStep ==
    ASSUME StakingTyped, now \in Nat, stakes' = stakes,
           \/ TokenNext /\ UNCHANGED stakingVars
           \/ \E amount \in Rewards : PayStaking(amount)
           \/ \E amount \in Rewards : DepositRewards(amount)
           \/ \E amount \in Rewards : ReceiveFee(amount)
           \/ PauseStaking
           \/ \E strike \in Stakes : EmergencyWithdraw(strike, 0)
           \/ \E algo \in Rewards : EmergencyWithdraw(0, algo)
    PROVE  StakingTyped' /\ LocksHold
<1>1. BoxesTyped' /\ LocksHold
  BY BoxesKept DEF StakingTyped, BoxesTyped
<1>2. now' \in Nat /\ now' >= now
  <2>1. CASE now' = now
    BY <2>1
  <2>2. CASE Tick
    BY <2>2, TokenAssumption DEF Tick
  <2>3. CASE TokenNext
    BY <2>1, <2>2, <2>3 DEF TokenNext, CreateToken, Mint, SendStrike, Burn, CreateVesting,
       ReleaseVested, PauseToken, tokenVars
  <2>4. CASE ~TokenNext
    BY <2>1, <2>4 DEF TransferStrike, PayStaking, DepositRewards, ReceiveFee, PauseStaking,
       EmergencyWithdraw, tokenVars
  <2>5. QED
    BY <2>3, <2>4
<1>3. /\ UNCHANGED <<totalWeighted, accRewardPerShare, lastRewardTime>>
      /\ rewardsBalance' \in Nat /\ rewardRate' \in Nat
  <2>1. CASE UNCHANGED <<totals, accrual, rewardsBalance>>
    BY <2>1 DEF StakingTyped, totals, accrual
  <2>2. ASSUME NEW amount \in Rewards, DepositRewards(amount)
        PROVE  /\ UNCHANGED <<totalWeighted, accRewardPerShare, lastRewardTime>>
               /\ rewardsBalance' \in Nat /\ rewardRate' \in Nat
    <3>1. rewardsBalance' = rewardsBalance + amount /\ amount \in Nat /\ Period \in Nat \ {0}
      BY <2>2, StakingAssumption DEF DepositRewards
    <3>2. rewardsBalance' \in Nat
      BY <3>1 DEF StakingTyped
    <3>3. rewardsBalance' \div Period \in Nat
      BY <3>1, <3>2
    <3>4. QED
      BY <2>2, <3>2, <3>3 DEF DepositRewards, StakingTyped, totals
  <2>3. QED
    BY <2>1, <2>2 DEF PayStaking, ReceiveFee, PauseStaking, EmergencyWithdraw, stakingVars
<1>4. QED
  BY <1>1, <1>2, <1>3 DEF StakingTyped, BoxesTyped

-----------------------------------------------------------------------------
IInv == TokenInv /\ StakingTyped /\ GroupTyped

(* A group begins, goes on or ends.                                         *)
LEMMA GroupStep ==
    ASSUME IInv, [Next]_vars
    PROVE  GroupTyped'
<1>1. GroupTyped
  BY DEF IInv
<1>2. UNCHANGED group => GroupTyped'
  BY <1>1 DEF GroupTyped
<1>3. \A x \in Nat : Book(x) => GroupTyped'
  BY <1>1, BookedGroup
<1>4. Transfers \subseteq Nat /\ Burnt \subseteq Nat /\ Stakes \subseteq Nat /\ Rewards \subseteq Nat
  BY TokenAssumption, StakingAssumption
<1>5. ASSUME NEW a \in Beneficiaries, NEW to \in Holders \cup {"token"}, NEW amount \in Transfers,
             SendStrike(a, to, amount)
      PROVE  GroupTyped'
  BY <1>4, <1>5, BegunGroup DEF SendStrike
<1>6. ASSUME NEW amount \in Burnt, Burn(amount)
      PROVE  GroupTyped'
  BY <1>3, <1>4, <1>6 DEF Burn
<1>7. CASE End
  BY <1>7 DEF End, NoGroup, GroupTyped
<1>8. CASE TokenNext
  BY <1>2, <1>5, <1>6, <1>7, <1>8
  DEF TokenNext, CreateToken, Mint, CreateVesting, ReleaseVested, PauseToken, Tick
<1>9. ASSUME NEW amount \in Rewards, PayStaking(amount)
      PROVE  GroupTyped'
  BY <1>4, <1>9, BegunGroup DEF PayStaking
<1>10. ASSUME NEW u \in Beneficiaries, NEW amount \in Stakes, NEW days \in LockDays,
             DoStake(u, amount, days)
      PROVE  GroupTyped'
  BY <1>3, <1>4, <1>10 DEF DoStake
<1>11. ASSUME NEW amount \in Rewards, DepositRewards(amount)
      PROVE  GroupTyped'
  BY <1>3, <1>4, <1>11 DEF DepositRewards
<1>12. ASSUME NEW u \in DOMAIN stakes, NEW amount \in Stakes, Unstake(u, amount)
      PROVE  GroupTyped'
  BY <1>2, <1>12 DEF Unstake, TransferStrike
<1>13. ASSUME NEW strike, NEW algo, EmergencyWithdraw(strike, algo)
      PROVE  GroupTyped'
  BY <1>2, <1>13 DEF EmergencyWithdraw, TransferStrike
<1>14. QED
  BY <1>2, <1>8, <1>9, <1>10, <1>11, <1>12, <1>13
  DEF Next, ClaimRewards, Compound, ExtendLock, ReceiveFee, PauseStaking, vars

LEMMA StepKeeps ==
    ASSUME IInv, [Next]_vars
    PROVE  IInv' /\ LocksHold
<1> SUFFICES TokenInv' /\ StakingTyped' /\ LocksHold
  BY GroupStep DEF IInv
<1>1. now \in Nat /\ TokenInv /\ StakingTyped /\ GroupTyped /\ SpareBurn(group) \in Nat
  BY SpareIsNat DEF IInv, TokenInv, TokenTyped
<1>2. ASSUME NEW a, NEW b, NEW amount, TransferStrike(a, b, amount)
      PROVE  TokenInv'
  <2>1. SpareBurn(group') = SpareBurn(group)
    BY <1>2, SpareKept DEF TransferStrike
  <2>2. QED
    BY <1>1, <1>2, <2>1, TokenKept DEF TransferStrike
<1>3. ASSUME UNCHANGED tokenVars, UNCHANGED group \/ SpareBurn(group') = 0
      PROVE  TokenInv'
  <2>1. SpareBurn(group') \in Nat /\ SpareBurn(group') <= SpareBurn(group)
    BY <1>1, <1>3, SpareKept
  <2>2. QED
    BY <1>1, <1>3, <2>1, TokenKept DEF tokenVars
<1>4. CASE UNCHANGED vars
  <2>1. TokenInv'
    BY <1>3, <1>4 DEF vars
  <2>2. StakingTyped'
    BY <1>1, <1>4 DEF vars, tokenVars, stakingVars, totals, accrual, StakingTyped
  <2>3. LocksHold
    BY <1>1, <1>4, BoxesKept DEF vars, stakingVars, StakingTyped, BoxesTyped
  <2>4. QED
    BY <2>1, <2>2, <2>3
<1>5. CASE TokenNext /\ UNCHANGED stakingVars
  <2>1. stakes' = stakes
    BY <1>5 DEF stakingVars
  <2>2. QED
    BY <1>1, <1>5, <2>1, TokenStep, OtherCallsStep
<1>6. ASSUME NEW u \in Beneficiaries, NEW amount \in Stakes, NEW days \in LockDays,
             DoStake(u, amount, days)
      PROVE  TokenInv' /\ StakingTyped' /\ LocksHold
  <2>1. Book(amount) /\ Carries("strike", StakingApp) /\ UNCHANGED tokenVars
    BY <1>6 DEF DoStake
  <2>2. amount \in Nat /\ StakingApp # "token"
    BY StakingAssumption, TokenAssumption
  <2>3. ~Carries("strike", "token")
    BY <2>1, <2>2 DEF Carries
  <2>4. SpareBurn(group') = 0
    BY <1>1, <2>1, <2>2, <2>3, SpareBooked
  <2>5. QED
    BY <1>1, <1>3, <1>6, <2>1, <2>4, StakeStep
<1>7. ASSUME NEW u \in DOMAIN stakes, NEW amount \in Stakes, Unstake(u, amount)
      PROVE  TokenInv' /\ StakingTyped' /\ LocksHold
  BY <1>1, <1>2, <1>7, UnstakeStep
<1>8. ASSUME NEW u \in DOMAIN stakes, ClaimRewards(u)
      PROVE  TokenInv' /\ StakingTyped' /\ LocksHold
  BY <1>1, <1>3, <1>8, ClaimStep DEF ClaimRewards
<1>9. ASSUME NEW u \in DOMAIN stakes, Compound(u)
      PROVE  TokenInv' /\ StakingTyped' /\ LocksHold
  BY <1>1, <1>3, <1>9, CompoundStep DEF Compound
<1>10. ASSUME NEW u \in DOMAIN stakes, NEW days \in LockDays, ExtendLock(u, days)
       PROVE  TokenInv' /\ StakingTyped' /\ LocksHold
  BY <1>1, <1>3, <1>10, ExtendStep DEF ExtendLock
<1>11. ASSUME NEW amount \in Rewards, PayStaking(amount) \/ DepositRewards(amount)
       PROVE  TokenInv' /\ StakingTyped' /\ LocksHold
  <2>1. stakes' = stakes /\ UNCHANGED tokenVars
    BY <1>11 DEF PayStaking, DepositRewards
  <2>2. SpareBurn(group') = 0
    <3>1. amount \in Nat
      BY StakingAssumption
    <3>2. CASE PayStaking(amount)
      BY <3>1, <3>2, SpareBegins DEF PayStaking
    <3>3. CASE DepositRewards(amount)
      <4>1. Book(amount) /\ ~Carries("strike", "token")
        BY <3>3 DEF DepositRewards, Carries
      <4>2. QED
        BY <1>1, <3>1, <4>1, SpareBooked
    <3>4. QED
      BY <1>11, <3>2, <3>3
  <2>3. StakingTyped' /\ LocksHold
    BY <1>1, <1>11, <2>1, OtherCallsStep
  <2>4. QED
    BY <1>3, <2>1, <2>2, <2>3
<1>12. CASE \/ \E amount \in Rewards : ReceiveFee(amount)
            \/ PauseStaking
  <2>1. stakes' = stakes /\ UNCHANGED <<tokenVars, group>>
    BY <1>12 DEF ReceiveFee, PauseStaking
  <2>2. StakingTyped' /\ LocksHold
    BY <1>1, <1>12, <2>1, OtherCallsStep
  <2>3. QED
    BY <1>3, <2>1, <2>2
<1>13. CASE \/ \E strike \in Stakes : EmergencyWithdraw(strike, 0)
            \/ \E algo \in Rewards : EmergencyWithdraw(0, algo)
  <2>1. stakes' = stakes
    BY <1>13 DEF EmergencyWithdraw
  <2>2. StakingTyped' /\ LocksHold
    BY <1>1, <1>13, <2>1, OtherCallsStep
  <2>3. TokenInv'
    BY <1>2, <1>3, <1>13 DEF EmergencyWithdraw
  <2>4. QED
    BY <2>2, <2>3
<1>14. QED
  BY <1>4, <1>5, <1>6, <1>7, <1>8, <1>9, <1>10, <1>11, <1>12, <1>13 DEF Next

LEMMA StakingAlways == Spec => []IInv
<1>1. Init => IInv
  <2> SUFFICES ASSUME Init PROVE IInv
    OBVIOUS
  <2>1. DOMAIN schedules = {} /\ DOMAIN stakes = {}
    BY DEF Init, TokenInit, StakingInit
  <2>2. TokenInv
    <3>1. created \in BOOLEAN /\ ~created
      BY Zenon DEF Init, TokenInit
    <3>2. now \in Nat /\ reserve \in Int /\ minted = 0 /\ burned = 0 /\ overburned = 0
      BY DEF Init, TokenInit
    <3>3. TokenTyped
      BY <2>1, <3>1, <3>2 DEF TokenTyped
    <3>4. SpareBurn(group) = 0
      BY DEF Init, TokenInit, NoGroup, SpareBurn
    <3>5. QED
      BY <3>1, <3>2, <3>3, <3>4 DEF TokenInv
  <2>3. StakingTyped
    BY <2>1 DEF Init, TokenInit, StakingInit, StakingTyped
  <2>4. GroupTyped
    BY DEF Init, TokenInit, NoGroup, GroupTyped
  <2>5. QED
    BY <2>2, <2>3, <2>4 DEF IInv
<1>2. IInv /\ [Next]_vars => IInv'
  BY StepKeeps
<1>3. QED
  BY <1>1, <1>2, PTL DEF Spec

(* get_token_info shows less than circulates by no more than the groups     *)
(* burned again of one transfer, for any supply, holders, schedules and     *)
(* groups of calls (strike_token.py:161, :186).                             *)
THEOREM CirculationIsAccounted == Spec => []CirculationAccounted
<1>1. IInv => CirculationAccounted
  BY AccountedIsEnough DEF IInv
<1>2. QED
  BY <1>1, StakingAlways, PTL

(* No call of the staking contract takes from a stake under a running lock  *)
(* or brings its end nearer, for any stakers, amounts and times.            *)
THEOREM LocksAreKept == Spec => LockKept
<1>1. IInv /\ [Next]_vars => [LocksHold]_vars
  BY StepKeeps
<1>2. [][LocksHold]_vars => LockKept
  BY PTL DEF LockKept, LocksHold
<1>3. QED
  BY <1>1, <1>2, StakingAlways, PTL DEF Spec

-----------------------------------------------------------------------------
(* The staked total is what the boxes hold, so no subtraction of it is ever *)
(* skipped, and every unit of it came in or is accounted for.  STRIKE sent  *)
(* to the contract that no call of its group has booked yet is not among it.*)

Amounts == [u \in DOMAIN stakes |-> stakes[u].amount]
Staked  == SumFunctionOnSet(Amounts, DOMAIN stakes)

BooksInv ==
    /\ IsFiniteSet(DOMAIN stakes)
    /\ wallet \in [Holders -> Int]
    /\ distributed \in Nat /\ rescued \in Nat /\ overstaked \in Nat
    /\ totalStaked = Staked
    /\ totalStaked + SpareStake(group) <= wallet[StakingApp] + distributed + rescued + overstaked

LEMMA StakedIsNat ==
    ASSUME BoxesTyped, IsFiniteSet(DOMAIN stakes)
    PROVE  /\ Staked \in Nat
           /\ \A u \in DOMAIN stakes : stakes[u].amount \in Nat /\ stakes[u].amount <= Staked
<1>1. \A u \in DOMAIN stakes : Amounts[u] = stakes[u].amount /\ Amounts[u] \in Nat
  BY DEF BoxesTyped, Stake, Amounts
<1>2. Staked \in Nat
  BY <1>1, SumIsNat DEF Staked
<1>3. ASSUME NEW u \in DOMAIN stakes
      PROVE  Amounts[u] <= Staked
  BY <1>1, <1>3, SumAtLeastTerm DEF Staked
<1>4. QED
  BY <1>1, <1>2, <1>3

LEMMA BooksFacts ==
    ASSUME IInv, BooksInv
    PROVE  /\ wallet \in [Holders -> Int] /\ wallet[StakingApp] \in Int
           /\ StakingApp \in Holders \ Beneficiaries
           /\ SpareStake(group) \in Nat
           /\ distributed \in Nat /\ rescued \in Nat /\ overstaked \in Nat
           /\ totalStaked = Staked /\ Staked \in Nat
           /\ BoxesTyped /\ IsFiniteSet(DOMAIN stakes)
           /\ totalStaked + SpareStake(group)
                <= wallet[StakingApp] + distributed + rescued + overstaked
<1>1. BoxesTyped
  BY DEF IInv, StakingTyped, BoxesTyped
<1>2. QED
  BY <1>1, StakedIsNat, SpareIsNat, StakingAssumption DEF IInv, BooksInv

LEMMA StakedAfterWrite ==
    ASSUME BoxesTyped, IsFiniteSet(DOMAIN stakes), NEW u, NEW box, box.amount \in Nat,
           stakes' = WithStake(u, box)
    PROVE  /\ Staked' = Staked - (IF u \in DOMAIN stakes THEN stakes[u].amount ELSE 0) + box.amount
           /\ IsFiniteSet(DOMAIN stakes')
<1> DEFINE new == [v \in DOMAIN stakes' |-> stakes'[v].amount]
<1>1. /\ DOMAIN stakes' = DOMAIN stakes \cup {u} /\ stakes'[u] = box
      /\ \A v \in DOMAIN stakes : v # u => stakes'[v] = stakes[v]
  BY DEF WithStake
<1>2. \A v \in DOMAIN stakes : Amounts[v] = stakes[v].amount /\ Amounts[v] \in Int
  BY DEF BoxesTyped, Stake, Amounts
<1>3. /\ new[u] = box.amount
      /\ \A v \in DOMAIN stakes : v # u => new[v] = Amounts[v]
  BY <1>1, <1>2
<1>4. Staked' = SumFunctionOnSet(new, DOMAIN stakes \cup {u})
  BY <1>1 DEF Staked, Amounts
<1> HIDE DEF new
<1>5. SumFunctionOnSet(new, DOMAIN stakes \cup {u})
        = SumFunctionOnSet(Amounts, DOMAIN stakes)
          - (IF u \in DOMAIN stakes THEN Amounts[u] ELSE 0) + new[u]
  <2>1. new[u] \in Int
    BY <1>3
  <2>2. QED
    BY <1>2, <1>3, <2>1, SumWritten
<1>6. IsFiniteSet(DOMAIN stakes')
  BY <1>1, FS_AddElement
<1>7. QED
  BY <1>2, <1>3, <1>4, <1>5, <1>6 DEF Staked

LEMMA StakedAfterDelete ==
    ASSUME BoxesTyped, IsFiniteSet(DOMAIN stakes), NEW u \in DOMAIN stakes,
           stakes' = Restrict(stakes, DOMAIN stakes \ {u})
    PROVE  Staked' = Staked - stakes[u].amount /\ IsFiniteSet(DOMAIN stakes')
<1> DEFINE new == [v \in DOMAIN stakes' |-> stakes'[v].amount]
           rest == DOMAIN stakes \ {u}
<1>1. DOMAIN stakes' = rest /\ \A v \in rest : stakes'[v] = stakes[v]
  BY DEF Restrict
<1>2. \A v \in DOMAIN stakes : Amounts[v] = stakes[v].amount /\ Amounts[v] \in Int
  BY DEF BoxesTyped, Stake, Amounts
<1>3. \A v \in rest : new[v] = Amounts[v]
  BY <1>1, <1>2
<1>4. Staked' = SumFunctionOnSet(new, rest)
  BY <1>1 DEF Staked, Amounts
<1> HIDE DEF new
<1>5. SumFunctionOnSet(new, rest) = SumFunctionOnSet(Amounts, DOMAIN stakes) - Amounts[u]
  BY <1>2, <1>3, SumLeft
<1>6. IsFiniteSet(rest)
  BY FS_RemoveElement
<1>7. QED
  BY <1>1, <1>2, <1>4, <1>5, <1>6 DEF Staked

(* STRIKE moved between two accounts, and STRIKE that comes to an account. *)
LEMMA Moved ==
    ASSUME wallet \in [Holders -> Int], NEW a \in Holders, NEW b \in Holders, NEW amount \in Int,
           TransferStrike(a, b, amount)
    PROVE  /\ wallet' \in [Holders -> Int]
           /\ wallet'[a] = wallet[a] - amount /\ wallet'[b] = wallet[b] + amount
           /\ \A h \in Holders \ {a, b} : wallet'[h] = wallet[h]
BY DEF TransferStrike

(* An update at a key outside the domain changes nothing. *)
LEMMA KeyOutside ==
    ASSUME NEW D, NEW f \in [D -> Int], NEW x, x \notin D, NEW y
    PROVE  [f EXCEPT ![x] = y] = f
BY Zenon

(* The calls of the token move STRIKE of the contract only inwards, and no  *)
(* more of it is left to book than has come in.                             *)
LEMMA TokenBooks ==
    ASSUME GroupTyped, TokenInv, wallet \in [Holders -> Int], TokenNext
    PROVE  /\ wallet' \in [Holders -> Int] /\ SpareStake(group') \in Nat
           /\ wallet'[StakingApp] - SpareStake(group') >= wallet[StakingApp] - SpareStake(group)
<1> DEFINE Inwards ==
        /\ wallet' \in [Holders -> Int] /\ SpareStake(group') \in Nat
        /\ wallet'[StakingApp] - SpareStake(group') >= wallet[StakingApp] - SpareStake(group)
<1>1. /\ StakingApp \in Holders /\ StakingApp \notin Beneficiaries /\ Beneficiaries \subseteq Holders
      /\ wallet[StakingApp] \in Int /\ SpareStake(group) \in Nat /\ StakingApp # "token"
  BY TokenAssumption, StakingAssumption, SpareIsNat
<1>2. ASSUME NEW to, NEW amount \in Nat, SendFromReserve(to, amount), UNCHANGED group
      PROVE  Inwards
  <2>1. wallet' = [wallet EXCEPT ![to] = wallet[to] + amount]
    BY <1>2 DEF SendFromReserve
  <2>2. SpareStake(group') = SpareStake(group)
    BY <1>2, SpareKept
  <2>3. CASE to \in Holders
    BY <1>1, <2>1, <2>2, <2>3
  <2>4. CASE to \notin Holders
    <3>1. wallet' = wallet
      BY <2>1, <2>4, KeyOutside
    <3>2. QED
      BY <1>1, <2>2, <3>1
  <2>5. QED
    BY <2>3, <2>4
<1>3. ASSUME NEW to \in Beneficiaries, NEW amount \in Mints, Mint(to, amount)
      PROVE  Inwards
  <2>1. amount \in Nat
    BY TokenAssumption
  <2>2. QED
    BY <1>2, <1>3, <2>1 DEF Mint
<1>4. ASSUME NEW b \in DOMAIN schedules, ReleaseVested(b)
      PROVE  Inwards
  <2> DEFINE amount == Vested(schedules[b]) - schedules[b].released
  <2>1. schedules[b] \in Schedule /\ now \in Nat
    BY DEF TokenInv, TokenTyped
  <2>2. Vested(schedules[b]) \in Int /\ schedules[b].released \in Int
    BY <2>1, VestedIsInt DEF Schedule
  <2>3. amount \in Nat
    BY <1>4, <2>2 DEF ReleaseVested
  <2>4. SendFromReserve(b, amount) /\ UNCHANGED group
    BY <1>4 DEF ReleaseVested
  <2> HIDE DEF amount
  <2>5. QED
    BY <1>2, <2>3, <2>4
<1>5. ASSUME NEW a \in Beneficiaries, NEW to \in Holders \cup {"token"}, NEW amount \in Transfers,
             SendStrike(a, to, amount)
      PROVE  Inwards
  <2>1. amount \in Nat /\ a \in Holders /\ a # StakingApp /\ wallet[a] \in Int
    BY <1>1, TokenAssumption
  <2>2. /\ SpareStake(group) = 0
        /\ SpareStake(group') = IF to = StakingApp THEN amount ELSE 0
    BY <1>5, <2>1, SpareBegins DEF SendStrike
  <2>3. CASE to = "token"
    <3>1. wallet' = [wallet EXCEPT ![a] = wallet[a] - amount]
      BY <1>5, <2>3 DEF SendStrike
    <3>2. QED
      BY <1>1, <2>1, <2>2, <2>3, <3>1
  <2>4. CASE to # "token"
    <3>1. /\ wallet' = [wallet EXCEPT ![a] = wallet[a] - amount, ![to] = wallet[to] + amount]
          /\ to \in Holders /\ a # to /\ wallet[to] \in Int
      BY <1>5, <2>1, <2>4 DEF SendStrike
    <3>2. wallet' \in [Holders -> Int]
      BY <2>1, <3>1
    <3>3. wallet'[StakingApp] = IF to = StakingApp THEN wallet[StakingApp] + amount
                                ELSE wallet[StakingApp]
      BY <1>1, <2>1, <3>1
    <3>4. QED
      BY <1>1, <2>1, <2>2, <3>2, <3>3
  <2>5. QED
    BY <2>3, <2>4
<1>6. ASSUME NEW amount \in Burnt, Burn(amount)
      PROVE  Inwards
  <2>1. Carries("strike", "token") /\ Book(amount) /\ wallet' = wallet /\ amount \in Nat
    BY <1>6, TokenAssumption DEF Burn
  <2>2. ~Carries("strike", StakingApp)
    BY <1>1, <2>1 DEF Carries
  <2>3. SpareStake(group) = 0 /\ SpareStake(group') = 0
    BY <2>1, <2>2, SpareBooked
  <2>4. QED
    BY <1>1, <2>1, <2>3
<1>7. ASSUME wallet' = wallet, group' = group \/ End
      PROVE  Inwards
  <2>1. SpareStake(group') \in Nat /\ SpareStake(group') <= SpareStake(group)
    BY <1>1, <1>7, SpareKept, SpareEnds
  <2>2. QED
    BY <1>1, <1>7, <2>1
<1>8. ASSUME CreateToken \/ PauseToken \/ Tick \/ (End /\ UNCHANGED tokenVars)
      PROVE  Inwards
  BY <1>7, <1>8 DEF CreateToken, PauseToken, Tick, tokenVars
<1>9. ASSUME NEW b \in Beneficiaries, NEW v \in Vestings, CreateVesting(b, v)
      PROVE  Inwards
  BY <1>7, <1>9 DEF CreateVesting
<1>10. QED
  <2> HIDE DEF Inwards
  <2>1. Inwards
    BY <1>3, <1>4, <1>5, <1>6, <1>8, <1>9 DEF TokenNext
  <2>2. QED
    BY <2>1 DEF Inwards

LEMMA BooksAfterStake ==
    ASSUME IInv, BooksInv, NEW u \in Beneficiaries, NEW amount \in Stakes, NEW days \in LockDays,
           DoStake(u, amount, days)
    PROVE  BooksInv'
<1> DEFINE old == IF u \in DOMAIN stakes THEN stakes[u].amount ELSE 0
           sum == IF u \in DOMAIN stakes THEN stakes[u].amount + amount ELSE amount
<1>1. /\ amount \in Nat /\ StakingApp \in Holders
  BY StakingAssumption
<1>2. /\ BoxesTyped /\ IsFiniteSet(DOMAIN stakes) /\ wallet \in [Holders -> Int]
      /\ wallet[StakingApp] \in Int /\ SpareStake(group) \in Nat
      /\ distributed \in Nat /\ rescued \in Nat /\ overstaked \in Nat
      /\ totalStaked = Staked /\ Staked \in Nat
      /\ totalStaked + SpareStake(group)
           <= wallet[StakingApp] + distributed + rescued + overstaked
  BY BooksFacts
<1>3. Staked \in Nat /\ old \in Nat /\ sum = old + amount
  BY <1>1, <1>2, StakedIsNat
<1>4. PICK box : stakes' = WithStake(u, box) /\ box.amount = sum
  BY DEF DoStake
<1> HIDE DEF sum
<1>5. Staked' = Staked - old + sum /\ IsFiniteSet(DOMAIN stakes')
  <2>1. box.amount \in Nat
    BY <1>1, <1>3, <1>4
  <2>2. QED
    BY <1>2, <1>4, <2>1, StakedAfterWrite
<1> HIDE DEF old
<1>6. /\ totalStaked' = totalStaked + amount /\ overstaked' = overstaked + BookedAgain(amount)
      /\ Carries("strike", StakingApp) /\ Book(amount)
      /\ UNCHANGED <<distributed, rescued, wallet>>
  BY DEF DoStake, tokenVars
<1>7. /\ SpareStake(group') \in Nat /\ BookedAgain(amount) \in Nat
      /\ BookedAgain(amount) - SpareStake(group') = amount - SpareStake(group)
  BY <1>1, <1>6, SpareBooked DEF IInv
<1>8. totalStaked' = Staked'
  BY <1>1, <1>2, <1>3, <1>5, <1>6
<1>9. totalStaked' + SpareStake(group')
        <= wallet'[StakingApp] + distributed' + rescued' + overstaked'
  BY <1>1, <1>2, <1>6, <1>7
<1>10. overstaked' \in Nat
  BY <1>2, <1>6, <1>7
<1>11. QED
  BY <1>2, <1>5, <1>6, <1>8, <1>9, <1>10 DEF BooksInv

LEMMA BooksAfterUnstake ==
    ASSUME IInv, BooksInv, NEW u \in DOMAIN stakes, NEW amount \in Stakes, Unstake(u, amount)
    PROVE  BooksInv'
<1> DEFINE old == stakes[u].amount
           rest == old - amount
<1>1. amount \in Nat /\ StakingApp \in Holders
  BY StakingAssumption
<1>2. BoxesTyped /\ IsFiniteSet(DOMAIN stakes) /\ wallet \in [Holders -> Int]
  BY DEF IInv, StakingTyped, BoxesTyped, BooksInv
<1>3. Staked \in Nat /\ old \in Nat /\ old <= Staked /\ amount <= old
  BY <1>2, StakedIsNat DEF Unstake
<1>4. Staked' = Staked - amount /\ IsFiniteSet(DOMAIN stakes')
  <2>1. CASE rest > 0
    <3>1. PICK box : stakes' = WithStake(u, box) /\ box.amount = rest
      <4> DEFINE box == [stakes[u] EXCEPT !.amount = rest, !.debt = RewardOf(rest),
                                          !.pending = stakes[u].pending + Earned(stakes[u])]
      <4>1. stakes' = WithStake(u, box)
        BY <2>1 DEF Unstake
      <4>2. box.amount = rest
        BY <1>2 DEF BoxesTyped, Stake
      <4> HIDE DEF box
      <4>3. QED
        BY <4>1, <4>2
    <3>2. box.amount \in Nat
      BY <1>1, <1>3, <3>1
    <3>3. Staked' = Staked - old + box.amount /\ IsFiniteSet(DOMAIN stakes')
      BY <1>2, <3>1, <3>2, StakedAfterWrite
    <3>4. QED
      BY <1>1, <1>3, <3>1, <3>3
  <2>2. CASE ~(rest > 0)
    <3>1. stakes' = Restrict(stakes, DOMAIN stakes \ {u})
      BY <2>2 DEF Unstake
    <3>2. Staked' = Staked - old /\ IsFiniteSet(DOMAIN stakes')
      BY <1>2, <3>1, StakedAfterDelete
    <3>3. QED
      BY <1>1, <1>3, <2>2, <3>2
  <2>3. QED
    BY <2>1, <2>2
<1> HIDE DEF old, rest
<1>5. /\ totalStaked' = Less(totalStaked, amount) /\ TransferStrike(StakingApp, u, amount)
      /\ UNCHANGED <<distributed, rescued, overstaked, group>>
  BY DEF Unstake, TransferStrike
<1>6. totalStaked' = totalStaked - amount
  BY <1>1, <1>3, <1>5 DEF BooksInv, Less
<1>7. wallet' \in [Holders -> Int] /\ wallet'[StakingApp] = wallet[StakingApp] - amount
  <2>1. CASE u \in Holders
    BY <1>1, <1>2, <1>5, <2>1, Moved
  <2>2. CASE u \notin Holders
    <3>1. wallet' = [[wallet EXCEPT ![StakingApp] = wallet[StakingApp] - amount]
                        EXCEPT ![u] = [wallet EXCEPT ![StakingApp] = wallet[StakingApp] - amount][u] + amount]
      BY <1>5, <2>2 DEF TransferStrike
    <3>2. [wallet EXCEPT ![StakingApp] = wallet[StakingApp] - amount] \in [Holders -> Int]
      BY <1>1, <1>2
    <3>3. wallet' = [wallet EXCEPT ![StakingApp] = wallet[StakingApp] - amount]
      BY <2>2, <3>1, <3>2, KeyOutside
    <3>4. QED
      BY <1>1, <1>2, <3>3
  <2>3. QED
    BY <2>1, <2>2
<1>8. /\ wallet[StakingApp] \in Int /\ SpareStake(group) \in Nat
      /\ distributed \in Nat /\ rescued \in Nat /\ overstaked \in Nat /\ totalStaked = Staked
      /\ totalStaked + SpareStake(group)
           <= wallet[StakingApp] + distributed + rescued + overstaked
  BY BooksFacts
<1>9. SpareStake(group') = SpareStake(group)
  BY <1>5, SpareKept
<1>10. totalStaked' = Staked'
  BY <1>1, <1>3, <1>4, <1>6, <1>8
<1>11. totalStaked' + SpareStake(group')
         <= wallet'[StakingApp] + distributed' + rescued' + overstaked'
  BY <1>1, <1>3, <1>5, <1>6, <1>7, <1>8, <1>9
<1>12. QED
  BY <1>4, <1>5, <1>7, <1>8, <1>10, <1>11 DEF BooksInv

(* A call that writes one box and leaves wallets and rescued alone adds to  *)
(* the total what it adds to the box, and distributes no less.              *)
LEMMA BooksAfterBox ==
    ASSUME IInv, BooksInv, NEW u \in DOMAIN stakes, NEW box, NEW due \in Nat,
           stakes' = WithStake(u, box), box.amount = stakes[u].amount + due,
           totalStaked' = totalStaked + due, UNCHANGED <<wallet, rescued, overstaked, group>>,
           distributed' \in Nat, distributed' >= distributed + due
    PROVE  BooksInv'
<1>1. /\ BoxesTyped /\ IsFiniteSet(DOMAIN stakes) /\ wallet \in [Holders -> Int]
      /\ wallet[StakingApp] \in Int /\ SpareStake(group) \in Nat
      /\ distributed \in Nat /\ rescued \in Nat /\ overstaked \in Nat
      /\ totalStaked = Staked /\ Staked \in Nat
      /\ totalStaked + SpareStake(group)
           <= wallet[StakingApp] + distributed + rescued + overstaked
  BY BooksFacts
<1>2. Staked \in Nat /\ stakes[u].amount \in Nat
  BY <1>1, StakedIsNat
<1>3. box.amount \in Nat
  BY <1>2
<1>4. Staked' = Staked - stakes[u].amount + box.amount /\ IsFiniteSet(DOMAIN stakes')
  BY <1>1, <1>3, StakedAfterWrite
<1>5. Staked' = Staked + due
  BY <1>2, <1>4
<1>6. SpareStake(group') = SpareStake(group)
  BY SpareKept
<1>7. totalStaked' = Staked'
  BY <1>1, <1>5
<1>8. totalStaked' + SpareStake(group')
        <= wallet'[StakingApp] + distributed' + rescued' + overstaked'
  BY <1>1, <1>6
<1>9. QED
  BY <1>1, <1>4, <1>7, <1>8 DEF BooksInv

LEMMA BooksKept ==
    ASSUME IInv, BooksInv, UNCHANGED <<stakes, totalStaked, overstaked>>,
           wallet' \in [Holders -> Int], SpareStake(group') \in Nat,
           distributed' \in Nat, distributed' >= distributed, rescued' \in Nat,
           wallet'[StakingApp] + rescued' - SpareStake(group')
             >= wallet[StakingApp] + rescued - SpareStake(group)
    PROVE  BooksInv'
<1>1. /\ wallet[StakingApp] \in Int /\ wallet'[StakingApp] \in Int
      /\ distributed \in Nat /\ rescued \in Nat /\ overstaked \in Nat
      /\ SpareStake(group) \in Nat
      /\ totalStaked = Staked /\ Staked \in Nat /\ IsFiniteSet(DOMAIN stakes)
      /\ totalStaked + SpareStake(group)
           <= wallet[StakingApp] + distributed + rescued + overstaked
  BY BooksFacts
<1>2. Staked' = Staked
  BY DEF Staked, Amounts
<1>3. totalStaked' + SpareStake(group')
        <= wallet'[StakingApp] + distributed' + rescued' + overstaked'
  BY <1>1
<1>4. QED
  BY <1>1, <1>2, <1>3 DEF BooksInv

LEMMA DueIsNat ==
    ASSUME IInv, UpdateRewards, now' = now, NEW u \in DOMAIN stakes
    PROVE  Earned(stakes[u]) + stakes[u].pending \in Nat /\ stakes[u] \in Stake
<1>1. stakes[u] \in Stake /\ now \in Nat /\ StakingTyped
  BY DEF IInv, TokenInv, TokenTyped, StakingTyped
<1>2. Earned(stakes[u]) \in Nat
  BY <1>1, AccrualStep, EarnedIsNat
<1>3. QED
  BY <1>1, <1>2 DEF Stake

LEMMA BooksAfterClaim ==
    ASSUME IInv, BooksInv, NEW u \in DOMAIN stakes, ClaimRewards(u)
    PROVE  BooksInv'
<1> DEFINE due == Earned(stakes[u]) + stakes[u].pending
           box == [stakes[u] EXCEPT !.debt = RewardOf(stakes[u].amount), !.pending = 0]
<1>1. UpdateRewards /\ now' = now /\ UNCHANGED <<totalStaked, wallet, rescued, overstaked, group>>
  BY DEF ClaimRewards, tokenVars, totals
<1>2. due \in Nat /\ stakes[u] \in Stake
  BY <1>1, DueIsNat
<1>3. \/ /\ stakes' = WithStake(u, box)
         /\ distributed' = distributed + due
      \/ UNCHANGED <<stakes, distributed>>
  BY DEF ClaimRewards
<1>4. box.amount = stakes[u].amount + 0 /\ stakes[u].amount \in Nat
  BY <1>2 DEF Stake
<1>5. /\ wallet \in [Holders -> Int] /\ distributed \in Nat /\ rescued \in Nat /\ totalStaked \in Nat
      /\ wallet[StakingApp] \in Int /\ SpareStake(group) \in Nat
  BY BooksFacts
<1>6. SpareStake(group') = SpareStake(group)
  BY <1>1, SpareKept
<1> HIDE DEF due, box
<1>7. CASE stakes' = WithStake(u, box) /\ distributed' = distributed + due
  <2>1. /\ 0 \in Nat /\ totalStaked' = totalStaked + 0
        /\ distributed' \in Nat /\ distributed' >= distributed + 0
    BY <1>1, <1>2, <1>5, <1>7
  <2>2. QED
    BY <1>1, <1>4, <1>7, <2>1, BooksAfterBox
<1>8. CASE UNCHANGED <<stakes, distributed>>
  BY <1>1, <1>5, <1>6, <1>8, BooksKept
<1>9. QED
  BY <1>3, <1>7, <1>8

LEMMA BooksAfterCompound ==
    ASSUME IInv, BooksInv, NEW u \in DOMAIN stakes, Compound(u)
    PROVE  BooksInv'
<1> DEFINE due == Earned(stakes[u]) + stakes[u].pending
           sum == stakes[u].amount + due
           box == [stakes[u] EXCEPT !.amount = sum, !.debt = RewardOf(sum), !.pending = 0]
<1>1. UpdateRewards /\ now' = now /\ UNCHANGED <<wallet, rescued, overstaked, group>>
  BY DEF Compound, tokenVars
<1>2. due \in Nat /\ stakes[u] \in Stake
  BY <1>1, DueIsNat
<1>3. /\ stakes' = IF due = 0 THEN stakes ELSE WithStake(u, box)
      /\ distributed' = distributed + due /\ totalStaked' = totalStaked + due
  BY DEF Compound, CompoundedInto
<1>4. box.amount = stakes[u].amount + due
  BY <1>2 DEF Stake
<1>5. /\ wallet \in [Holders -> Int] /\ distributed \in Nat /\ rescued \in Nat /\ totalStaked \in Nat
      /\ wallet[StakingApp] \in Int /\ SpareStake(group) \in Nat
  BY BooksFacts
<1>6. SpareStake(group') = SpareStake(group)
  BY <1>1, SpareKept
<1> HIDE DEF due, box
<1>7. CASE due = 0
  BY <1>1, <1>3, <1>5, <1>6, <1>7, BooksKept
<1>8. CASE due # 0
  BY <1>1, <1>2, <1>3, <1>4, <1>5, <1>8, BooksAfterBox
<1>9. QED
  BY <1>7, <1>8

LEMMA BooksAfterExtend ==
    ASSUME IInv, BooksInv, NEW u \in DOMAIN stakes, NEW days \in LockDays, ExtendLock(u, days)
    PROVE  BooksInv'
<1> DEFINE box == [stakes[u] EXCEPT !.lockUntil = now + days, !.multiplier = Multiplier(days)]
<1>1. stakes[u] \in Stake
  BY DEF IInv, StakingTyped
<1>2. box.amount = stakes[u].amount + 0
  BY <1>1 DEF Stake
<1>3. /\ stakes' = WithStake(u, box)
      /\ UNCHANGED <<totalStaked, wallet, rescued, distributed, overstaked, group>>
  BY DEF ExtendLock, tokenVars
<1>4. /\ wallet \in [Holders -> Int] /\ distributed \in Nat /\ totalStaked \in Nat
  BY StakedIsNat DEF BooksInv, IInv, StakingTyped, BoxesTyped
<1> HIDE DEF box
<1>5. /\ 0 \in Nat /\ totalStaked' = totalStaked + 0
      /\ distributed' \in Nat /\ distributed' >= distributed + 0
  BY <1>3, <1>4
<1>6. QED
  BY <1>2, <1>3, <1>5, BooksAfterBox

LEMMA BooksStep ==
    ASSUME IInv, BooksInv, [Next]_vars
    PROVE  BooksInv'
<1>1. /\ wallet \in [Holders -> Int] /\ distributed \in Nat /\ rescued \in Nat
      /\ wallet[StakingApp] \in Int /\ StakingApp \in Holders /\ SpareStake(group) \in Nat
  BY BooksFacts
<1>2. ASSUME UNCHANGED <<stakes, totalStaked, wallet, distributed, rescued, overstaked>>,
             UNCHANGED group \/ SpareStake(group') = 0
      PROVE  BooksInv'
  <2>1. SpareStake(group') \in Nat /\ SpareStake(group') <= SpareStake(group)
    BY <1>1, <1>2, SpareKept
  <2>2. wallet'[StakingApp] + rescued' - SpareStake(group')
          >= wallet[StakingApp] + rescued - SpareStake(group)
    BY <1>1, <1>2, <2>1
  <2>3. QED
    BY <1>1, <1>2, <2>1, <2>2, BooksKept
<1>3. CASE TokenNext /\ UNCHANGED stakingVars
  <2>1. /\ wallet' \in [Holders -> Int] /\ SpareStake(group') \in Nat
        /\ wallet'[StakingApp] - SpareStake(group') >= wallet[StakingApp] - SpareStake(group)
    BY <1>1, <1>3, TokenBooks DEF IInv
  <2>2. UNCHANGED <<stakes, totalStaked, distributed, rescued, overstaked>>
    BY <1>3 DEF stakingVars, totals
  <2>3. wallet'[StakingApp] + rescued' - SpareStake(group')
          >= wallet[StakingApp] + rescued - SpareStake(group)
    BY <1>1, <2>1, <2>2
  <2>4. QED
    BY <1>1, <2>1, <2>2, <2>3, BooksKept
<1>4. ASSUME NEW strike \in Nat, NEW algo, EmergencyWithdraw(strike, algo)
      PROVE  BooksInv'
  <2>1. /\ UNCHANGED <<stakes, totalStaked, distributed, overstaked, group>>
        /\ rescued' = rescued + strike /\ SpareStake(group') = SpareStake(group)
    BY <1>4, SpareKept DEF EmergencyWithdraw, TransferStrike, totals
  <2>2. CASE strike > 0
    <3>1. Admin \in Holders
      BY StakingAssumption
    <3>2. TransferStrike(StakingApp, Admin, strike)
      BY <1>4, <2>2 DEF EmergencyWithdraw
    <3>3. wallet' \in [Holders -> Int] /\ wallet'[StakingApp] = wallet[StakingApp] - strike
      BY <1>1, <3>1, <3>2, Moved
    <3>4. /\ rescued' \in Nat
          /\ wallet'[StakingApp] + rescued' - SpareStake(group')
               >= wallet[StakingApp] + rescued - SpareStake(group)
      BY <1>1, <2>1, <3>3
    <3>5. QED
      BY <1>1, <2>1, <3>3, <3>4, BooksKept
  <2>3. CASE ~(strike > 0)
    <3>1. wallet' = wallet /\ rescued' = rescued
      BY <1>1, <1>4, <2>1, <2>3 DEF EmergencyWithdraw, tokenVars
    <3>2. QED
      BY <1>2, <2>1, <3>1
  <2>4. QED
    BY <2>2, <2>3
<1>5. ASSUME NEW amount \in Rewards,
             PayStaking(amount) \/ DepositRewards(amount) \/ ReceiveFee(amount)
      PROVE  BooksInv'
  <2>1. UNCHANGED <<stakes, totalStaked, wallet, distributed, rescued, overstaked>>
    BY <1>5 DEF PayStaking, DepositRewards, ReceiveFee, totals, tokenVars
  <2>2. amount \in Nat
    BY StakingAssumption
  <2>3. CASE PayStaking(amount)
    <3>1. SpareStake(group') = 0
      BY <2>2, <2>3, SpareBegins DEF PayStaking
    <3>2. QED
      BY <1>2, <2>1, <3>1
  <2>4. CASE DepositRewards(amount)
    <3>1. Book(amount) /\ ~Carries("strike", StakingApp)
      BY <2>4 DEF DepositRewards, Carries
    <3>2. SpareStake(group') = 0
      BY <2>2, <3>1, SpareBooked DEF IInv
    <3>3. QED
      BY <1>2, <2>1, <3>2
  <2>5. CASE ReceiveFee(amount)
    BY <1>2, <2>1, <2>5 DEF ReceiveFee
  <2>6. QED
    BY <1>5, <2>3, <2>4, <2>5
<1>6. CASE PauseStaking
  BY <1>2, <1>6 DEF PauseStaking, totals, tokenVars
<1>7. CASE UNCHANGED vars
  BY <1>2, <1>7 DEF vars, stakingVars, totals, tokenVars
<1>8. Stakes \subseteq Nat /\ 0 \in Nat
  BY StakingAssumption
<1>9. QED
  BY <1>3, <1>4, <1>5, <1>6, <1>7, <1>8, BooksAfterStake, BooksAfterUnstake, BooksAfterClaim,
     BooksAfterCompound, BooksAfterExtend
  DEF Next

(* What the contract lacks of the STRIKE it owes its stakers is at most what*)
(* compound recorded as distributed, what the calls of one group booked     *)
(* again of its transfer and what the admin took, over any calls            *)
(* (staking.py:405, :161): no skipped subtraction hides more.               *)
THEOREM ShortfallIsBounded == Spec => []ShortfallIsCompounded
<1>1. Init => BooksInv
  <2> SUFFICES ASSUME Init PROVE BooksInv
    OBVIOUS
  <2>1. DOMAIN stakes = {} /\ totalStaked = 0 /\ distributed = 0 /\ rescued = 0
    BY DEF Init, StakingInit
  <2>2. wallet = [h \in Holders |-> 0] /\ StakingApp \in Holders
    BY StakingAssumption DEF Init, TokenInit
  <2>3. Staked = 0 /\ IsFiniteSet(DOMAIN stakes)
    BY <2>1, SumEmpty, FS_EmptySet DEF Staked
  <2>4. wallet \in [Holders -> Int] /\ wallet[StakingApp] = 0
    BY <2>2
  <2>5. SpareStake(group) = 0 /\ overstaked = 0
    BY DEF Init, TokenInit, StakingInit, NoGroup, SpareStake
  <2>6. QED
    BY <2>1, <2>3, <2>4, <2>5 DEF BooksInv
<1>2. IInv /\ BooksInv /\ [Next]_vars => BooksInv'
  BY BooksStep
<1>3. IInv /\ BooksInv => ShortfallIsCompounded
  BY BooksFacts DEF ShortfallIsCompounded
<1>4. QED
  BY <1>1, <1>2, <1>3, StakingAlways, PTL DEF Spec
=============================================================================
