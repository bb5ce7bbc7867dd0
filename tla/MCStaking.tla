----------------------------- MODULE MCStaking -----------------------------
(* Two stakers, for TLC, two instances in one run: the token beside stakes *)
(* that earn nothing, and the stakes and rewards of a token that neither   *)
(* vests nor burns.  Amounts are whole STRIKE and ALGO, times are days.    *)
EXTENDS Staking, TLC

CONSTANTS u1, u2, app, adm

(* Half of it after ten days, the rest after twenty. *)
OneVesting == {[total |-> 4, cliff |-> 10, duration |-> 20]}

VARIABLE instance

StakerSymmetry == Permutations(Beneficiaries)

(* The calls of a group follow each other and book what was sent for them. *)
Consecutive ==
    group # NoGroup =>
        /\ group' # group
        /\ group' = NoGroup /\ group.to \notin Beneficiaries
               => group.unbooked < group.amount

(* A contract that is paused is unpaused next. *)
BriefPause ==
    /\ tokenPaused => ~tokenPaused'
    /\ stakingPaused => ~stakingPaused'

MCInit == Init /\ instance \in {"token", "staking"}

MCNext ==
    /\ Next /\ Consecutive /\ BriefPause /\ group'.to # adm
    /\ instance = "token" => stakingAlgo' <= StakingFunds /\ UNCHANGED <<rescued, distributed>>
    /\ instance = "staking" => UNCHANGED <<schedules, burned>>
                              /\ ~tokenPaused' /\ group'.to # "token" /\ overstaked' <= 4
    /\ UNCHANGED instance

MCSpec == MCInit /\ [][MCNext]_<<vars, instance>>
=============================================================================
