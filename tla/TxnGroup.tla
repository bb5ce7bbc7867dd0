------------------------------ MODULE TxnGroup ------------------------------
(***************************************************************************)
(* An atomic group of Algorand, as the Python contracts read it: its       *)
(* transaction 0 is a transfer, and every call of the group that asks for  *)
(* one looks at transaction 0, whatever its own place and the group's size *)
(* (perpetuals_pool.py:193, options_pool.py:172, staking.py:161,           *)
(* strike_token.py:186).  So one transfer may stand behind several calls.  *)
(* Transaction 0 moves its amount when the group begins.  A group without  *)
(* its last calls is a group too, so every state here is one that a whole  *)
(* group leaves behind.  "deposit" also takes a payment at index 1, behind *)
(* an opt-in: the group without the opt-in, and no other, stands for it.   *)
(***************************************************************************)
EXTENDS Integers

CONSTANT MaxGroupCalls   \* calls after transaction 0: 15 on the chain

ASSUME GroupAssumption == MaxGroupCalls \in Nat

VARIABLE group           \* transaction 0 of the group under way

NoGroup == [asset |-> "none", to |-> "none", amount |-> 0, unbooked |-> 0, calls |-> 0]

Floored(x) == IF x > 0 THEN x ELSE 0

(* "unbooked" is a history: what of the amount no call has booked so far;  *)
(* "calls" is the room left in the group.                                  *)
Begin(asset, to, amount) ==
    /\ group = NoGroup
    /\ group' = [asset |-> asset, to |-> to, amount |-> amount,
                 unbooked |-> amount, calls |-> MaxGroupCalls]

End == group # NoGroup /\ group' = NoGroup

Carries(asset, to) == group.asset = asset /\ group.to = to

(* Fault: the amount named is not compared with the transfer. *)
Book_Unchecked(x) ==
    /\ group.calls > 0
    /\ group' = [group EXCEPT !.calls = @ - 1, !.unbooked = Floored(@ - x)]

(* A call books x of transaction 0.                                        *)
Book(x) ==
    /\ group.calls > 0
    /\ group.amount >= x
    /\ group' = [group EXCEPT !.calls = @ - 1, !.unbooked = Floored(@ - x)]

(* What a call that books x books a second time.                           *)
BookedAgain(x) == Floored((IF x <= group.amount THEN x ELSE group.amount) - group.unbooked)
=============================================================================
