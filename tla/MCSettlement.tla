---------------------------- MODULE MCSettlement ----------------------------
(* Settlement on small instances: who trades what, at which price. *)
EXTENDS Settlement, TLC

CONSTANTS Order, Seller, Direct

(* Every trade fills the same buy order, from the same seller, except the  *)
(* Direct ones: they have no escrowed order and the admin's wallet pays.   *)
MCOrderOf  == [t \in Trades |-> IF t \in Direct THEN NoHold ELSE Order]
MCSellerOf == [t \in Trades |-> Seller]

(* What every trade costs: all of the largest lock, more than the others.  *)
MCUsdcAmount == [t \in Trades |-> MaxAmount]

SymRunsTxs == Permutations(Runs) \cup Permutations(Txs)
SymAll     == SymRunsTxs \cup Permutations(Trades)
=============================================================================
