------------------------------ MODULE MCPerps ------------------------------
(* The perpetuals market and its pool for TLC, two instances in one run:   *)
(* the pool's groups beside one position, and two positions over a pool    *)
(* that deposits and fees fill.  Amounts are counted in thousandths of an  *)
(* ALGO, prices in hundredths of a dollar.                                 *)
EXTENDS PerpsMarket, TLC

CONSTANTS a1, a2, t1

VARIABLE instance

LpSymmetry == Permutations(LPs)

MCInit == Init /\ instance \in {"pool", "market"}

(* The calls of a group follow each other and book all that was paid.      *)
Consecutive ==
    group # NoGroup =>
        /\ group' # group
        /\ group' = NoGroup /\ group.asset = "algo" => group.unbooked = 0

(* A contract that is paused is unpaused next.                             *)
BriefPause ==
    /\ poolPaused => ~poolPaused'
    /\ marketPaused => ~marketPaused'

MCNext ==
    /\ Next /\ Consecutive /\ BriefPause
    /\ instance = "pool" => Len(positions') <= 1 /\ maintenance' = maintenance
    /\ instance = "market" => group'.asset # "lp" /\ poolTxns' <= 4
    /\ UNCHANGED instance

MCSpec == MCInit /\ [][MCNext]_<<vars, instance>>
=============================================================================
