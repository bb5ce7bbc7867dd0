----------------------------- MODULE MCOptions -----------------------------
(* The options market, its pool and the oracle for TLC, three instances in *)
(* one run: the pool's groups beside one option and the market beside one  *)
(* LP's deposits, both on two days of few prices, and the oracle alone on  *)
(* more reports, days and required sources.  Amounts are counted in        *)
(* thousandths of an ALGO, prices in hundredths of a dollar.               *)
EXTENDS OptionsMarket, TLC

CONSTANTS a1, a2, b1, s1, s2, s3

VARIABLE instance

Report(x, y, z) == s1 :> x @@ s2 :> y @@ s3 :> z

(* All sources agree, one is missing and the others differ, one answers.   *)
SomeReports == {Report(100, 100, 100), Report(100, 110, 0), Report(100, 104, 0), Report(0, 0, 104)}

MCInit ==
    /\ Init
    /\ instance \in {"pool", "market", "oracle"}
    /\ instance # "oracle" => minSources = 2

(* The calls of a group follow each other and book all that was paid.      *)
Consecutive ==
    group # NoGroup =>
        /\ group' # group
        /\ group' = NoGroup /\ group.asset = "algo" => group.unbooked = 0

(* A contract that is paused is unpaused next.                             *)
BriefPause ==
    /\ poolPaused => ~poolPaused'
    /\ marketPaused => ~marketPaused'

FewPrices ==
    /\ now' <= 2 /\ minSources' = minSources
    /\ currentPrice' # 104 /\ \A s \in Sources : sourcePrice'[s] # 104

MCNext ==
    /\ Next /\ Consecutive /\ BriefPause
    /\ instance # "oracle" => FewPrices
    /\ instance = "pool" => Len(options') <= 1
    /\ instance = "market" => group'.asset # "lp" /\ poolTxns' <= 4
    /\ instance = "oracle" => UNCHANGED <<poolVars, marketVars, group>>
    /\ UNCHANGED instance

MCSpec == MCInit /\ [][MCNext]_<<vars, instance>>

LpSymmetry == Permutations(LPs)
=============================================================================
