------------------------------- MODULE Oracle -------------------------------
(***************************************************************************)
(* The Oracle application (contracts/oracle.py): up to three sources are   *)
(* reported in one call, the median of those that are not stale becomes    *)
(* current_price unless it moved too far.  No line checks who calls        *)
(* update_price.  The confidence it returns is not stored,                 *)
(* and no contract reads last_update: both are left out.                   *)
(***************************************************************************)
EXTENDS Integers, FiniteSetsExt

CONSTANTS
    Sources,            \* binance, coingecko, vestige
    Quotes,             \* prices a source may report; 0 is "unavailable"
    Reports,            \* what one call of update_price may carry
    MinSources,         \* min_sources the admin may choose
    MaxStaleness, MaxDeviation,
    MaxTime             \* bound: Global.latest_timestamp

ASSUME OracleAssumption ==
    /\ IsFiniteSet(Sources) /\ Cardinality(Sources) = 3
    /\ Quotes \subseteq Nat \ {0} /\ Quotes # {}
    /\ Reports \subseteq [Sources -> Quotes \cup {0}]
    /\ MinSources \subseteq 1..3 /\ MinSources # {}
    /\ {MaxStaleness, MaxDeviation, MaxTime} \subseteq Nat

VARIABLES
    now,            \* Global.latest_timestamp
    sourcePrice, sourceTime,   \* <source>_price, <source>_timestamp
    currentPrice,   \* current_price, 0 before the first update
    minSources      \* min_sources

oracleVars == <<now, sourcePrice, sourceTime, currentPrice, minSources>>

OracleInit ==
    /\ now = 1
    /\ sourcePrice = [s \in Sources |-> 0] /\ sourceTime = sourcePrice
    /\ currentPrice = 0
    /\ minSources \in MinSources

(* A bug this model can tell: the age of a quote is not looked at. *)
ValidSources_AnyAge(price, time) == {s \in Sources : price[s] > 0}

(* _collect_valid_prices *)
ValidSources(price, time) ==
    {s \in Sources : price[s] > 0 /\ now - time[s] <= MaxStaleness}

(* _calculate_median: the only price, the mean of two, the middle of three. *)
MedianOf(valid, price) ==
    LET Rank(s) == Cardinality({t \in valid : price[t] <= price[s]})
        Given   == {price[s] : s \in valid}
    IN  IF Cardinality(valid) = 3
        THEN Min({price[s] : s \in {t \in valid : Rank(t) >= 2}})
        ELSE (Min(Given) + Max(Given)) \div 2

(* _calculate_deviation, in basis points *)
Deviation(old, new) ==
    ((IF new >= old THEN new - old ELSE old - new) * 10000) \div old

(* update_price *)
UpdatePrice(report) ==
    LET Fresh(s) == report[s] > 0
        price    == [s \in Sources |-> IF Fresh(s) THEN report[s] ELSE sourcePrice[s]]
        time     == [s \in Sources |-> IF Fresh(s) THEN now ELSE sourceTime[s]]
        valid    == ValidSources(price, time)
    IN  /\ Cardinality(valid) >= minSources
        /\ currentPrice' = MedianOf(valid, price)
        /\ currentPrice > 0 => Deviation(currentPrice, currentPrice') <= MaxDeviation
        /\ sourcePrice' = price /\ sourceTime' = time
        /\ UNCHANGED <<now, minSources>>

(* emergency_set_price *)
EmergencySetPrice(p) ==
    /\ currentPrice' = p
    /\ UNCHANGED <<now, sourcePrice, sourceTime, minSources>>

(* set_min_sources *)
SetMinSources(n) ==
    /\ n # minSources /\ minSources' = n
    /\ UNCHANGED <<now, sourcePrice, sourceTime, currentPrice>>

(* The chain's clock. *)
Tick ==
    /\ now < MaxTime /\ now' = now + 1
    /\ UNCHANGED <<sourcePrice, sourceTime, currentPrice, minSources>>

(* The keeper's round (scripts/keeper_oracle.py).  It looks up a method     *)
(* "update_prices", which the contract does not have, and falls back on    *)
(* emergency_set_price with its own median, the upper one of two: neither  *)
(* the deviation nor the stored prices are looked at.  The call passes     *)
(* only while the keeper's account is the oracle's admin.                  *)
KeeperRound(report) ==
    LET valid    == {s \in Sources : report[s] > 0}
        Below(s) == Cardinality({t \in valid : report[t] <= report[s]})
    IN  /\ Cardinality(valid) >= 2
        /\ EmergencySetPrice(Min({report[s] : s \in {t \in valid : Below(t) >= 2}}))

OracleNext ==
    \/ \E report \in Reports : UpdatePrice(report)
    \/ \E report \in Reports : KeeperRound(report)
    \/ \E n \in MinSources : SetMinSources(n)
    \/ Tick

OracleSpec == OracleInit /\ [][OracleNext]_oracleVars

-----------------------------------------------------------------------------
(* At least half of the given sources quote p or less, and at least half p  *)
(* or more.  Of three, no single one can then move p beyond what the other  *)
(* two quote, whatever it reports.                                          *)
IsMiddle(p, quotes, given) ==
    LET Half(S) == 2 * Cardinality(S) >= Cardinality(given)
    IN  /\ given # {}
        /\ Half({s \in given : quotes[s] <= p})
        /\ Half({s \in given : quotes[s] >= p})

(* The sources whose last quote is no older than the limit. *)
Recent == {s \in Sources : sourcePrice[s] # 0 /\ sourceTime[s] + MaxStaleness >= now}

(* "Median calculation for manipulation resistance" (oracle.py:52): the    *)
(* price only ever changes to a middle one of the recent quotes that the    *)
(* oracle holds, in whatever calls they came, or, when the keeper overrides *)
(* it and leaves the quotes alone, of two or more it fetched just then.  (A *)
(* price that an administrator makes up by hand is not in this model.)      *)
PriceIsMiddle ==
    [][currentPrice' # currentPrice =>
         \/ IsMiddle(currentPrice', sourcePrice', Recent')
         \/ /\ UNCHANGED <<sourcePrice, sourceTime>>
            /\ \E fetched \in Reports :
                 LET answered == {s \in Sources : fetched[s] # 0}
                 IN  /\ Cardinality(answered) >= 2
                     /\ IsMiddle(currentPrice', fetched, answered)]_oracleVars
=============================================================================
