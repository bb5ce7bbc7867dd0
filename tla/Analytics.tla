------------------------------ MODULE Analytics ------------------------------
(* The analytics service (services/analytics/src/analytics), which keeps the *)
(* bars and the summary of one asset in memory from two Kafka topics.        *)
(* Kafka keeps the order of a topic, not that between topics, and delivers   *)
(* again what was not committed before a restart.                            *)
EXTENDS Integers, Sequences, FiniteSets, SequencesExt

CONSTANTS
    MaxTrades,      \* bound: trades
    LastMinute,     \* bound: the clock
    MinutesOfDay,   \* 24 hours
    MaxBars         \* 500 in the code

ASSUME AnalyticsAssumption == {MinutesOfDay, MaxBars} \subseteq Nat

VARIABLES
    minute,         \* the clock
    published,      \* the log of each topic: prices and timestamps
    offset,         \* how far each topic has been read
    bars,           \* ohlcv: the bar that was opened last is the first
    summary         \* highest and lowest price of a day, as last computed

analyticsVars == <<minute, published, offset, bars, summary>>

Topics == {"order.matched", "trade.settled"}
NoSummary == [high |-> 0, low |-> 0, computed |-> 0]
Events == UNION {ToSet(published[topic]) : topic \in Topics}

AnalyticsInit ==
    /\ minute = 0
    /\ published = [topic \in Topics |-> <<>>] /\ offset = [topic \in Topics |-> 0]
    /\ bars = <<>> /\ summary = NoSummary

MinutePasses ==
    /\ minute < LastMinute
    /\ minute' = minute + 1
    /\ UNCHANGED <<published, offset, bars, summary>>

(* A trade is matched, and settled later; both events carry its price, and *)
(* each has the time of its own.                                           *)
Publish(topic) ==
    LET n == Len(published[topic]) + 1 IN
    /\ n <= IF topic = "order.matched" THEN MaxTrades ELSE Len(published["order.matched"])
    /\ published' = [published EXCEPT ![topic] = Append(@, [price |-> n, at |-> minute])]
    /\ UNCHANGED <<minute, offset, bars, summary>>

Highest(a, b) == IF a > b THEN a ELSE b
Lowest(a, b) == IF a < b THEN a ELSE b

(* Fault: an event that is late goes to the bar that is open. *)
SameBucket_Late(series, e) == series # <<>> /\ e.at <= Head(series).bucket
SameBucket(series, e) == series # <<>> /\ e.at = Head(series).bucket

UpsertFromTrade(series, e) ==
    IF SameBucket(series, e)
    THEN LET last == Head(series) IN
         <<[last EXCEPT !.high = Highest(@, e.price), !.low = Lowest(@, e.price),
                        !.close = e.price, !.volume = @ + 1]>> \o Tail(series)
    ELSE LET opened == [bucket |-> e.at, open |-> e.price, high |-> e.price,
                        low |-> e.price, close |-> e.price, volume |-> 1]
         IN  SubSeq(<<opened>> \o series, 1, Lowest(Len(series) + 1, MaxBars))

(* Without a bar of the last day the summary stays as it was. *)
RecomputeSummary(series) ==
    LET last24 == {b \in ToSet(series) : b.bucket >= minute - MinutesOfDay} IN
    IF last24 = {} THEN summary
    ELSE [high |-> CHOOSE p \in {b.high : b \in last24} : \A b \in last24 : b.high <= p,
          low |-> CHOOSE p \in {b.low : b \in last24} : \A b \in last24 : p <= b.low,
          computed |-> minute]

OnEvent(topic) ==
    /\ offset[topic] < Len(published[topic])
    /\ offset' = [offset EXCEPT ![topic] = @ + 1]
    /\ bars' = UpsertFromTrade(bars, published[topic][offset[topic] + 1])
    /\ summary' = RecomputeSummary(bars')
    /\ UNCHANGED <<minute, published>>

(* Everything is in memory; the last event of a topic may come again. *)
Restart ==
    /\ bars # <<>>
    /\ bars' = <<>> /\ summary' = NoSummary
    /\ \E topic \in Topics :
          offset' \in {offset, [offset EXCEPT ![topic] = IF @ = 0 THEN 0 ELSE @ - 1]}
    /\ UNCHANGED <<minute, published>>

AnalyticsNext == MinutePasses \/ Restart \/ \E topic \in Topics : Publish(topic) \/ OnEvent(topic)

AnalyticsSpec == AnalyticsInit /\ [][AnalyticsNext]_analyticsVars

-----------------------------------------------------------------------------
(* In whatever order the topics are read, and however often, a bar holds    *)
(* prices of its own minute (analytics.service.ts:53), and the highest and  *)
(* the lowest of the summary are prices of the day before it was computed.  *)
PricesOfTheirTime ==
    /\ \A b \in ToSet(bars) :
          {b.open, b.high, b.low, b.close} \subseteq {e.price : e \in {f \in Events : f.at = b.bucket}}
    /\ summary # NoSummary =>
          \A p \in {summary.high, summary.low} :
              \E e \in Events : e.price = p /\ e.at >= summary.computed - MinutesOfDay
=============================================================================
