------------------------------ MODULE PriceFeed ------------------------------
(* The price of one listed asset, from its pool to the page that shows it:  *)
(*   services/asset/src/pricefeed/pricefeed.service.ts                      *)
(*   apps/web/src/app/(trading)/trade/[assetId]/page.tsx                    *)
(* The price that a page reads from the pool itself is left out.            *)
(* A price is the number of the trade that made it, 0 when there is none.   *)
EXTENDS Integers, FiniteSets

CONSTANTS
    Day,            \* 24 hours in ticks of the clock
    LastTick,       \* bound: the clock
    LastPrice,      \* bound: trades
    MaxRows         \* bound: snapshots

ASSUME FeedAssumption == Day \in Nat \ {0}

VARIABLES
    spot,           \* what the pool's reserves make the price
    tick,           \* the clock
    snapshots,      \* price_snapshots: its price, its ts, and when it was read
    cronReads,      \* prices that runs of snapshotPrices have read, and when
    request,        \* getLatestPrice: its step and what it has read
    info            \* the page's answer of GET /assets/:id/price

feedVars == <<spot, tick, snapshots, cronReads, request, info>>

NoSnapshot == [price |-> 0, ts |-> -1, read |-> -1]
NoRequest == [step |-> "idle", asked |-> 0, latest |-> NoSnapshot, dayOld |-> NoSnapshot]

FeedInit ==
    /\ spot = 0 /\ tick = 0 /\ snapshots = {} /\ cronReads = {}
    /\ request = NoRequest /\ info = NoRequest

(* findFirst, the newest of the rows *)
Newest(rows) ==
    IF rows = {} THEN {NoSnapshot} ELSE {r \in rows : \A other \in rows : other.ts <= r.ts}

PoolTrades ==
    /\ spot < LastPrice
    /\ spot' = spot + 1
    /\ UNCHANGED <<tick, snapshots, cronReads, request, info>>

Passes ==
    /\ tick < LastTick
    /\ tick' = tick + 1
    /\ UNCHANGED <<spot, snapshots, cronReads, request, info>>

(* The cron reads the reserves; an empty pool, or a failure, is passed over. *)
SnapshotPrices ==
    /\ spot # 0
    /\ Cardinality(snapshots) + Cardinality(cronReads) < MaxRows
    /\ cronReads' = cronReads \cup {[price |-> spot, read |-> tick]}
    /\ UNCHANGED <<spot, tick, snapshots, request, info>>

(* The database stamps the row as it is inserted. *)
StoreSnapshot(r) ==
    /\ cronReads' = cronReads \ {r}
    /\ snapshots' \in {snapshots, snapshots \cup {[price |-> r.price, ts |-> tick, read |-> r.read]}}
    /\ UNCHANGED <<spot, tick, request, info>>

(* getLatestPrice: two queries that run side by side *)
GetLatestPrice ==
    /\ request.step = "idle"
    /\ request' = [NoRequest EXCEPT !.step = "both", !.asked = tick]
    /\ UNCHANGED <<spot, tick, snapshots, cronReads, info>>

ReadLatest ==
    /\ request.step \in {"both", "latest"}
    /\ \E r \in Newest(snapshots) :
          request' = [request EXCEPT !.step = IF @ = "both" THEN "dayOld" ELSE "answer", !.latest = r]
    /\ UNCHANGED <<spot, tick, snapshots, cronReads, info>>

DayBefore(asked) == {r \in snapshots : r.ts <= asked - Day}
ReadDayOld ==
    /\ request.step \in {"both", "dayOld"}
    /\ \E r \in Newest(DayBefore(request.asked)) :
          request' = [request EXCEPT !.step = IF @ = "both" THEN "latest" ELSE "answer", !.dayOld = r]
    /\ UNCHANGED <<spot, tick, snapshots, cronReads, info>>

(* No snapshot yet: the reserves are read, and the row is stamped after. *)
Stamp_Asked == request.asked                \* Fault: stamped as the request came
Stamp == tick
ReadReserves ==
    /\ request.step = "answer" /\ request.latest = NoSnapshot
    /\ request' = IF spot = 0 THEN [request EXCEPT !.step = "null"]
                  ELSE [request EXCEPT !.step = "persist",
                                       !.latest = [price |-> spot, ts |-> Stamp, read |-> tick]]
    /\ UNCHANGED <<spot, tick, snapshots, cronReads, info>>

Persist ==
    /\ request.step = "persist"
    /\ snapshots' = snapshots \cup {request.latest}
    /\ request' = [request EXCEPT !.step = "answer", !.dayOld = NoSnapshot]
    /\ UNCHANGED <<spot, tick, cronReads, info>>

(* The catch of the fallback, and an asset without a token, answer null. *)
FallbackFails ==
    /\ \/ request.step = "persist"
       \/ request.step = "answer" /\ request.latest = NoSnapshot
    /\ request' = [request EXCEPT !.step = "null", !.latest = NoSnapshot]
    /\ UNCHANGED <<spot, tick, snapshots, cronReads, info>>

(* The page keeps what it has when a request fails. *)
ShowInfo ==
    /\ \/ request.step = "answer" /\ request.latest # NoSnapshot
       \/ request.step = "null"
    /\ info' \in {request, info}
    /\ request' = NoRequest
    /\ UNCHANGED <<spot, tick, snapshots, cronReads>>

FeedNext ==
    \/ PoolTrades \/ Passes \/ SnapshotPrices
    \/ \E r \in cronReads : StoreSnapshot(r)
    \/ GetLatestPrice \/ ReadLatest \/ ReadDayOld \/ ReadReserves \/ Persist \/ FallbackFails
    \/ ShowInfo

FeedSpec == FeedInit /\ [][FeedNext]_feedVars

-----------------------------------------------------------------------------
(* The change of 24 hours that a page shows compares the newest price with *)
(* one that the pool was seen to have a day before the page asked, or more *)
(* (pricefeed.service.ts:114-128), however late a row was stored, and      *)
(* whoever stored the first.                                               *)
ChangeSpansADay ==
    info.dayOld # NoSnapshot =>
        /\ info.dayOld.read <= info.asked - Day
        /\ info.dayOld.ts <= info.latest.ts
=============================================================================
