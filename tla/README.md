# ChainStrike in TLA+

A verification development for ChainStrike: TLA+ models of the parts of the platform
that move money and tokens, TLC configurations that check them on small instances, and
TLAPS proofs of what should hold for every instance.  Everything is translated from the
source under `src/`; `PROJECT.json` maps each definition to the lines it stands for.

Contents: [1 The system](#1-the-system) · [2 The modules](#2-the-modules) · [3 The
runs](#3-the-runs) · [4 Fairness](#4-fairness) · [5 Proofs](#5-proofs) · [6
Disagreements found](#6-disagreements-found) · [7 What is left out](#7-what-is-left-out)
· [8 Plan](#8-plan)

Check a run with `tlc -config MCPerps.cfg MCPerps.tla`, a proof module with `tlapm
PerpsProofs.tla`.

## 1 The system

ChainStrike issues real-world assets as Algorand ASAs, lets them trade against USDC, and
offers derivatives contracts beside that.  NestJS services keep rows in PostgreSQL and
send transactions through one admin wallet; contracts hold the money.  Two kinds of
atomicity meet: an Algorand group happens whole or not at all, while a handler of a
service stops at every `await` and may end there.

| part | state | operations | talks to | what makes it correct |
|---|---|---|---|---|
| **escrow contract** (`contracts/escrow`) | a box per buy order: buyer, amount, `isLocked`; pause flag; settler address; one USDC balance for all orders | `recordLock`, `releaseToSeller`, `returnToBuyer`, opt-in, pause, settler change | called by settlement's groups; deposits are plain transfers it does not see | a lock is spent once; a released order stays released; a pause does not trap refunds |
| **settlement service** (`services/settlement`) | a row per trade: status, transaction id, error; retry timers in memory | `processMatch` → `attemptSettlement` with retries and backoff; catch block that looks an earlier group up; `unfreezeBuyer` | HTTP and event bus in; node and indexer out; escrow contract inside its groups | SETTLED means an executed group of this trade; an order pays for one exchange; every trade is closed in the end |
| **issuance escrow contract** (`contracts/issuance-escrow`) | a box per asset: issuer, amount, status (eight bytes); pause flag; one USDC balance | `recordIssuanceLock`, `releaseToVault`, `returnToIssuer` | asset service | one payment per lock, none out of another issuer's deposit |
| **token vault contract** (`contracts/token-vault`) | an application per asset, its ASA, USDC and LP holdings | opt-ins, `distributeToIssuer`, `withdrawForPool` | asset service | holds what the row that names it says |
| **asset service** (`services/asset`) | a row per asset: status, verification, ids of ASA and vault, escrow status | application, verification, deployment, activation, rejection, distribution, dispenser | both contracts above, the Tinyman pool, the admin wallet | the row never claims what did not happen; a market is live only on seeded liquidity of its own |
| **perpetuals market** (`contracts/perpetuals_market.py`) | a box per position; open interest per side, number of open positions, reserve | open, close, add and remove margin, liquidate, admin setters | pool, oracle, staking (fees) | counters match boxes; a position ends once; opening and liquidation agree |
| **perpetuals pool** (`contracts/perpetuals_pool.py`) | `total_liquidity`, `total_shares`, ALGO balance; LP tokens are an ASA | deposit, withdraw, `process_pnl`, `collect_trading_fee` | market, LPs | its account covers what its books promise; LPs do not dilute each other |
| **options market and pool** (`options_market.py`, `options_pool.py`) | boxes of options, open interest, reserve; liquidity, shares, LP boxes, ALGO balance | create, settle at the oracle's price, deposit, withdraw, premium, payout | oracle, staking (fees), LPs | the account covers the books; every LP token has a share; nobody is diluted |
| **oracle and its keeper** (`oracle.py`, `keeper_oracle.py`) | price and time per source, current price | report, emergency price, `min_sources` | both markets read it | the price is the median of fresh sources |
| **staking, STRIKE token** (`staking.py`, `strike_token.py`) | stakes with locks, reward per share; minted, burned, vesting schedules | stake, unstake, claim, deposit rewards, compound, extend; mint, burn, vest, release | fees of the markets | what is staked is held, locks are kept, circulation is accounted for |
| **whitelist registry, compliance service** (`contracts/whitelist-registry`, `services/compliance`) | a box per wallet; rows beside it | add, remove, expire, pre-trade check | identity's events, the registry | a trade passes only on a grant that is still good |
| **identity service** (`services/identity`) | users, wallets, sessions with refresh tokens; KYC and KYB states | log in by password or wallet, register, refresh, log out; webhooks, decisions, expiry | compliance, by events; the verification provider | one valid token per chain; trusted means vetted |
| **web application** (`apps/web`) | tokens in the store; what each panel shows and waits for | sign in, refresh, swap, add and remove liquidity, launch, review | services, wallet, node | an answer is applied to what it was asked for |
| **issuer application** (`apps/issuer`) | wallet, opt-in, a listener for sign requests | opt in, sign, upload, deploy | asset service, wallet | the right wallet signs |
| **signature collector** (`services/settlement/src/signature`) | promises that wait for a signature | – | provided by no module (`settlement.module.ts:8`) and called by nobody | it is not modelled: settlement signs with the admin key (`settlement.service.ts:214`) |
| **documents** (`services/asset/src/document`) | files and rows; the hash in a token | upload, list, hash | object store, deployment | a token's hash can be recomputed |
| **price feed, analytics** | snapshots; bars and a summary | snapshot, latest price; events | pool, event bus | a number belongs to the time it is shown for |
| gateway, notification, transfer restriction | – | route, send mail; a template nobody calls | all | they decide nothing |

Interactions that the models keep: settlement's atomic group calls the escrow contract;
overlapping runs share one settlement row; activation and rejection of one asset share
its row and its lock; all issuers share one escrow account and one admin wallet; market
and pool call each other in one group; staking moves the token; the pre-trade check reads
registry and rows one after the other; a page's requests share one token store.

The hard behaviours are listed under `hazards` in `PROJECT.json`, each at its line:
duplicate deliveries, a confirmation that arrives after its waiter gave up, crashes
between a confirmed transaction and the row that records it, rows read once and acted on
seven transactions later, truncating divisions, byte layouts, and counters kept by hand
beside the boxes they summarise.

## 2 The modules

```
Escrow ──► Settlement ── refines ──► TradeLedger
               └──────────► SettlementProofs

IssuanceEscrow ─┐
TokenVault ─────┴► Issuance ── refines ──► AssetLife
                       └──────────► IssuanceProofs

           ┌► PerpsPool ──► PerpsMarket ──► PerpsProofs
           │
TxnGroup ──┼► OptionsPool ─┐
           │  Oracle ──────┴► OptionsMarket ──► OptionsProofs
           │
           └► StrikeToken ──► Staking ──► StakingProofs

Identity ──► WebClient ──► AccessProofs

SwapPanel ──► LiquidityPanel ─┐
Kyc  Whitelist  LaunchWizard  │
AdminPage  IssuerDesk         ├► PortalProofs
Documents  PriceFeed          │
Analytics ────────────────────┘

SumTheorems ──► SettlementProofs  IssuanceProofs  PerpsProofs  OptionsProofs  StakingProofs

MCSettlement  MCIssuance  MCPerps  MCOptions  MCStaking  MCAccess  MCPortal
```
An arrow to the right is EXTENDS, except the refinements, INSTANCEs with a mapping.
The modules of the last line are instances for TLC; `MCPortal` holds one small instance
of each of the ten modules that `PortalProofs` is about.

### Escrow
`escrowHolds` is the box map; `usdc` the application account; `recorded`, `paidOut` and
`refunded` are history counters that no line of the contract keeps, used to say "spent
once".  One action per method, its guard the method's assertions (`MayRecord`,
`MayRelease`, `MayReturn`).  A failing application call leaves no trace on Algorand, so
it is simply not a step.  `Deposit` is the buyer's transfer: the contract does not see
it, so locks may exceed the USDC held.

### Settlement
A *run* is one call of `processMatch` with its retries.  Its program counter names the
await it stands at:

| step | code |
|---|---|
| `Deliver` | `POST /internal/settle` or the consumer; the row is upserted whatever it says |
| `BeginAttempt`, `GiveUp` | the retry limit, status SUBMITTING |
| `CheckPasses`, `CheckFails` | buyer's opt-in, seller's tokens, fee |
| `Broadcast…` | the group is accepted; its reply is lost; an assertion fails; it is refused otherwise |
| `RecordTx` | CONFIRMING and the transaction id, over the id of any earlier group |
| `Wait…`, `MarkSettled`, `Finish` | confirmation, SETTLED, unfreeze (its errors are swallowed) |
| `ReadTxId`, `LookupSettles`, `LookupFails` | the catch block's answer to a failed assertion |
| `TimerFires` | `setTimeout` and the next attempt |
| `WriteFails`, `RunDies`, `Crash` | a database error inside or outside the `try`; a restart, which loses runs and timers |

The network is `Confirm`, `Reject`, `Drop` on pending groups.  A node evaluates a new
group against the chain and *some* of the pending groups, so `Broadcast` and its
refusals quantify over subsets of them.  `Confirm` is the whole group at once: clawback
to the buyer and `ReleaseToSeller` (or a payment from the admin's own wallet for a trade
without an escrowed order).  Escrow calls of other users interleave as `EscrowUsed`.
Constants of the model: amounts are small numbers, a trade moves one lot, a new attempt
always makes a new group, the admin's wallet can always pay the fallback path, seller
and treasury can receive USDC.

### TradeLedger
What settlement promises with no service in it: USDC of an order is held, refunded, or
exchanged for tokens in one step; a trade is reported only after its exchange. The
mapping reads custody off the boxes, exchanges off the confirmed groups and reports off
the rows.  `Retract` exists because a second delivery reopens a row that was SETTLED.

### IssuanceEscrow, TokenVault, Issuance
The box's status is modelled as the eight bytes `itob` writes and the one byte
`slice(40, 41)` reads back, since the two differ.  In `Issuance` a request reads its row
once (`Begin`) and then makes one confirmed transaction or one row write per step, in
the order of the handler: nine steps for an activation from `Release` to `List`, six for
a deployment.  `Die` ends a request at any step, for a failed call, a lost reply or a
restart.  `Fails` is a transaction the chain refuses.  ASA and vault are made by one
request and share one identifier; unfreezing goes with the opt-in; the Tinyman pool is
none, empty or seeded.  `RecordByHand` is `scripts/fix-escrow-boxes.ts`.  The issuer's
wallet is always given; stages 1 to 4 of a verification only log, unless they reject.
`DepositOf` is the transfer an application names and `UsdcOf` what it is worth: two
applications may name the same one, because nothing looks for an earlier use
(`asset.service.ts:45`).

### AssetLife
What issuance promises about an asset, with no request, row or transaction in it: the
deposit is paid to the vault or to the issuer, a payment is noted after it was made, a
market is opened only by an asset whose deposit went to its vault, an asset is listed
when its market is open, and it may be delisted (by a rejection, or by a deployment that
overlaps the activation).  The mapping reads payments off the history of the escrow,
notes and listings off the rows, and markets off the seeded pools whose LP tokens are in
a vault of the asset.  It allows a second payment, since that is what the code does when
requests die or overlap (`issuance_retry`); what it does not allow, on any path, is a
market made with somebody else's money.

### TxnGroup
The Python contracts read the transfer a call rests on at transaction 0 of its group,
whatever the call's own place and the size of the group.  So a group is a variable: a
transfer begins it (`PayPool`, `SendLp`, `PayMarket`, `SendStrike`, `PayStaking`) and
moves its amount, any calls that accept this transfer follow, up to `MaxGroupCalls`, and
`End` closes it.  A group without its last calls is a group too, so every state of the
model is one that a whole group leaves behind.  `Book` is the contracts' comparison of
an amount with the transfer; what a call books of a transfer that earlier calls of the
group have booked already is added to a history, `overbooked` for ALGO, `overburned`
for LP tokens and for STRIKE that is burned, `overstaked` for stakes.  No line of the contracts
keeps these counters.  The properties about books and accounts name them: they say that
an account differs from its books by what was booked again *and by no more*, and that
whoever keeps to one call per transfer has exact books.  `PerpsPool.Withdraw` looks at
the asset and the amount of the transfer but not at its receiver
(`perpetuals_pool.py:284`), so in the model, too, the LP tokens may have gone to anybody;
`OptionsPool.Withdraw` looks at all three.  `deposit` also accepts a payment at index 1,
behind an opt-in; the group without the opt-in stands for it, and groups that mix both
forms (a transfer at index 0 for one call, a payment at index 1 for another) are left
out: they are two groups run one after the other, but for the order of their calls.

### OptionsPool, Oracle, OptionsMarket
Calls are steps of atomic groups as in the perpetuals.  `UpdatePrice` keeps each source's last
price and time, takes the median of those that are not stale and refuses a move beyond
the deviation; `KeeperRound` is what the keeper's round comes to, since the method it
looks for does not exist: the emergency price, unchecked.  `OracleSpec` is the oracle on
its own; `MCOptions` has an instance of it beside the one of the market.  `CreateOption` and
`SettleOption` read the current price whatever its age.  The collateral is written into
the box and held back nowhere, so it is not in the state.  A premium's time value is
below the model's unit (at most 28 millionths per 30 days); its intrinsic value is
scaled by the size twice, as in the code.

### StrikeToken, Staking
The token's supply lies in the contract's account; `Mint` sends from it, burns come
back.  `wallet` is the holding of each account, the staking contract's among them.
`StakingApp` and the token are composed in one state, so a stake is a transfer.
Products have a width, `MaxUint`: the AVM fails a call whose product has more than 64
bits (`AccruedFits`, `RewardFits`, `VestedFits`).  Time is counted in days.

### Identity, WebClient
A request is a chain of awaits: each step of `Identity` is one query of the service,
each step of `WebClient` one callback of the page.  Sessions are numbered in the order
of their creation and never deleted, only revoked.  The placeholder e-mail of a wallet's
automatic account is built from the first eight characters of its address
(`user.service.ts:93`), so two wallets may share one and then one account: `Placeholder`
is any function.  One browser tab is modelled, with its own token store; tabs that share
`localStorage` are not.  Faults are a process that stops
between two queries and an answer that is lost.  A tab that is reloaded in the middle of
a refresh sets `abandoned`: what it asked goes on, what it would have stored is lost.

### Kyc, Whitelist, SwapPanel, LiquidityPanel, LaunchWizard, AdminPage, IssuerDesk, Documents, PriceFeed, Analytics
What surrounds the contracts.  Each models one page or service with the requests it has
under way as a set, so that answers come in any order, to whatever the page shows by
then.  `Kyc` takes webhooks late, twice and for applicants long replaced.  A user starts
with the role that the body of the registration asks for (`user.service.ts:24`), so
`VettedBeforeTrusted` speaks of a company's review only for who registered as an
investor.  Without `SUMSUB_WEBHOOK_SECRET` the service checks no signature
(`sumsub.service.ts:105`); `verdicts` are the answers of the webhooks it accepts, which
are the provider's where the secret is set.  In
`Whitelist` the service writes its table only, because its calls of the registry carry
no ABI selector and are refused; `skips` is `DEV_SKIP_COMPLIANCE`, with which a check is
approved without a look at any grant (`rules.service.ts:39`).  `AdminPage` reduces the
asset service to what the page can tell, and the contract to one that pays a return as
often as it is called, as `issuance_retry` shows; `Issuance` has the whole of it.
`Documents` leaves the deployment's other steps to `Issuance`; `devMode` is the service
configured with the placeholder key, which writes a document's row and stores no file
(`document.service.ts:39`).  The socket that `IssuerDesk` listens to has no server in the
repository: sign requests arrive at any time, any number of times.

### PerpsPool, PerpsMarket
Every call is one action, in a group that a transfer began or, if it asks for none, on
its own.  Amounts are thousandths of an ALGO,
prices hundredths of a dollar, divisions truncate as in the AVM, inner transactions cost
their fee and accounts keep their minimum balance.  The market never calls
`reserve_liquidity`, `release_liquidity`, `update_open_interest` or `process_funding`,
which only it may call: reserve, pool open interest and funding rate are 0 for ever and
are left out, and `apply_funding` returns before it writes.  The oracle is a price from
a set, changing at any time.  `process_pnl`'s branch for a loss asserts a payment at
index 0 of an inner group that has only the call: it can never pass, hence a losing
close is no step while margin remains.

Operators whose names end in `_Something` beside a mapped definition
(`Less_Strict`, `SeenConfirmed_NotPending`, …) are plausible bugs of that
definition.  Substituting one must break the property that `PROJECT.json` pairs it with;
nothing else uses them.

## 3 The runs

| run | question | bounds | distinct states |
|---|---|---|---|
| `settle_shared_order` | two trades of one order, two runs, all faults: invariants and refinement of the ledger; does any order of escrow calls by anyone spend a lock twice? | 2 groups, 1 delivery per trade, 2 retries; every caller and method of the escrow | 603 948 |
| `settle_closes` | one trade delivered twice: rows overwritten by both runs; is each open trade worked on, does each step bring its run nearer to the end, does it end? | 2 runs, 2 groups, 1 retry; node and lookup fail, process and database work | 183 468 |
| `settle_pending_lookup` | *violation*: is a trade closed as "already released" one that never moved? | 1 run, 2 groups, no faults | – |
| `issuance_serial` | one request at a time, none dying: one payment per lock, what two applications that name one deposit can cost the others, and an accepted activation lists | 2 assets naming 1 of 2 deposits, 2 vaults, 1 USDC each; pause, dispenser, manual distribution | @serial@ |
| `issuance_overlap` | what rows and boxes claim stays true when two requests overlap and die anywhere, a lock noted as paid is not paid again, and the whole refines the life of an asset | 1 asset, 2 requests, 2 vaults, locks of 0 to 2 USDC; die, dispenser | @overlap@ |
| `issuance_retry` | *violation*: does a lock pay once when a request dies and is repeated? | 2 assets, 1 request, die | – |
| `perps` | books against boxes, account against books, share price, both liquidation formulas, entry margin | two instances: the pool's groups beside one position; two positions over a pool that deposits and fees fill; 2 LPs, 1 trader, prices 0.96 and 1.00, two maintenance margins, 2 calls per group | @perps@ |
| `perps_losing_close` | *violation*: can a trader at a loss with margin left close? | as above | – |
| `options` | account against books, tokens against shares and boxes, dilution; is the price always a middle one of recent quotes? | three instances: the pool's groups with 2 LPs beside one option, and the market with 1 buyer and 2 options at 1.05, each with 3 sources reporting 1.00 or 1.10, 2 days; the oracle with 1.04 as well, 4 days, quotes stale after 1, 1 to 3 required sources; 2 calls per group | @options@ |
| `staking` | the STRIKE the contract lacks, circulation, locks | two instances: the token's groups beside stakes that earn nothing; stakes and rewards; 2 stakers, stakes of 4 with 0 or 10 days' lock, one schedule, one deposit of rewards, 2 calls per group | @staking@ |
| `access` | do parallel requests, reloads, crashes and lost answers cost a session, fork one or split an account? | three instances: 2 parallel requests with expiring tokens; 2 overlapping sign-ins; sign-ins of 2 wallets with one placeholder e-mail | @access@ |
| `portal` | the ten modules around the contracts | one instance each: 2 users, 2 wallets, 2 deposits, 2 stages, 2 requests or uploads, 3 ticks | @portal@ |

**Why these bounds.**  Settlement's hazards need two groups for one order, either from
two trades or from a retry, and two runs that write one row; a third of either only
repeats the pattern, and the theorems hold for any number.  `SETTLEMENT_MAX_RETRIES` is
3 in the code; 1 or 2 suffices for a retry to meet its own earlier group and for the
limit to be hit, since the limit is a constant.  Two USDC cover one lock of the size of
the trade's price; a smaller lock makes the contract's amount check fail. In issuance,
two assets are what one lock needs to be paid from another's deposit, and in
`issuance_serial` both name the same deposit while another lies in the account; two
requests are what an overlap needs, and a deposit of two USDC under a pledge of one lets a
lock be smaller than its deposit; `MaxPayouts = 2` allows the second, wrong payment.

Two calls on one transfer show what a group can book twice; a third adds the same again.
`MCPerps`, `MCOptions` and `MCStaking` let the calls of a group follow each other
(`Consecutive`; in the modules other calls may come in between, which is more than the
chain allows) and leave out groups that book less than was paid, since what is booked is
then covered the more; a paused contract of the two markets is unpaused next
(`BriefPause`), since a pause only takes steps away.  Each has instances, chosen at the
start, that share the bounds out: the groups of the pool or of the token beside one
position, one option or stakes without rewards, and the market or the stakes beside
fewer groups.  The
perpetuals' numbers are chosen at the edges: the move from 1.00 to 0.96 takes almost all
of a 20x long's margin, and the way back a short's, so the losing side can be
liquidated; taking 0.45 out of a fresh position leaves 2.65%, allowed under a
maintenance margin of 2.5% and not of 3%, and liquidatable at an unchanged price once
the admin raises it; `ReserveTarget` lies between two reachable balances, so that two
branches of `_route_fee` run; an LP burns half or all of a first deposit's shares;
trading fees are handed to an (almost) empty pool, so that shares come to cost more than
an ALGO, and profits paid to traders make them cost less; `MaxPositions = 2` has both
sides open together.  Four inner transactions of the pool (`MaxPoolTxns`) are two
deposits, or a deposit, a payout and a withdrawal.

The options' strike lies between the two quotes, so that calls and puts both pay and
both expire worthless; a deviation of 5% refuses the move between the quotes, which the
keeper's override then makes; reports of one, two and three sources reach each branch of
the median.  The oracle's own instance has a third quote in between (1.04, less than 5% from
1.00), so that the price moves where a jump is refused, a report of one source, and days
enough for the others' quotes to grow stale beside it.  In staking, amounts of 4 with a multiplier of two make the weights differ,
a burn returns what a release then mints past the supply, and `MaxUint = 400` is small
enough that a product does not fit.  In `access`, one session and its successor show a
forked chain; a query beside the fetch of the user is what a single flight joins; the
third instance lets two wallets with one placeholder e-mail sign in at once.  Two
days of the price feed and one of analytics are counted in ticks, so that a snapshot
grows older than a day within the run.  The instances of the portal share no variable:
`MCPortal` starts in one of them and moves in that one only.

`Direct`, the trades paid from the admin's wallet, is empty in the runs; the refinement
is proved for any set of them.  Symmetry is used for orders, runs, groups, trades, LPs
and stakers, never in a run with a liveness property.

**Deadlock** is not checked: each system may come to rest (all orders released, all
trades closed and deliveries used up, the bounds reached).

**Properties.**  The comments in the modules state each property beside the code
behaviour it is about. The deeper ones:

* `DeliveryVersusPayment`: an order is released exactly when one group that delivered
  tokens for it was executed, whichever trade, run or retry sent it.
* `SettledIsOnChain`: a SETTLED row names an executed group of its own trade, although
  two runs overwrite one another's id and status.
* `ImplementsLedger`: the composition is a `TradeLedger`.
* `EventuallyClosed`, `OpenTradesHaveARun`, `RunsMoveOn`: no path through timers and
  catch blocks gains an attempt or loses the trade.  The last two are what the first
  rests on, as safety: an open trade has a run at work, and no step of anybody takes a
  run further from its end or past the limit of retries.
* `PayoutsWithinLocks`: a lock pays once, to the seller or back, whoever calls in whatever
  order.
* `RowNamesReadyVault`: a row is written after the transactions it describes, on every
  path and overlap.
* `ImplementsAssetLife`: an asset is listed when its pool is seeded, and the USDC that a pool is seeded with was withdrawn from the vault
  that the asset's own lock was paid to, seven transactions and any number of deaths and
  overlaps earlier.
* `LocksCovered`: the one account of all issuers is short of the pending locks by at most
  what applications cite of one deposit beyond its amount (nothing looks for an earlier
  use) and what locks were paid again; nothing else in the service takes one issuer's
  USDC for another's.
* `OnePayoutPerLock`: holds while requests neither die nor overlap; `issuance_retry` shows
  that the condition is needed.  `NotedIsFinal` is what remains without it: a lock whose
  row no longer says PENDING, and of which no request that read PENDING is under way, is
  not paid again.
* `StatusTellsPayment`: what the contract writes is right even though what it reads is
  not.
* `EventuallyListed`: the guards of an activation's steps agree; the exceptions it names
  are the ones the code has (a pause, the dispenser, a vault emptied by hand).
* `PoolCoversBooks`: margins, premiums and liquidity lie in one account, and books and
  account differ by what the calls of one group booked again of one payment, by no more;
  `BooksMatchBoxes`: the saturating subtractions never skip.
* `SharePriceKept`, `NoDilution`: two truncating divisions and fees kept outside the
  liquidity do not lower the *booked* value of a share (what the account holds of it is
  `PoolCoversBooks`).  `SharesAccounted`: tokens that move without their boxes, and burns,
  leave a token without a share only where withdrawals of one group rest on one transfer.
* `LiquidatedBeyondPrice`, `HealthyAtEntry`: rounding and changed parameters do not turn
  two formulas against each other.
* `PriceIsMiddle`: an old quote neither counts nor pulls; of three sources, one cannot
  move the price beyond the other two.
* `ShortfallIsCompounded`: compounding credits STRIKE nobody sent, and stakes of one group
  may rest on one transfer; the contract owes that much more than it holds and no more.  `CirculationAccounted`, `LockKept`: through
  releases, burns, second stakes and extensions.
* `RefusedRefreshIsDead`, `OneLiveSessionPerLogin`, `OneAccountPerWallet`: service and
  page keep together what neither keeps alone.
* `VettedBeforeTrusted`, `ApprovedOnLiveGrant`: trust shown or used rests on an answer
  about that user, or on a grant good at the moment of the answer.
* `BuyerWasChecked`, `OneMoveAtATime`, `DepositMatchesApplication`,
  `ReturnsAreConfirmed`, `SignedByOwner`: a late answer is never applied to another
  wallet, form or review.
* `HashIsVerifiable`, `ChangeSpansADay`, `PricesOfTheirTime`: a hash, a change and a bar
  are about what they claim.

## 4 Fairness

*Settlement* (`FairSpec`): weak fairness of `RunStep(r)` for each run — the event loop
resumes a handler whose await is over, and a timer fires — and of `TxStep(x)` for each
group: the network executes, rejects or drops it (its validity ends: by the SDK's
default, after 1000 rounds).  Neither gives success: an attempt may fail for ever until
the limit closes the trade.  The run assumes that the process does not restart and the
database answers, because without them the property is false of the code: timers live in
memory and `findPending` has no caller.

*Issuance* (`FairSpec`): weak fairness of `Step(r)`, the event loop and a node that
answers. Nothing forces a request to arrive; the property starts where the escrow
accepts the release.

Deliveries, deposits, opt-ins and admin calls have no fairness.  Contracts on their own
have no liveness: nobody is obliged to call them.  The pages are driven by users, and
their promises are about what may not happen.

## 5 Proofs

All are checked by TLAPS for any number of orders, trades, runs, assets, vaults,
requests, LPs, positions, options, stakers, sessions and uploads, any value of the
bounds, and any set of faults.  They rest on the assumptions the modules state on their
constants (`EscrowAssumption`, `PoolAssumption`, …: amounts are naturals, rates are at
most 100%, the oracle has three sources, what is summed over is finite) and on nothing
else, except for the two theorems that name
hypotheses (`OpenTradesAreWorkedOn` and `EntryIsHealthy`, discussed with their modules),
and for `NobodyIsTrustedUnvetted`, whose
hypothesis is that "no profile" is not one.  Every safety invariant and action property
of the passing runs is proved but one (see the end of this section).  The larger
strengthenings (`AccessInv`, `LocksAreBacked` with `AccountBalances` and `LocksAreCited`) were checked by TLC on
the runs' instances before they were proved.  The two `TypeOK`,
`ReleasedIsFinal`, and what follows from stronger properties (`RetryBudget` from
`RunsMoveOn`, `ListedIsSeeded` from `ImplementsAssetLife`) are proved and not run.

**SumTheorems.**  Books are sums over boxes, so five of the modules need to know what a
step does to a sum.  An induction over finite sets needs an operator as a parameter,
which the provers cannot instantiate; instead, `SumWithout` (a sum is one term plus the
sum of the others) takes a *smallest* set of keys for which it fails, which exists
because the strict subsets of a finite set are well founded, and refutes it from the
library's definition of the fold.  The rest follows: `SumChanged`, one term more or
less, sums of equal terms, of naturals, of terms that are at most others.

**SettlementProofs.**  The contract: `EscrowTypeCorrect`, `PayoutSafety`
(`PayoutsWithinLocks` with the type invariant is inductive), `ReleaseIsFinal` (an action
property from the same invariant).  The service: `TypeCorrect`; `UsesEscrow` (the
composition implies `EscrowSpec`, hence `PayoutsStaySafe` inside it);
`SettledRowsAreTrue`, `PaymentIsDelivery`, `UnfreezeIsLate`.  `SettledIsOnChain` is not
inductive: a run writes SETTLED because of what it *remembers*, not because of what it
sees.  The invariant therefore says what is remembered:

    IInv == TypeOK                      shapes
         /\ GroupInv                    RunsHoldTheirGroup: the id a run holds is a group of its
                                          trade, executed once the run is past the wait
                                        RowsNameTheirGroup: the id in a row is one of its trade
                                        SettledIsOnChain
         /\ DeliveryVersusPayment
         /\ GroupsDelivered             an executed group has delivered its trade's lot
         /\ UnfrozenAfterDelivery

with `GroupsOnlyGrow` (a sent group keeps its trade, an executed one stays executed)
carrying it across the steps of all the other actors.  The refinement
(`LedgerIsImplemented`) shows that `Confirm` of a backed group is `Exchange`, a change of
a row is `Report`, `Retract` or nothing, an escrow call is `HoldFunds`, `Refund` or
nothing, and all else stutters.  `LedgerSafe` is what the ledger promises to whoever
relies on it, and through the refinement what settlement does.  `RetriesAreBounded`
counts: what a trade has broadcast *plus the attempts its runs still have* is at most the
limit times its deliveries (`BudgetInv`).  A delivery adds a run with the full limit, a
broadcast moves one from the second term to the first, a timer and a catch block keep
the sum, a crash lowers it.

Of `EventuallyClosed`, what does not need fairness is proved.  `RunsNeverTurnBack`: the
measure `ToGo` (nine for each attempt left, and the awaits left in this one) falls with
every step of a run, its own or a failed write's, and nobody else raises it, so a run
makes at most `9 * MaxRetries + 8` steps.  `OpenTradesAreWorkedOn`: a run that ends has
closed its row (`RunsCloseRows`), so a trade that is neither SETTLED nor FAILED has a run
at work; its hypothesis `ProcessLives` is that of the liveness run, no crash and no
refused write, without which the property is false of the code.  That each run keeps
stepping is the fairness, and stays with TLC.

**IssuanceProofs.**  For the contract: `IssuanceEscrowTyped`, `StatusIsTrue`.  For the
system: `TypeCorrect`, `EscrowColumnIsTrue`, `RowsNameReadyVaults`,
`ListedAssetsAreSeeded`; `UsesIssuanceEscrow`, hence `StatusStaysTrue`.  Again the rows'
truth rests on what a request in flight knows:

    IInv == TypeOK
         /\ RequestsKnow     by its program counter, what a request has done on chain:
                               its vault exists and is opted in, its payment was made, its pool is seeded ...
         /\ OneSeeder        one request at a time seeds a pool, for a pool is
                               bootstrapped once: so the LP tokens it sends are there
         /\ EscrowColumnTrue /\ RowNamesReadyVault /\ ListedIsSeeded

`KnowledgeStays` shows that no other step undoes what a request knows, `KnowledgeGrows`
that its own step adds what the next counter claims, `SeederStep` does the same for the
pool.

A lock may be paid twice, as `issuance_retry` shows, and a deposit may be named by two
applications; the two theorems about money say what remains, with no hypothesis.
`NotedLocksAreDone`: every request pays only if it has read PENDING, and no row ever says
PENDING again (`NotesStay`); so once the row says otherwise and nobody who read PENDING
is under way, nobody sets out to pay (`NobodySetsOut`) and only who has set out pays
(`PayersAreAbout`).  `PendingLocksAreCovered` keeps three things together:

    LocksAreBacked    a recorded lock is of the pledged amount and names a confirmed
                        deposit not smaller than it
    AccountBalances   the account, and what every lock was paid, are what the deposits brought
    LocksAreCited     the locks sum to what is cited, deposit by deposit

and `CoveredByAccount` draws the conclusion: the locks pending are the locks cited less
those paid once, and each deposit is cited by at most its amount and what it is cited
beyond.

The refinement (`AssetLifeIsImplemented`): a paymentThe refinement (`AssetLifeIsImplemented`) has no such condition.  A payment by the escrow
is `Pay`, a write of the row's escrow column `Note`, the LP tokens' arrival in the vault
`OpenMarket`, the last write of an activation `List`, a rejection or a second deployment
`Delist`, and all else stutters.  That a market was paid for by its own asset's lock is
not visible in the step that opens it, so the invariant follows the money through the
pipeline:

    LifeIsFunded == a vault that holds USDC, and one whose pool is seeded, belongs to an
                      asset whose lock was released to a vault
                 /\ InOrder   a request past the withdrawal is of such an asset, and one
                                that activates is of an asset that pledged USDC

`OneSeeder` is needed once more: the LP tokens that arrive are those of the pool which
this request seeded.  `AssetLifeKept` draws the consequences inside the abstract module
and hands them to the service.

**PerpsProofs.**  As in the next two modules, the group under way is part of the state
and nothing is assumed of who calls what in it.  What a property says of an account and
its books is not inductive then, for a transfer is in the account before a call books it:
the strengthenings count what of the transfer is still unbooked (`Spare`, `SpareLp`,
`SpareBurn`, `SpareStake`).  A call either lowers that or raises the history of what was
booked again, or both, by together what it books.

`SharePriceIsKept`: `SharesFor` and `AlgoFor` are quotients, a quotient
times its divisor is at most the dividend (`ScaledIsNat`), so shares are bought dear
(`BoughtDear`) and sold cheap (`SoldCheap`).  `BooksMatch`: open interest is a sum over
the boxes, so it is at least the size of each open box, and a subtraction that the code
would skip never comes up.  `PoolCovers`: the account holds the liquidity *and* the sum
of all margins, up to its fees; every transaction the pool sends is booked as at least as
much.  `LiquidatedAtPrice`: `liquidate` divides the loss, `_calculate_liquidation_price`
the margin that is left; the two truncations fall on the same side for a long and a
short, so whenever the first allows a liquidation the price is at or beyond what the
second gives.  Only a maintenance margin raised over the whole collateral is excepted:
there the code's formula subtracts nothing and gives the entry price.  `EntryIsHealthy`
has hypotheses on the configuration: no position is below 10 ALGO (`SizesAboveMinimum`,
the code's minimum size) and leverage times opening fee plus maintenance margin stays
below one (`LeverageLeavesMargin`; the code's 20x, 10 and 250 basis points use 52% of
it).  They are hypotheses and not assumptions because the admin may set other values.
The one basis point that `HealthyAtEntry` allows is real: it is what the division in
`remove_margin`'s check rounds away.

**OptionsProofs.**  `SharesAreNotDiluted` is the argument about quotients again;
`PoolStaysCovered` needs that everything the account sends is booked as at least as much
(`SendsLowers`).  Both need that amounts are numbers, which is the work: a premium and a
payoff are numbers because the oracle's price is, and that because a set of at least
`min_sources` of three prices has a smallest and a largest and so a middle one
(`UpperMiddle`, `MedianIsPrice`).  `SharesAreAccounted` sums over the LPs twice, once
over their tokens and once over their boxes: a transfer between LPs moves the first
without the second, and a withdrawal takes from a box at most what it has.

`PricesAreMiddle` is about the oracle alone and, because every step of the options
market is an oracle step or leaves the oracle alone (`MarketStepsOracle`), about the
oracle in use.  The code finds the middle of three by comparisons and of two by a
truncated mean; `SecondIsMiddle` and `MeanIsMiddle` show by counting that at least half
of the fresh quotes lie on either side of either.  That a quote was fresh when it was
counted is read off the stored times after the step.

**StakingProofs.**  `CirculationIsAccounted` and `LocksAreKept`.  The invariant types
the boxes and the schedules and says that nothing was minted or burned before the token
was created; `JoinedLock` gives the later of two locks.  `ShortfallIsBounded` needs that
`totalStaked` is the sum of the boxes (`BooksInv`): a compound adds to both what was
recorded as distributed, an unstake takes the same from the total, its box and the
account.

**AccessProofs.**  `WalletsHaveOneAccount`, `RefusalsCostNothing` and `ChainsStaySingle`
have one invariant, `AccessInv`, over sessions, requests in the service and requests in
the page:

    AccessInv == AccessTyped
              /\ CallsInv        by its step: what a request carries (Staged), what it has
                                   read of its session (Knows), to which account a
                                   wallet's log-in goes (Placed)
              /\ OwnersInv /\ WalletsInv   an unclaimed wallet leads to its automatic account
              /\ FreshLogins     the answer of a log-in is the only holder of its token
              /\ FlightsInv      one refresh at a time, of the token in the store
              /\ ChainsInv       unless a page was unloaded in the middle of a refresh: one
                                   live session per log-in, and the refresh that has read
                                   it is the only one that can spend it

The service alone forks a chain when two refreshes read one session; the page alone does
not know which of its tokens are dead.  The proof is where the two meet: the page's
single flight is what makes the service's read, revoke and create safe, and the
exception `abandoned` is exactly where it ends.

**PortalProofs.**  One section per module, each with an invariant that says what an
answer under way is about:

| theorem | what carries it |
|---|---|
| `NobodyIsTrustedUnvetted` | `KycInv`: whatever was written of a user, and what a handler has read, goes back to a GREEN answer for an applicant of that user, or to an administrator's decision (`Informed`); such facts only accumulate (`Grows`) |
| `ApprovalsAreGranted` | an action property; `WhitelistInv`: the chain's clock is not ahead of the service's; `WholeUnits`: rounding hides less than a unit |
| `BuyersAreChecked` | `SwapInv`: an answer is shown only if its lookup is of the wallet now connected (`LookupsAreCurrent`); a holding once free stays so |
| `MovesAreSerial` | inductive as it stands |
| `ApplicationsMatchDeposits` | `ClaimsMatch`: whatever names a deposit (a page, a request under way, an application) states what was sent, and two that name one deposit are the same claim |
| `ReturnsAskFirst` | `AdminInv`: a snapshot that shows the escrow settled is right for good; a rejection in a loop under way, or in one of its calls, was confirmed or is of a settled escrow (`SnapshotsAgree`, `LoopsAsked`, `CallsAsked`) |
| `OwnersSign` | the open request waits in the connected wallet, because the effect's cleanup removes it with the wallet |
| `TokensAreVerifiable` | but for development mode files are stored before their rows, rows are never removed, a deployment knows at each step what it has read |
| `ChangesSpanADay` | `FeedInv`: the row of a day before was that when the page asked, and is not newer than the latest, in either order of the two reads (`RequestAgrees`, `Spans`) |
| `BarsHoldTheirPrices` | `AnalyticsInv`: a bar is of one minute and was built from events of it; extremes are taken from a finite set of events seen (`GreatestExists`) |

**Only model-checked.**  The liveness properties `EventuallyClosed` (beyond the two
theorems above) and `EventuallyListed`, which need fairness and so are out of the prover's
reach.  `OnePayoutPerLock`: it holds of the instance of one request that never dies, and a
theorem would need that as a hypothesis which no line of the code provides;
`NotedLocksAreDone` is the part that needs none.


## 6 Disagreements found

* **settle_pending_lookup** (`settlement.service.ts:254`).  A retry whose group meets an
  assertion because the trade's earlier group is still pending looks that group up,
  finds no confirmed round, and closes the trade FAILED; then the group executes.  The
  comment above says such a race is treated as SETTLED.
* **issuance_retry** (`issuance-escrow.algo.ts:87`, `asset.service.ts:226`).  The status
  is eight bytes of which the most significant is read, always 0: "Escrow not in PENDING
  state" never fires.  A request that dies between the confirmed release and its row
  write leaves PENDING, and the next activation or a rejection pays the lock again from
  other issuers' USDC.
* **perps_losing_close** (`perpetuals_pool.py:476`).  A position at a loss with margin
  left cannot be closed by its trader.

## 7 What is left out

* Formatting, logging, notifications, read-only queries, HTTP, layout.
* *Settlement*: the opt-in at startup.
* *Asset service*: the read queries.
* *Groups of the Python contracts*: those that use a payment at index 1 for one call and
  a transfer at index 0 for another ([TxnGroup](#txngroup)).
* *Signature collector*: nothing provides or calls it.
* *Perpetuals, options*: fees, limits, thresholds and the admin's address are constants;
  statistics and timestamps nothing reads; the pool methods that are never called.
  `keeper_settlement.py` decodes a layout the market does not write and passes no box
  references, so its calls fail.
* *Oracle*: the confidence it returns, the setters of staleness and deviation, which
  are constants, and an emergency price that an administrator makes up by hand.  The perpetuals read any price at any time, which
  includes every price the oracle makes.
* *STRIKE, staking*: `revoke_vesting`, which changes nothing, the transfers of roles,
  and the market addresses, which nothing reads.
* *Compliance, registry*: AML screening, reporting, creation of rules, the change of the
  registry's oracle account.  *Transfer restriction*: a template no service calls.
* *Identity*: profile queries.
* *Web*: tabs that share a token store; the portfolio, landing, market and asset lists, and the price a page reads from
  the pool itself: they display.  The gateway and the notification service decide
  nothing.
* Generated artefacts (`*.teal`, `*.arc56.json`) and empty packages
  (`settlement-contract`, `smart-asa-factory`).

Some behaviours of the code are kept in the models although no property speaks of them:
the keeper's rounds, which all use the emergency override, because `keeper_oracle.py:159`
looks for `update_prices` and the contract has `update_price`, so the deviation limits
none of them; an option's collateral, which its box calls "locked in pool"
(`options_market.py:45`) and which nothing locks, so that a settlement may have to wait
for the next deposit;
a quote that arrives late, a gate that stays on "checking" after an error, a whitelist
box that a removal leaves on chain, an annual volume that is always 0, verdicts lost for
an applicant that was replaced, an orphaned deposit after a refused application, trades
that analytics counts twice.

## 8 Plan

Done, in this order: `Escrow` → `Settlement` with `TradeLedger` → their proofs →
`IssuanceEscrow`, `TokenVault`, `Issuance` → its proofs → `PerpsPool`, `PerpsMarket` →
`Oracle`, `OptionsPool`, `OptionsMarket` → `StrikeToken`, `Staking` → `Identity`,
`WebClient` → `Kyc`, `Whitelist` and the pages → `IssuerDesk`, `Documents`, `PriceFeed`,
`Analytics` → the proofs about options, perpetuals, staking and the issuer's side → the
lemmas about sums and every safety property that had only been checked → the safety half
of settlement's liveness, `AssetLife` with its refinement, the oracle's median → groups
in which several calls rest on one transfer, deposits that two applications name.

What would come next:

1. `PerpsMarket` over `Oracle` instead of a free price, with its proofs.
2. Groups with two transfers, for the payment at index 1.
3. The events from identity to compliance, when the services agree on their header.
