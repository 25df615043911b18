# Caifu Markets: TLA+ models and proofs

Caifu Markets is a prediction market on BNB Chain. Users trade YES/NO tokens
of a question against an automated market maker; the API creates and seeds
markets, indexes their events, and resolves them. This directory holds TLA+
modules that model the contracts and the parts of the API that keep state, the
TLC configurations that check them, and proofs that TLAPS checks.

Check one run with `tlc -config Admin.cfg MC_Admin`, one set of
proofs with `tlapm SettlementProofs.tla`.

## The system

### Parts, their state and how they meet

| part | state | operations | talks to |
|---|---|---|---|
| `ConditionalTokens.sol` | ERC1155 balances, approvals, payout vectors, collateral | prepare, report, split, merge, redeem, transfer, approve | collateral token |
| `FixedProductMarketMakerFactory.sol` (FPMM) | reserves, pool shares, two fee books | addFunding, removeFunding, buy, sell, withdrawFees, share transfers | ConditionalTokens, USDF |
| the factory in the same file | the allowed collateral, the default fee, the makers created | createFixedProductMarketMaker, its owner's settings | ConditionalTokens |
| `DirectCTFOracle.sol` | its own index of conditions, roles | prepareCondition, resolve, invalidate, reportPayouts | ConditionalTokens |
| `DirectOracleAdapter.sol` | prepared conditions, cached vectors, owner, managers, allowed oracles | initializeCondition, requestResolve, syncResolution, administration | oracle, ConditionalTokens |
| `USDF_Mainnet.sol` | USDF supply, USDT held | buy, sell, mint, rescue | USDT |
| `services/marketCreation.ts` | `markets` rows | createMarketInternal, seedMarketInternal | Postgres, the deployer's transactions |
| `services/indexer.ts` | Redis queues and locks, `market_sync`, `trades`, `liquidity_events`, `candles_5m` | tx loop, sweep loop, processLogs | chain RPC, Redis, Postgres |
| `routes/admin.ts`, `admin-resolve.ts`, `redeem.ts` | `markets.status`, `resolutionData` | resolve (twice), nuke, restore, redeem, seed, backfill | Postgres, the deployer's transactions |
| `workers/reconcile.ts` | block cursor, reserves in memory, `position_balances` | recon cycle, event handlers | chain RPC, Postgres, Redis |
| `workers/liveIngest.ts`, `positionIndex.ts` | watchers; position id to market | watch, refresh; hydrate, append | indexer |
| `lib/backfillFpmm.ts` | the indexer's tables | replay of a pool's history | Etherscan, chain RPC |
| `services/auth.ts` | nonces, sessions | issue, verify, validate, revoke | Postgres |
| `websocket.ts`, `lib/wsHealth.ts` | sockets, subscribers, counters | connect, heartbeat, relay | Redis |
| `lib/rpcLimiter.ts` | tokens, backoff | withRpcLimiter | every RPC caller |
| `routes/trade.ts`, `frontend/src/lib/amm.ts` | none | quotes | FPMM views |
| `routes/markets.ts` | `market_spot_points`, bootstrap rows, caches | summary, metrics, stream, spot points | Postgres, chain RPC, Redis |
| `routes/admin.ts`, `tileBackgrounds.ts` | `tags`, tile pictures and their files | edit, synchronise, upload, delete | Postgres, files |
| `routes/comments.ts`, `profile.ts` | comments, users | list, post, write | Postgres, Redis |
| `db/migrate.ts`, `index.ts` | the schema, the process | migrate, start, stop | Postgres, every worker |
| market page, swap page, profile page | order, swap, tape, comments, chart points, balances, portfolio | trade, swap, redeem, stream, poll | API, contracts |
| lists, cards, create form, admin pages | copies of what the API answered | load, reload, cancel, submit | API, contracts |

A user's trade is a transaction to the FPMM, which splits or merges at
ConditionalTokens. Its event reaches the API by webhook, by `tx-notify` or by
a watcher, as the hash of a transaction, and again when somebody reads the
market and a sweep is queued. Two loops in one process then apply it to the
same tables. An admin's resolution goes API, adapter, oracle, ConditionalTokens
and comes back as a receipt, after which the row is updated.

### What is hard

- **Interleaving.** Every `await` is a switch. Two loops of the indexer load,
  change and store one market's reserves without a lock; two admins resolve,
  or seed, one market at once.
- **Half-done work.** Trade row, liquidity row and candle are three
  statements; transaction and row are in two systems. A failed call or a
  restart lands between them, and the client tries again.
- **Delivery.** A transaction is named several times, before it is mined, out
  of order, or not at all.
- **Two records of one fact.** Reserves in the pool and in the index, a result
  on the CTF, in the oracle's index, in the adapter's cache and in the row.
- **Answers out of order.** A page has several calls in flight, cancels few of
  them, and keeps what comes last; timers, streams and polls change the same
  state.
- **Rounding.** Quotes, fees and payouts divide integers.

### What makes each part correct

- ConditionalTokens: never owes more than it holds; a result is final.
- FPMM: fees drawn are fees collected; no trade lowers the product of the
  reserves; the books add up.
- USDF: purchases, sales and fees cost the machine nothing; what it lacks to pay
  every holder is at most what its owner minted unpaid and took out.
- Oracle stack: one result per condition, reachable through the adapter; the
  cache is never wrong.
- Indexer: derived rows have their source, history is not rewritten, each
  event counts once while nothing disturbs it, every named transaction is
  indexed, sweeps end.
- Reconciliation and backfill: the cursor passes nothing by accident, rows
  carry what the listed history added and traded, the worker catches up.
- Resolution: the row follows the chain and reaches it; redeem burns winners.
- Creation: a market ends up with one funded pool for its own condition, and
  the form says what was paid.
- Sessions: a nonce signs in once, cookie, row and screen agree, nothing but a
  logout or the clock ends a session.
- Limiter, start: the rate is kept; whoever serves has the whole schema.
- Reads and pages: a TVL answered as fresh is, nothing newer is replaced by
  something older, an order keeps the price that was signed, and what a page
  reports is what happened.

## The modules

| module | models | composed with |
|---|---|---|
| `ConditionalTokens` | the ledger, positions of any depth | |
| `MarketMaker` | one FPMM of two outcomes with the tokens around it | |
| `IndexedReserves` | the reserves `handleFpmmEvent` derives from events | extends `MarketMaker` |
| `Factory` | market makers created, with their terms and positions | |
| `Resolution` | the abstract promise: prepared once, reported once | |
| `Oracle` | adapter, oracle and the conditions of the CTF | implements `Resolution` |
| `Indexer` | both loops, queues, cursor, tables | |
| `Reconcile` | the reconciliation worker's cycles, cursor and reserves | |
| `LiveIngest` | the watchers of pools and of the factory | |
| `Backfill` | replays of a pool's history beside the indexer | |
| `Settlement` | resolve, redeem, nuke, restore and the row | |
| `MarketCreation` | creation and seeding by the API | |
| `CreateForm` | the form that creates a market and pays into its pool | |
| `Sessions` | nonces, sessions, cookies, two tabs | |
| `RpcLimiter` | the bucket and the shared backoff | |
| `Startup` | migration, start and end of processes | |
| `LiveUpdates` | sockets at both ends | |
| `MarketReads` | summary and metrics with the rows they write | |
| `LivePage` | the market's page: summaries, stream, poll, tape | |
| `SpotPoints` | the points of the chart, recorded by pages | |
| `Discussion` | comments: routes, broadcast and page | |
| `TradeDesk` | quotes, and an order from form to receipts | extends `MarketMaker` |
| `Vending` | USDF and the swap page | |
| `Tags`, `Backgrounds` | curated tags, pictures behind tiles, and their pages | |
| `MarketList`, `HomeCard` | the page of all markets, the card of the home page | |
| `Holdings` | balances, redemption and portfolio of changing wallets | |
| `ConditionalTokensProofs` | theorems of one ledger | extends `ConditionalTokens` |
| `ContractProofs` | theorems of both ledgers of a run and of the oracle stack | extends `Oracle`, `MC_ConditionalTokens` and `ConditionalTokensProofs` |
| `MarketMakerProofs` | theorems of the pool, its reads and the pages that trade | extends `MC_Pool` and `MC_Pages` |
| `IndexerProofs` | theorems of the indexer | extends `Indexer` |
| `SessionsProofs` | theorems of sessions, backfill, limiter, start and comments | extends `MC_Requests` |
| `CreationProofs` | theorems of creation, form, list, card and factory | extends `MC_Markets` |
| `SettlementProofs` | theorems of settlement, tags and pictures | extends `MC_Admin` |
| `ReconcileProofs` | theorems of the worker and the page's sockets | extends `MC_Reconcile` |
| `MC_*` | instances for TLC | extend one module, instantiate others |

Operators named as the mutant of another (`RedeemPayoutCeil`, `PollingNever`, ...)
are faults that were tried: with the mutant in place of the definition the
property it is paired with in `PROJECT.json` fails. `TypeOK`, where a module has
one, gives the types of its variables; the proofs start from it, and of the runs
none lists it.

**ConditionalTokens.** A position is the collection it stands for, a function
from conditions to index sets, in place of the hash the code computes; hashes
are taken to be free of collisions. `SplitPosition`, `MergePositions` and
`RedeemPositions` follow the code's three cases (from collateral, from a deeper
position, from a partial index set) with its order of checks. `Solvent` is
stated over *worlds*: for every way the open conditions may still turn out,
the face value of all positions is covered.

**MarketMaker.** Integer arithmetic is the contract's, `ceildiv` and truncation
included. `feeWeight`, `withdrawn` and `allWithdrawn` are `feePoolWeight`,
`withdrawnFees` and `totalWithdrawnFees`. The collateral at ConditionalTokens is
`pot`; `SplitSet` and `MergeSet` are calls that accounts make there themselves.
Rounding may leave a holder's withdrawable amount negative, in which case
SafeMath reverts that holder's calls until more fees come in: an action is then
disabled, and an instance may stop. Shares are ERC20 tokens: `MoveShares`,
`MintShares` and `BurnShares` are `_transfer`, `_mint` and `_burn`.

**Factory.** A market maker is made by a clone whose constructor takes its terms
from the call. `Constructed` is that constructor with its `require`s,
`AddCondition` the recursion that lists a position for each combination of
outcomes. Who may call, and the settings a call that names none falls back on,
are in `CreateFixedProductMarketMaker`; `TermsHold` says that a maker has the
terms its caller was given. A call names each condition once, as the API's only
call does with its one: for a condition named twice the constructor would make
positions no split can reach.

**IndexedReserves.** Each FPMM action is conjoined with what the indexer does
with its event, in order and once. An event carries what the contract computes
for it (`AmountAdded`, `SendAmount`, `TokensBought`, `TokensSold`), not the
difference that the pool shows afterwards. `Less` is `subtractWithFloor`. The two
books part at the first buy, so they are compared from any distance: `Drift` is
what the trades seen so far (`owed`) do not explain of it, and only a
subtraction that is cut at zero changes it, for good (`DriftStays`).

**Oracle.** A condition is a question and a slot count, since its oracle is
fixed. The actions are the external functions of both contracts, each with the
calls it makes; who may call what follows roles, managers and owner. The
slot count 256 is cast to zero by `uint8`: `U8` stands for 256 and a count equal
to it is in the instance.

**Indexer.** `tx` and `sw` are the two loops, each a record of where it is
and of the state it holds in memory. One event goes through four steps, as it
goes through four awaits: rows for the reserves, the trade, the liquidity row,
the candle. A market begins `InitLag` blocks below the head or at `Baseline`,
whichever is higher; the later clamps to that setting find no cursor below it.
Reserves are the multiset of the events they account for, so
that counting twice is visible. `todo`, here and in `Reconcile`, is the set of
events still to handle, taken in the order of their numbers. `left` holds what
the environment may still do.

**Reconcile.** As the indexer, with the worker's own handler and its reserves
`mem`. `cycle` is what a cycle holds between its awaits, and there may be two:
the interval fires while one is still on its way if the flag was cleared, which
the idle path does twice. `base` is what a pool's reserves in memory were first
read with: the latest row, or nothing where that query failed. A statement that
fails ends the cycle with the reserves in memory changed (`HandleFails`).
`passed` collects the events the code gives up on purpose or by a swallowed
failure, so that `CursorHonest` says what is lost otherwise: nothing. ERC1155
transfers are left out, since no look-up of the position index succeeds.

**LiveIngest, Startup.** `stage` and `pc` follow `index.ts`: the schema first,
then the server, the indexer, the watchers and the port. A migration is one
statement at a time, since it runs outside a transaction, and processes run it
side by side. The rename of the old `trades` table is the one statement that is
not idempotent; `trades` and `renamed` say which table carries which name.
`index.ts` imports `./scripts/migrate`, a file that is not in the repository;
the migrations modelled are those of `db/migrate.ts`, which nothing imports and
which exports the function that is called. Its rename looks for a column
`takeraddress`, while Prisma makes `takerAddress`: a table with those names
(`"cased"`) is not recognised, the index over it fails, and the process never
serves. Refreshes of the watchlist may overlap (`Refreshes`), since the interval
does not wait.

**Backfill.** `req` replays the transactions that Etherscan lists, page by page;
the indexer appears as whatever it may store of the same events meanwhile. Events
of a pool are numbered in the order of the chain, and `Unlisted` transactions are
those that Etherscan does not return: what is stored is then true of the listed
history. `FPMMFundingRemoved` has no case in the code: `Replayed` is what the rows
carry, `History` what they should, and the two agree until the first removal.

**Settlement.** `req` holds requests in progress, `sent` and `mined` the
deployer's transactions. `Write` covers both routes: only the admin route
stores an outcome.

**MarketCreation.** As Settlement, with `pending` the transactions not yet
mined. What follows a read up to the next send is one step where nothing in
between depends on others; the check and the use of a slug, the read of a
missing pool and the overwriting of the row, the simulation of `addFunding` and
its mining are apart. `Room` is how many different slugs fit into 80
characters: one for a stem of 80, two for 79, ten for 78.

**CreateForm.** A submission outlives its dialog: `call` goes on after `form` is
closed, and a second dialog uses the same wallet, balance and allowance. The
status of the funding's receipt is not read, as in the code.

**Sessions.** A request is sent with the cookie of that moment, passes the hook
and its handler one query at a time, and its reply sets cookie and screen when
it arrives. A request takes less than a tick of the clock. `last` is the tab whose
lone answer nothing has crossed since; before there is one, browser and server
may disagree in any way.

**RpcLimiter.** `sent` counts the calls of each tick; a timer may be late.

**LiveUpdates.** `sock` has both ends of a connection, and `kept` marks one whose
Redis connection the code does not give back: it ended while the handler was
subscribing, or the subscriber's `quit` failed. The heartbeat's cycles stand for
`WS_PING_MS` and `WS_IDLE_DROP_MS`.

**MarketReads.** A read fetches head, cursor, rows and balances one after the
other, candles and points after the rows they are made of, and may store a
first row and move the cursor. `served` and `probed` are
its two caches. Amounts are trades: an answer's TVL says which it includes. The
price that a summary answers is another matter: it is the last of the stored
points of the chart, and no property is about its age.

**LivePage, Discussion, SpotPoints.** One page and the server behind it: rows
first, then events to those subscribed; the stream opens for the client before
the server subscribes. `asks` are calls in flight, answered in any order. In
`Discussion` a comment keeps the millisecond of its creation, by which pages are
cut; fewer than a page of comments is stored between storing one and the arrival
of its event.

**TradeDesk.** The order form on top of `MarketMaker`, whose actions are the
other accounts' moves: each read of a quote may see other reserves, approval and
trade are mined apart, and a receipt may be lost: its trade is then kept in
`earlier` and may be mined beside the next order. Balances are read one after the
other beside the order; a read that fails is swallowed (`RefreshFails`), and one
begun earlier may land last (`Peek`, `PeekLands`). The search for the exact sell
takes one read a step, as the code does, so that the pool may move under it.

**Vending.** The contract's two swaps and the owner's calls, and the swap page
with its timers: `dropped` marks a transaction whose hash was cleared while it
was awaited. Other holders sell too, USDT may be given to the machine, and the
wait for a receipt may fail. `Short` is what the machine would lack if all
holders sold; its owner alone adds to it.

**Holdings.** A market that is resolved: the market's page reads the two
balances and the payout one after the other, the profile page asks the API for
a portfolio, and wallets are changed while either is on its way. `redeem` has
the click under way, its message and `hasRedeemedOnce`, which the page sets at
the first redemption and never takes back. `had` is the most a wallet ever had,
so that a balance that is shown can be compared with what there was. The site
no longer trades in a resolved market: its tokens are only redeemed. A token
that is bought or sent elsewhere between the two reads would be counted beside
what paid for it, and is left out.

**Tags, Backgrounds, MarketList, HomeCard.** Pages that keep a copy of a table.
What they know is a set of calls in flight and a cached answer; what they
promise is stated with a history variable (`calm`, `missed`, `crossed`) for the
cases in which the code has no way to know better, each named at the property.
The card reads the pool also when it hears of a trade (`TradeSeen`), and drops a
read whose time is not after the last one's (`Dropped`).

### History variables

Some variables record the past for properties and influence nothing; each
module marks them `history`. They let one run show what holds always and what
holds for calls served singly (`serial`, `quiet`, `ordered`), or name the case
that is exempt (`disturbed`, `passed`, `twice`, `late`, `excused`, `crossed`,
`dropped`, `missed`). `disturbed` of `Reconcile` is a restart, an aborted window
or a late tick. Fairness is stated over the variables without them.

## The runs

A run is one question to a group of components. Where components share no
state, one configuration holds several and the variable `about` (or `opened`)
picks in the initial state which one a behaviour is about: the state space is
their sum, and each is checked in full.

| run | shows | bounds |
|---|---|---|
| `ctf` | `LedgerSolvent`, `LedgerExact`: the collateral covers every position, exactly so until a report | two binary conditions, one holder, 2 units; and three outcomes, two holders, 1 unit |
| `indexer` | `RowsKept`, `Exact`, `NoticeIndexed`, `SweepsEnd` | a funding and a trade in two blocks, two notices, a sweep, a retry, a failure, a restart |
| `indexer_replay` | violated: `ReplayKeepsVolume` | one transaction named twice |
| `pool` | `FeesBacked`, `ProductKept`, `DriftStays`; of reads `TvlFresh` | two accounts, a fee of one half, a drift of 1, which a removal already cuts at zero; two trades, two reads, one fault |
| `reserves_diverge` | violated: `Mirrors` | one buy is enough |
| `oracle` | `OneResult` (refinement), `SyncedIsTrue`, `AdapterResolves` | one question, two slot counts, three actors |
| `admin` | `ResolvedAfterReport`, `RowMatchesChain`, `ReportReachesRow`; of tags and pictures `CurationTrue` | two requests, a fault, a nuke, a redemption; two pages, two tags, three clicks; two pictures, two uploads, a deletion, a change of page |
| `settlement_outcome` | violated: `BurnsWinning` | one request |
| `markets` | `FundedWhenOk`, `PoolKept`, `MarketGetsFunded`; of the form `FormTrue`, of list, card and factory `MarketsTrue` | two creations and a fault, or with a seed between, or one creation, two more seeds and a fault; two dialogs, a fault; two markets, one announcement, one trade; two users, two tokens, three fees, one maker |
| `reconcile` | `CursorHonest`, `CountedOnce`, `WorkerCatchesUp`; of sockets `SocketsTidy`, of the watchlist `PoolWatched` | four blocks, windows of two, two cycles, a fault, a restart; two sockets, two mounts, two faults; two pools, two refreshes, a fault |
| `requests` | `NonceOnce`, `SignedInTrue`, `SessionKept`; `ReplayTrue`, `RateKept`, `ServesMigrated`, `ThreadWhole` | two tabs, wallets, nonces and tokens, three calls; two backfills of four events, one not listed and one a removal, a fault; two callers, six ticks; two processes, three starts; three comments, pages of two, a fault |
| `pages` | `OrderFair`, `ReportsTrue`, `FormUnlocks`, `Backed`, `TapeOnce`, `PageFollows` | two orders, a move of others; three transactions and a call of the owner; two trades, two summaries in flight, a fault; one page that records points; two wallets of one token each, a redemption elsewhere, three clicks |

Why these bounds: a race needs two actors and one fault to separate the half
that was done from the half that was not, and a third step to expose it. Two
holders and two units make rounding and transfers to others and to oneself
happen; three outcomes are the least that have partial index sets; a fee of one
half of tiny stakes is the worst for rounding. A funding and a trade in two
blocks give a boundary between windows and reserves that a replay counts twice.
Three comments in pages of two give a second page and a boundary; two summaries
in flight are enough for one to overtake the other; two dialogs share one
allowance, and a third would only wait. Two reads show the races of a cache and
of the first row; that a third adds nothing, and more generally that no bound
matters to a safety property, is what the proofs say.

Deadlock is checked where an instance cannot stop (`ctf`, `oracle`,
`settlement_outcome`), and not where it really may: when its bounded calls are
used up, or (MarketMaker) when rounding keeps holders from leaving.

### The three disagreements

- `reserves_diverge`: the comment in `indexer.ts` says the bought side loses
  what exceeds the net investment; the code subtracts all that was bought. After
  a buy, indexed reserves, price and TVL are off.
- `indexer_replay`: README.md promises idempotent replay; `upsertCandle` adds
  the volume of a replayed trade again. Replays also disturb reserves: a batch
  that begins with replayed events stores, at its first new event, reserves
  that count them twice. That is why `Exact` is stated for undisturbed runs.
- `settlement_outcome`: `redeem.ts` takes the winner from a field that only one
  of the two resolve routes stores, and burns YES where NO won.

More facts came up; the hazards in `PROJECT.json` record most, and the notes
there name what each property exempts. Of two resolutions in flight the one that
reverts can leave its vector in the row. A report whose receipt times out leaves
the row active, and no retry can pass the simulation. `DirectCTFOracle.resolve`
lists the requirements the CTF enforces and has one more, its own index, so
conditions made by the adapter can only be resolved by `reportPayouts`.

Of the pages and the other parts:

- A funding whose transaction reverted is shown as funded, since the receipt's
  status is not read; after a funding that failed, sending the form again
  creates a second market.
- Reversing the swap form, or the reset three seconds after the swap before,
  while a transaction is confirmed leaves the form locked.
- A comment that an event brought before the first list arrived disappears when
  it does; one's own comment may be listed twice; of comments that share a
  millisecond at the end of a page some are never listed.
- A deleted picture leaves its file, so an older one comes back under the
  tag its name spells, and cannot be deleted.
- A socket that closes while the handler subscribes keeps its Redis connection.
- A window whose `getLogs` failed is passed over by the reconciliation worker
  for good, and a cycle that was given up may count events again.
- Two verifications of one nonce in flight both make a session.
- A backfill has no case for `FPMMFundingRemoved`: the rows it stores after a
  removal are too high by what was taken out, and the indexer goes on from them.
- A summary's price is the last of the 180 oldest points of the chart
  (`ORDER BY timestamp ASC LIMIT 180`), so with more points than that it stays
  where it is.
- After an order whose refresh of the balances failed the page says success over
  the balances from before it. An error for a lost receipt may stand over a
  trade that is mined later, beside the next order.
- USDF that the owner minted unpaid, once sold, is paid from what buyers paid in:
  a buyer may then find the machine empty. `Backed` says how much can be missing,
  not that nothing is.
- Two first reads of a market may both store its first row. Both rows carry a
  hash made of the market's id, so the later is dropped while its block is
  stored as the cursor, past every row there is. `TvlFresh` exempts the case
  (`late`), which was met when the invariant failed to be inductive.
- `hasRedeemedOnce` survives a change of wallet: the second wallet's first click
  sends a tip and redeems nothing. Reads of the wallet before are not cancelled
  and show its balances until the next read.
- `README.md` says that points of the chart are recorded on trades; each open
  page posts one, by two reads of the pool that may see different trades.

### Fairness

All of it is weak fairness, of steps that Node's event loop, Redis, Postgres, a
browser's timers or the chain take on their own; none of them starves a pending
continuation. What people do (notices, clicks, orders), faults and restarts
need not happen.

- `Indexer`: both loops, the chain and the expiry of a Redis lock go on.
- `Settlement`: handlers continue and sent transactions are mined.
- `MarketCreation`: the same, and an admin who is left with an unfunded market
  seeds it again, which README.md gives as the way to repair one.
- `Oracle`: a manager who may ask for a result eventually does so.
- `Reconcile`: the worker starts again after a crash, its cycles go on, blocks
  are mined.
- `LiveUpdates`: the server's handlers and the heartbeat go on; a client need
  not. `LiveIngest`: the refresh of the list.
- `LivePage`: server, callbacks and the poll. `SpotPoints`: calls return.
  `Vending`: the wallet answers or fails, the page's effects run, transactions
  are mined.

Where a run holds several components, fairness of those a behaviour is not about
asks for nothing: none of their fair steps is enabled in their initial state.

## The proofs

A property that a run checks on a small instance is proved here for every value
of the constants that the assumptions admit. Every safety property of the runs
has its theorem. Where the argument names an invariant, it is the inductive one:
it holds at first, every action keeps it, and the property follows from it. The
proof has one lemma for each action or group of actions that disturbs the same
part.

### Contracts

| theorem | says | argument |
|---|---|---|
| `ConditionalTokensProofs!AlwaysSolvent` | the collateral covers every position in every world, exactly so until a report | `LedgerInv`, see below |
| `ContractProofs!LedgersSolvent`, `LedgersExact` | the same of the two ledgers of the run | `BothInv`: the second ledger is an instance of the same theorem |
| `ContractProofs!StackImplementsResolution` | the contract stack implements `Resolution` | every action of `Oracle` is a `Prepare`, a `Report` or leaves `ctf` alone |
| `ContractProofs!CacheIsTrue` | the adapter's cache is never wrong | `CacheInv`: results stay (`ResultsStay`), and only `SyncResolution` writes the cache (`CacheWriter`) |
| `MarketMakerProofs!TypeCorrect` | no balance, share, pot or fee book is negative | inductive as it stands, once the arithmetic is in place: `DivBounds`, `DivUnique`, `CeilDivCovers`, `EndingCovers` bound each quotient, so that no subtraction passes zero |
| `MarketMakerProofs!FeesAlwaysBacked` | collateral held is fees collected and not drawn | relative to `TypeOK`; each call changes weight and draws by the same amount |
| `MarketMakerProofs!ProductNeverFalls` | no trade lowers the product of the reserves | the ending balance is at least the exact quotient (`CeilDivCovers`), so the product is at least the old one |
| `MarketMakerProofs!DriftStaysForGood` | derived reserves err by what trades put in and took out and by what the floor cut, which is never made good | an action property, relative to `TypeOK` and the types of the two books: on each side of each event the index and the pool move by amounts whose difference is what `owed` records, and `Less` differs from the subtraction only where it leaves zero |
| `MarketMakerProofs!SalesStayBacked`, `PagesStayBacked` | what the machine lacks to pay every holder is at most what its owner minted unpaid and took out | `SwapInv`; the bound alone is inductive but for the types of what is signed, and the page's user is covered by arithmetic from it |
| `CreationProofs!TermsAlwaysHold`, in `MarketsStayTrue` | a maker has the terms its caller was given, and one position for every joint outcome | `TermsInv`: the conditions a maker names are prepared, and their slots never change again. That the constructor's recursion lists each combination once is shown over its steps, from the last condition to the first |

*The ledger.* What is worth proving about a sum over all positions is how one
operation changes it. A position's worth in a world is a product of one factor
for each condition, so splitting it at a condition replaces one factor by parts
that add up to it (`ExtendIs`, `FactorIs`): split, merge and transfer leave the
gap between `pot * Worth(Root)` and what is owed unchanged, a redemption rounds
in the ledger's favour, and a report makes the gap of the new world the
weighted sum of the gaps of the worlds it replaces. `DenOK`, that a denominator
is the sum of its vector, is what the report's step needs beside the types.

Sums, products and the folds behind them are known only by induction, and the
library's induction theorems take a predicate. Here an induction is over a set
of what is good: `NatSteps` and `LeastOf` follow from the well-foundedness of
`<` on the naturals, and a set of numbers that has no least member that fails
has none that fails.

### The API

| theorem | says | argument |
|---|---|---|
| `SettlementProofs!ResolvedOnlyAfterReport` | no row is resolved before its condition | `SettlementInv`: a waiting request waits for its own transaction, a resolution in the log carries a vector, and once mined there is a result. The property alone is not inductive: `Write` needs to know that its transaction was a resolution |
| `SettlementProofs!RowFollowsChain` | served one at a time, a resolved row holds the chain's vector | `SerialInv`: `OneByOne` adds that one request at most is busy, that what it waits for is the last transaction, and that a result is open while it is being sent |
| `CreationProofs!FundedWhenOkHolds` | who is told a market is seeded has a funded pool | `CreationInv`; its part `Covered` is what makes it go through: the deployer's balance covers a seed for every request whose mint is mined and whose funding is not sent, and for every funding on its way, so that none that was simulated can revert |
| `CreationProofs!PoolKeptHolds` | served one at a time, seeding funds only pools that a row names, and keeps a row's pool | `SerialInv`: one request at a time, and its pool is the row's |
| `IndexerProofs!TypeCorrect` | the cursor never passes the head, nothing is counted that is not there | part of `IndexerInv` |
| `IndexerProofs!RowsAreKept` | derived rows have their trade and are not rewritten | `IndexerInv`: what a worker holds is of events on chain, and it writes a candle or a reserve after the row it comes from |
| `IndexerProofs!CountsExactly` | undisturbed, reserves and volume count each event once | `ExactInv`, see below |
| `ReconcileProofs!TypeCorrect` | the cursor stays on the chain, cycles hold sensible windows | part of `ReconInv` |
| `ReconcileProofs!CursorIsHonest` | neither cursor is above an event that is neither recorded nor given up | `ReconInv`: what lies below the end of a cycle's window is recorded, given up, or among the logs it has still to apply |
| `ReconcileProofs!EventsCountedOnce` | undisturbed, no volume is added twice, and no event twice to what a pool's reserves were first read with | `CountInv`: one cycle is busy at a time, and above the cursor no event has been counted, in the tables or in memory, but for the window being applied |
| `ReconcileProofs!HookStaysTidy`, a part of `SocketsTidy` | a mounted page has a socket or a timer, another page neither | `HookInv`: a socket that the client believes open is the page's own |
| `MarketMakerProofs!TvlStaysFresh` | the TVL answered without the stale flag accounts for every trade up to the cursor at the request's arrival | `FreshInv`: every row accounts for all trades up to its block, and so does what the indexer builds the next from; the cursor has a row that reaches it; balances read are of the pool since the request came and since the head it read |
| `SessionsProofs!TypeCorrect` | tables, tabs and requests hold values of their kinds | `BasicInv` |
| `SessionsProofs!NonceSignsInOnce` | two sessions of one nonce need two verifications at once | `NonceInv`: a nonce not in `twice` has one verification in flight at most, and once a session was made of it none that is past the check |
| `SessionsProofs!SessionsLast` | no one else's request ends a session | an action property, from `BasicInv`: a deletion concerns rows that are expired or revoked |
| `SessionsProofs!SignsInTruly` | from a lone answer on, until calls cross or fail again, cookie, row and that tab's screen agree when nothing is in flight | `SceneInv`: what a lone request holds at each stage is what the tables say, and its reply restores the agreement |
| `SessionsProofs!MigratedBeforeServing` | a server that answers has the whole schema | `StartInv`: a process past migration `i` finds its columns there, whichever process made them, since no statement takes one away and the rename never meets the new `trades` |
| `SessionsProofs!RateAlwaysKept` | no stretch of time sees more calls than the bucket holds and the rate adds | `BucketInv`: what was sent since a time and what the bucket holds come from the bucket and from what the rate added up to the last refill; since a later time nothing was added, and where something was sent not even one token had gathered, so that the next refill does not pay twice for it |
| `SessionsProofs!ReplayStaysTrue` | the rows a backfill stores carry what the listed history up to them added and traded, and are its reserves exactly until its first removal | `BackfillInv`: what a backfill has left is the rest of the listed history, its reserves count each event it has passed once, and what it has passed has its rows |
| `SessionsProofs!ThreadStaysWhole` | a comment is shown once, and a page that offers no more shows all it was given | `ThreadInv`, see below |

### The pages

| theorem | says | argument |
|---|---|---|
| `MarketMakerProofs!OrdersKeepPrice`, `OrdersStayFair` | an order costs and brings what was signed; on still reserves the search ends tightly below the best return | `DeskInv`: what the trade will be checked against is the minimum of the quote; the arithmetic of `BuyEnding` and `SellGross` bounds what it moves, whatever the reserves are by then. `SearchInv`: nothing above `hi` is payable, `lo` is, and `(hi - lo) * 2^steps` is at most the amount |
| `MarketMakerProofs!OrdersReportTruly` | success only over an order whose own trade executed, with its balances where the refresh succeeded and was not overtaken; an error over a trade that may execute only where a receipt was lost | `DeskInv`: its part `PageOK` says for each stage of an order whether its trade has been executed, and what the balances shown or on their way were read after; `GainOK` bounds what a trade brought, also one from `earlier` |
| `MarketMakerProofs!PanelStaysTrue` | the swap's success panel names a swap that succeeded | `SwapInv`, whose part `PanelOK` ties form and call: while a call asks the wallet, the form awaits no transaction and its direction is the call's |
| `MarketMakerProofs!PagesReportTruly` | the two above, and no page shows or redeems what a wallet did not have | `MineInv`: between its two reads a load has seen no more USDF than the wallet had beside the tokens it still has; what the profile awaits is its user's |
| `MarketMakerProofs!TapeStaysOnce` | the tape lists a trade once, and only trades that were indexed | `TapeInv`: the same of every answer on its way and of the buffer |
| `CreationProofs!FormStaysTrue` | a dialog ends with what happened to its market and is locked exactly while its submission lasts | `PayInv`: every transaction the wallet sent and nobody gave up on is awaited by one dialog, which knows how far its pool is paid; dialogs have different pools. `LockInv`: an open dialog is locked while its submission is not idle |
| `CreationProofs!MarketsStayTrue` | what a visitor sees of the markets is no older than what was shown | `ListStaysTrue` by `PageInv`, `CardStaysTrue` by `CardInv`, and `TermsAlwaysHold`, see above |
| `SettlementProofs!CurationStaysTrue` | an administrator's page at rest shows the table, tiles show the picture saved last | `TagInv`: a calm page has one request under way at most, and shows the table but for what that request announced or did; a list that was read and is not old is the table. `PictureInv`: a query that missed nothing, while no change is unanswered, has read the rows as they are |

*The list of markets.* A later load may overtake an earlier one, and nothing
orders their answers but the page's counter. `PageInv` says (`AnswersCover`)
that while the page is calm every answer read no earlier than the last
request's has all markets that were announced, and that a list taken from such
an answer therefore has them; `ShownOK`, that what is shown is what was cached;
`RunCovers`, that the last run of summaries has, had or missed every listed
market without one and fetched nothing older than what is shown.

*The card.* `CardInv`: a point shown or kept is of its market and at least as
new as any that was shown; a call brings nothing from before it was sent; a
series is asked for only while nothing of the market was shown. Where calls
crossed (`crossed`) the code promises nothing, and nothing is claimed.

*The thread.* `ThreadInv` ties list, events and the page of the table that is
on its way. While there is more to load, no comment that is shown or will be
heard of is older than the end of the list, and what is missing is older or
shares its millisecond; so the next page, cut at that end, brings what is
missing. Its part `Soon`, fewer than a page stored between a comment and its
event, is why the first list cannot miss a comment whose event is still to come.

*The index.* `CountsExactly` needs more than one invariant of a worker. While
nothing failed and the sweep loop works alone (`SweepOnly`) the reserves of the
last event are those up to the cursor; while the transaction loop works alone
and is told of each block once and in order (`TxOnly`) they are those up to the
last block taken. Both are said with `Through(W, lo, D, r, v)`: worker `W`,
which began at block `lo`, has dealt with the events `D` but for those left in
its `todo`, and tables `r` and `v` count them and no more. The proof goes by the
four steps of an event, and the order in which events of one batch are stored
enters by the facts about the least number of a set, which hold since `<` on the
naturals is well-founded (`NatLessThanWellFounded`, `WFMin`).

The theorems that name `MC_*` modules are about the compositions the runs check,
with any constants: the initial state picks a component, and the invariant of
that component holds whichever it picked. Names of `Spec` in the modules
`CreationProofs`, `SettlementProofs`, `ReconcileProofs` and `SessionsProofs` are
those of the component the module was begun with.

### Assumptions

They are the named assumptions of the modules, which TLC evaluates in the runs.

- `CtfAssumption`: accounts, conditions and outcomes are finitely many (an
  address has 160 bits, a condition id 256, a condition at most 256 slots),
  with at least two outcomes; amounts are positive.
- `FpmmAssumption`, `OracleAssumption`: a positive scale, a fee below it, hints
  without a zero; the adapter is not its admin, results are vectors with a
  positive sum, slot counts fit into `uint8`.
- `IndexerAssumption`, `ReconcileAssumption`, `BackfillAssumption`: events are
  numbered in the order of their blocks; windows and batches are not empty;
  bounds are naturals.
- `SettlementAssumption`, `CreationAssumption`, `DeskAssumption`,
  `VendingAssumption`, `StartupAssumption`, `ReadsAssumption`, `TapeAssumption`,
  `HoldingsAssumption`, `FormAssumption`, `SocketsAssumption`: bounds are
  naturals, divisors and `Room` are not zero, the slippage is at most the whole;
  no socket is the value for none.
- `LimiterAssumption`: the rate and the bucket are positive and the longest
  backoff is at least the first. `DiscussionAssumption`: a page has at least
  one comment.
- `FactoryAssumption`: fees are naturals, a condition has two slots or more,
  and no list names a condition twice: `marketCreation.ts`, the API's only
  caller, passes one.
- `ListAssumption`, `CardAssumption`: markets are finitely many numbers, in the
  order of their creation; some run of summaries goes on.
- `CurationAssumption`: rows are bounded by a natural, each tag spells a file.
- `SessionsAssumption`: a session lives longer than one tick, and a request
  takes less than one. In the code it is seven days against a request's
  timeout. Without it a session could end between the hook that accepted it
  and the reply.

Modules that are instantiated state theirs as definitions, and the `MC` module
that instantiates them assumes them. Every bound (`MaxTx`, `MaxNotices`,
`MaxFaults` and so on) is any natural in the proofs, so they do not matter to
what is proved.

### Only model-checked

- Liveness, whose proof needs ENABLED: `NoticeIndexed`, `SweepsEnd`,
  `AdapterResolves`, `ReportReachesRow`, `MarketGetsFunded`,
  `WorkerCatchesUp`, `PoolWatched`, `FormUnlocks`, `PageFollows`, and
  `LeaverReleased` in `SocketsTidy`.
- That the code violates `ReplayKeepsVolume`, `Mirrors` and `BurnsWinning`: a
  counterexample is TLC's to find.

## What is not modelled

- The position index: its ids are computed by another formula than the
  contract's and match nothing; with it the balances of positions.
- `scripts/migrate`, which is not in the repository, as said above. Raising
  `RECON_BASELINE_BLOCK` between two starts of the indexer.
- Of the market's page, a second click while the first read of the pool is under
  way. Two of its branches are never reached: nothing produces the message `pool
  not initialized`, and no part of the API publishes `MarketResolved`.
- Health checks and plain lists: reads of one statement after another that keep
  nothing.
- Uploads, image checks, the admin token, the swap proxy: no state between
  requests, or a service elsewhere.
- Admin pages that are one form and one call (edit, resolve, backfill): what
  they call is modelled.
- Formatting of decimals and timestamps, logging, validation of input before
  the first change of state.
- Batch transfers and receiver callbacks of ERC1155; collisions of hashes; gas.
- Rendering in the frontend, the candle chart, search and carousel.
- Watchers of contracts of an older deployment (`lib/onchain.ts`) but for the
  announcement that the list of markets hears.
- Reorganisations of the chain: the code has no handling of them to model.

## Plan

1. *Done.* Contracts (`ConditionalTokens`, `MarketMaker`, `Oracle`), the API's
   work on them (`Indexer`, `Settlement`, `MarketCreation`), first theorems.
2. *Done.* The other workers (`Reconcile`, `LiveIngest`, `Backfill`), sessions,
   limiter, start, sockets; reads and pages.
3. *Done.* Theorems of the pool, the index, creation, settlement,
   reconciliation, sessions, the start, the order form and the swap page.
4. *Done.* Theorems of everything else the runs check for safety: both ledgers,
   reads, tape, holdings, form, list, card, factory, backfill, limiter, comments,
   sockets, tags and pictures.
5. *Left.* A safety property for the points of the chart, with its invariant; the
   market's page as one module, where `LivePage`, `Discussion`, `TradeDesk` and
   `Holdings` are now beside one another; several pools in one `Indexer`.
