----------------------------- MODULE MarketReads -----------------------------
(***************************************************************************)
(* The reads of a market with a pool, GET /markets/:marketId/summary,      *)
(* /metrics and /candles (apps/api/src/routes/markets.ts).  They are not   *)
(* only reads: they fill in what is missing from the pool's balances on    *)
(* the chain, store a first liquidity row and the cursor of market_sync,   *)
(* and ask for a sweep.  Every query of a summary has a timeout after      *)
(* which the summary goes on without it.                                   *)
(*                                                                         *)
(* A trade's number is its block and its time.  Reserves are the set of    *)
(* the trades they account for.  The indexer appears as the rows it        *)
(* stores, a trade's before its liquidity event's, in the order of the     *)
(* chain; its faults are module Indexer's.  Volume, candles and the series *)
(* of points are data of the answer that no step looks at again.           *)
(***************************************************************************)
EXTENDS Integers, FiniteSets

CONSTANTS NumTrades,  \* bound on the trades of the pool
          Requests,   \* bound on requests in flight
          MaxReads,   \* bound on requests
          MaxFaults   \* bound on queries and calls that fail or are too slow

ReadsAssumption == NumTrades \in Nat /\ MaxReads \in Nat /\ MaxFaults \in Nat

VARIABLES mined,    \* trades the pool has executed
          seen,     \* indexer.getLatestHead()
          stored,   \* trades with a row in trades: 1..stored
          rows,     \* liquidity_events: [block, log, at, reserves]
          sync,     \* market_sync.last_indexed_block, or NoRow
          job,      \* the trade the indexer has half stored, or NoJob
          probed,   \* onchainProbeCache: within the cooldown
          served,   \* tradeProbeCache: the last trade an on-chain read was for
          req,      \* requests in flight
          reads, faults,
          top,      \* history: the highest block ever stored as cursor
          late      \* history: a cursor was stored that no row's reserves reach

chain == <<mined, seen>>
tables == <<stored, rows, sync>>
caches == <<probed, served>>
vars == <<chain, tables, job, caches, req, reads, faults, top, late>>

NoRow == -1
NoJob == [trade |-> 0, base |-> {}]
\* What tvlScaled was computed from, and spotUpdatedAt; none while there is no
\* spotPayload.
NoTvl == [at |-> 0, reserves |-> {}]
Free == [pc |-> "free", began |-> 0, empty |-> FALSE, trade |-> 0, tvl |-> NoTvl,
         chain |-> {}, head |-> 0, stale |-> FALSE, boot |-> NoRow, sync |-> NoRow]

Init ==
    /\ mined = 0 /\ seen = 0
    /\ stored = 0 /\ rows = {} /\ sync \in {NoRow, 0}
    /\ job = NoJob /\ probed = FALSE /\ served = 0
    /\ req = [r \in Requests |-> Free] /\ reads = 0 /\ faults = 0
    /\ top = 0 /\ late = FALSE

\* ORDER BY block_number DESC, log_index DESC LIMIT 1
Newer(a, b) == a.block > b.block \/ (a.block = b.block /\ a.log > b.log)

\* Mutant of Latest: ascending order.
Oldest == CHOOSE a \in rows : \A b \in rows \ {a} : Newer(b, a)

Latest == CHOOSE a \in rows : \A b \in rows \ {a} : Newer(a, b)
LatestReserves == IF rows = {} THEN {} ELSE Latest.reserves

-----------------------------------------------------------------------------
(* The pool, the clock and the indexer. *)

Trade == /\ mined < NumTrades /\ mined' = mined + 1
         /\ UNCHANGED <<seen, tables, job, caches, req, reads, faults, top, late>>

HeadSeen == /\ seen < mined /\ seen' = mined
            /\ UNCHANGED <<mined, tables, job, caches, req, reads, faults, top, late>>

CoolsDown == /\ probed /\ probed' = FALSE
             /\ UNCHANGED <<chain, tables, job, served, req, reads, faults, top, late>>

\* The next trade, found by a notice or by the sweep.
IndexTrade ==
    /\ job = NoJob /\ stored < mined
    /\ stored' = stored + 1
    /\ job' = [trade |-> stored + 1, base |-> LatestReserves]
    /\ UNCHANGED <<chain, rows, sync, caches, req, reads, faults, top, late>>

IndexLiquidity ==
    /\ job # NoJob
    /\ rows' = rows \union {[block |-> job.trade, log |-> 1, at |-> job.trade,
                             reserves |-> job.base \union {job.trade}]}
    /\ sync' = job.trade
    /\ top' = IF job.trade > top THEN job.trade ELSE top
    /\ job' = NoJob
    /\ UNCHANGED <<chain, stored, caches, req, reads, faults, late>>

-----------------------------------------------------------------------------
(* A summary. *)

\* What runTimed does when the query fails or takes too long.
Fallback(q) == [q EXCEPT !.stale = TRUE]

Unlucky == faults < MaxFaults /\ faults' = faults + 1

\* resolveMarket has found the market.
Ask(r) ==
    /\ req[r].pc = "free" /\ reads < MaxReads /\ reads' = reads + 1
    /\ \E kind \in {"liquidity", "metrics", "candles"} :
         req' = [req EXCEPT ![r] = [Free EXCEPT !.pc = kind, !.began = top]]
    /\ UNCHANGED <<chain, tables, job, caches, faults, top, late>>

FromRow == [at |-> Latest.at, reserves |-> Latest.reserves]

ReadLiquidity(r) ==
    /\ req[r].pc = "liquidity"
    /\ \/ /\ req' = [req EXCEPT ![r].pc = "lastTrade", ![r].empty = rows = {},
                                ![r].tvl = IF rows = {} THEN NoTvl ELSE FromRow]
          /\ UNCHANGED faults
       \/ Unlucky /\ req' = [req EXCEPT ![r] = [Fallback(@) EXCEPT !.pc = "lastTrade", !.empty = TRUE]]
    /\ UNCHANGED <<chain, tables, job, caches, reads, top, late>>

\* A probe is worth a read if a trade is younger than the liquidity row.
Younger(q) == q.trade > q.tvl.at /\ q.trade > served

\* What no later step looks at.
Read(q) == [q EXCEPT !.chain = {}, !.head = 0, !.trade = 0, !.empty = FALSE]

\* What follows a probe without another await: a market without a liquidity
\* row is bootstrapped, one without any price is probed unless that was done
\* lately.  A liquidity query that timed out looks like a table without a row.
Onward(r, q) ==
    IF q.empty /\ q.trade > 0
    THEN UNCHANGED probed /\ req' = [req EXCEPT ![r] = [q EXCEPT !.pc = "boot"]]
    ELSE IF q.tvl = NoTvl /\ ~probed
    THEN probed' = TRUE /\ req' = [req EXCEPT ![r] = [q EXCEPT !.pc = "spot"]]
    ELSE UNCHANGED probed /\ req' = [req EXCEPT ![r] = [Read(q) EXCEPT !.pc = "trades"]]

\* The volume, then the last trade; a probe is noted before its read is sent.
ReadLastTrade(r) ==
    /\ req[r].pc = "lastTrade"
    /\ \E q \in {[req[r] EXCEPT !.trade = stored], Fallback(req[r])} :
         /\ IF q.trade = stored THEN UNCHANGED faults ELSE Unlucky
         /\ IF Younger(q) /\ ~probed
            THEN probed' = TRUE /\ req' = [req EXCEPT ![r] = [q EXCEPT !.pc = "probe"]]
            ELSE Onward(r, q)
    /\ UNCHANGED <<chain, tables, job, served, reads, top, late>>

\* fetchOnchainReserves: the chain answers with the balances of now, the
\* request has them later.
ReadsOf == [probe |-> "probed", boot |-> "booted", spot |-> "spotted", again |-> "done"]
Reading == DOMAIN ReadsOf
Balances(r) ==
    /\ req[r].pc \in Reading
    /\ req' = [req EXCEPT ![r].pc = ReadsOf[@], ![r].chain = 1..mined,
                          ![r].head = IF req[r].pc = "boot" THEN seen ELSE 0]
    /\ UNCHANGED <<chain, tables, job, caches, reads, faults, top, late>>

\* A failed call is null, which is not stale; a timeout is.
BalancesFail(r) ==
    /\ req[r].pc \in Reading /\ Unlucky
    /\ \E q \in {req[r], Fallback(req[r])} :
         req' = [req EXCEPT ![r] = [q EXCEPT !.pc = ReadsOf[@], !.chain = {}]]
    /\ UNCHANGED <<chain, tables, job, caches, reads, top, late>>

\* Balances of zero are no balances; a pool that was traded on has some.
OnChain(q, at) ==
    IF q.chain = {} THEN q
    ELSE [q EXCEPT !.tvl = [at |-> at, reserves |-> q.chain]]

Probed(r) ==
    /\ req[r].pc = "probed"
    /\ Onward(r, [OnChain(req[r], req[r].trade) EXCEPT !.chain = {}])
    /\ served' = IF req[r].chain = {} THEN served ELSE req[r].trade
    /\ UNCHANGED <<chain, tables, job, reads, faults, top, late>>

\* getLatestHead() is what the indexer last saw, zero before it saw any.
BootstrapBlock == seen

\* Balances read before the head was seen, or dropped for a row of an older one.
Lags(r) == seen # req[r].head \/ \E a \in rows : a.log = 0 /\ a.block < BootstrapBlock

\* One row per market: its hash is the market's, a second one is dropped.
Bootstrap(r) ==
    /\ req[r].pc = "booted" /\ req[r].chain # {}
    /\ rows' = IF \E a \in rows : a.log = 0 THEN rows
               ELSE rows \union {[block |-> BootstrapBlock, log |-> 0, at |-> mined,
                                  reserves |-> req[r].chain]}
    /\ req' = [req EXCEPT ![r] = [Read(OnChain(@, mined)) EXCEPT !.pc = "trades",
                                  !.stale = FALSE, !.boot = BootstrapBlock]]
    /\ late' = (late \/ Lags(r))
    /\ UNCHANGED <<chain, stored, sync, job, caches, reads, faults, top>>

NoBootstrap(r) ==
    /\ req[r].pc = "booted" /\ req[r].chain = {}
    /\ Onward(r, [req[r] EXCEPT !.empty = FALSE])
    /\ UNCHANGED <<chain, tables, job, served, reads, faults, top, late>>

Spotted(r) ==
    /\ req[r].pc = "spotted"
    /\ req' = [req EXCEPT ![r] = [Read(OnChain(@, mined)) EXCEPT !.pc = "trades",
                                  !.stale = req[r].stale \/ req[r].chain # {}]]
    /\ UNCHANGED <<chain, tables, job, caches, reads, faults, top, late>>

\* Candles, points and the list of trades, whose first may be younger than
\* the last trade read before: then a second read, which no cooldown limits.
ReadTrades(r) ==
    /\ req[r].pc = "trades"
    /\ \/ LET q == [req[r] EXCEPT !.trade = stored]
          IN  /\ req' = [req EXCEPT ![r] = IF Younger(q) THEN [q EXCEPT !.pc = "again"]
                                           ELSE [Read(q) EXCEPT !.pc = "sync"]]
              /\ UNCHANGED faults
       \/ Unlucky /\ req' = [req EXCEPT ![r] = [Fallback(@) EXCEPT !.pc = "sync"]]
    /\ UNCHANGED <<chain, tables, job, caches, reads, top, late>>

Done(r) ==
    /\ req[r].pc = "done"
    /\ req' = [req EXCEPT ![r] = [Read(OnChain(@, @.trade)) EXCEPT !.pc = "sync"]]
    /\ served' = IF req[r].chain = {} THEN served ELSE req[r].trade
    /\ UNCHANGED <<chain, tables, job, probed, reads, faults, top, late>>

Compared(r, q) ==
    req' = [req EXCEPT ![r] =
              [Read(q) EXCEPT !.pc = IF q.boot > q.sync THEN "update" ELSE "answer",
                              !.boot = IF q.boot > q.sync THEN @ ELSE NoRow,
                              !.sync = NoRow, !.tvl.at = 0]]

\* A market without a cursor gets one at zero.
ReadSync(r) ==
    /\ req[r].pc \in {"sync", "metricsSync"}
    /\ sync' = IF sync = NoRow THEN 0 ELSE sync
    /\ Compared(r, [req[r] EXCEPT !.sync = sync'])
    /\ UNCHANGED <<chain, stored, rows, job, caches, reads, faults, top, late>>

\* A query that timed out found no cursor either; the insert of a zero then
\* conflicts with the row that is there.
ReadSyncFails(r) ==
    /\ req[r].pc = "sync" /\ Unlucky
    /\ sync' = IF sync = NoRow THEN 0 ELSE sync
    /\ Compared(r, [Fallback(req[r]) EXCEPT !.sync = 0])
    /\ UNCHANGED <<chain, stored, rows, job, caches, reads, top, late>>

\* The cursor was compared with the value read, and is written over another.
UpdateSync(r) ==
    /\ req[r].pc = "update"
    /\ sync' = req[r].boot
    /\ top' = IF req[r].boot > top THEN req[r].boot ELSE top
    /\ req' = [req EXCEPT ![r].pc = "answer", ![r].boot = NoRow]
    /\ UNCHANGED <<chain, stored, rows, job, caches, reads, faults, late>>

\* The sweep is asked for and not awaited; here it may come at any time.
Answer(r) ==
    /\ req[r].pc = "answer"
    /\ req' = [req EXCEPT ![r] = Free]
    /\ UNCHANGED <<chain, tables, job, caches, reads, faults, top, late>>

\* The insert of a bootstrap's row, of the cursor or its update fails: what is
\* answered comes from the chain, marked stale, and no sweep is asked for.
Fails(r) ==
    /\ \/ req[r].pc = "booted" /\ req[r].chain # {}
       \/ req[r].pc = "sync" /\ sync = NoRow
       \/ req[r].pc = "update"
    /\ Unlucky
    /\ req' = [req EXCEPT ![r] = Free]
    /\ UNCHANGED <<chain, tables, job, caches, reads, top, late>>

-----------------------------------------------------------------------------
(* Metrics and candles, whose queries have no timeout.                       *)

ReadMetrics(r) ==
    /\ req[r].pc = "metrics"
    /\ req' = [req EXCEPT ![r].pc = "metricsSync",
                          ![r].tvl = IF rows = {} THEN NoTvl ELSE FromRow]
    /\ UNCHANGED <<chain, tables, job, caches, reads, faults, top, late>>

\* Candles look at no reserves unless there are none, and store the cursor.
ReadCandles(r) ==
    /\ req[r].pc = "candles"
    /\ sync' = IF sync = NoRow THEN 0 ELSE sync
    /\ req' = [req EXCEPT ![r] = Free]
    /\ UNCHANGED <<chain, stored, rows, job, caches, reads, faults, top, late>>

Summary(r) ==
    \/ ReadLiquidity(r) \/ ReadLastTrade(r) \/ Balances(r) \/ BalancesFail(r)
    \/ Probed(r) \/ Bootstrap(r) \/ NoBootstrap(r) \/ Spotted(r)
    \/ ReadTrades(r) \/ Done(r)

Next ==
    \/ Trade \/ HeadSeen \/ CoolsDown \/ IndexTrade \/ IndexLiquidity
    \/ \E r \in Requests :
         \/ Ask(r) \/ Summary(r) \/ ReadMetrics(r) \/ ReadCandles(r)
         \/ ReadSync(r) \/ ReadSyncFails(r) \/ UpdateSync(r) \/ Answer(r) \/ Fails(r)

Spec == Init /\ [][Next]_vars

-----------------------------------------------------------------------------
(* Properties. *)

(* The TVL of a summary that does not call itself stale, and of metrics,    *)
(* which never do, accounts for every trade up to the cursor as it stood     *)
(* when the request came, wherever the cursor came from: the indexer, or a   *)
(* bootstrap that moved it past trades nobody has indexed, because its own   *)
(* row accounts for them.  Queries that time out, probes that fail and       *)
(* requests that race for the caches and for the bootstrap do not break it.  *)
(* It can fail after a bootstrap whose cursor no row reaches: the indexer    *)
(* saw a newer head between the read of the balances and the row, or the row *)
(* was dropped because another request had bootstrapped at an older head.    *)
TvlFresh ==
    \A r \in Requests :
        req[r].pc = "answer" /\ ~req[r].stale /\ ~late
            => 1..req[r].began \subseteq req[r].tvl.reserves
===============================================================================
