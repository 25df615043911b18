------------------------------- MODULE Indexer -------------------------------
(***************************************************************************)
(* The on-demand indexer (apps/api/src/services/indexer.ts) for one        *)
(* market: a transaction worker and a sweep worker that run concurrently   *)
(* in one process, interleaving at every await, over shared queues in      *)
(* Redis and shared tables in Postgres.                                    *)
(*                                                                         *)
(* Events are the market's FPMM logs in chain order.  Reserves are kept    *)
(* as the multiset of events a number accounts for: a liquidity row maps   *)
(* each event to how many times its amounts are in the row's reserves.     *)
(* A candle's volume is likewise the number of times each trade was added. *)
(***************************************************************************)
EXTENDS Integers, Sequences, FiniteSetsExt

CONSTANTS NumEvents,    \* how many events the chain will hold
          BlockOf,      \* event -> its block
          Funding,      \* the events that are FundingAdded or FundingRemoved
          MaxBlock,     \* the last block mined
          InitLag,      \* RECON_INIT_LAG_BLOCKS
          Baseline,     \* RECON_BASELINE_BLOCK
          Window,       \* RECON_SWEEP_WINDOW_BLOCKS
          ScanBlocks,   \* RECON_SCAN_BLOCKS
          MaxBatches,   \* RECON_MAX_BATCHES_PER_SWEEP
          SafetyWindow, \* blocks before the first trade a bootstrap goes back
          MaxNotices,   \* bound on transaction notifications
          MaxSweeps,    \* bound on sweep requests
          MaxRetries,   \* bound on RPC calls that fail and are retried
          MaxErrors,    \* bound on other failed calls
          MaxCrashes    \* bound on restarts

Events == 1..NumEvents

ASSUME IndexerAssumption ==
    /\ NumEvents \in Nat /\ MaxBlock \in Nat
    /\ BlockOf \in [Events -> 1..MaxBlock]
    /\ \A d, e \in Events : d < e => BlockOf[d] <= BlockOf[e]
    /\ Funding \subseteq Events
    /\ Baseline \in 0..MaxBlock
    /\ InitLag \in Nat /\ Window \in Nat /\ SafetyWindow \in Nat
    /\ ScanBlocks \in Nat \ {0} /\ MaxBatches \in Nat \ {0}
    /\ MaxNotices \in Nat /\ MaxSweeps \in Nat /\ MaxRetries \in Nat
    /\ MaxErrors \in Nat /\ MaxCrashes \in Nat

VARIABLES head,      \* the chain's last block
          txq,       \* recon:q:tx, as the blocks of the queued transactions
          sweepq,    \* recon:q:sweep: how many jobs of this market it holds
          lock,      \* recon:sweep:lock:<market> is set
          cursor,    \* market_sync.last_indexed_block, or NoRow
          sweeping,  \* market_sync.sweeping
          trades,    \* events with a row in trades
          liq,       \* liquidity_events: event -> reserves as a multiset
          volume,    \* candles_5m.volume_usdf: event -> times added
          tx,        \* the transaction worker
          sw,        \* the sweep worker
          left,      \* what the environment may still do
          ordered    \* history: blocks were named once each and in order

queues == <<txq, sweepq, lock>>
sync == <<cursor, sweeping>>
tables == <<trades, liq, volume>>
work == <<head, queues, sync, tables, tx, sw, left>>
vars == <<work, ordered>>

NoRow == -1
Empty == [e \in Events |-> 0]
MaxOf(m, n) == IF m > n THEN m ELSE n

\* A worker: where it is, the events processLogs still has to handle, which it
\* takes in chain order, its in-memory MarketState, and for the sweep its window.
Idle == [pc |-> "idle", job |-> 0, todo |-> {}, mem |-> Empty,
         from |-> 0, top |-> 0, last |-> 0, batches |-> 0]

Init ==
    /\ head = 0
    /\ txq = <<>> /\ sweepq = 0 /\ lock = FALSE
    /\ cursor = NoRow /\ sweeping = FALSE
    /\ trades = {} /\ liq = <<>> /\ volume = Empty
    /\ tx = Idle /\ sw = Idle
    /\ left = [notices |-> MaxNotices, sweeps |-> MaxSweeps,
               retries |-> MaxRetries, errors |-> MaxErrors, crashes |-> MaxCrashes]
    /\ ordered = TRUE

EventsIn(lo, hi) == {e \in Events : lo <= BlockOf[e] /\ BlockOf[e] <= hi}

-----------------------------------------------------------------------------
(* Queues and market_sync. *)

\* SET key NX, then RPUSH: dropped when the lock is already there.
EnqueueSweep ==
    /\ lock' = TRUE
    /\ sweepq' = IF lock THEN sweepq ELSE sweepq + 1

\* ensureMarketSync: a market seen for the first time starts near the head, and
\* not below the baseline. The later clamps to the baseline then find no cursor
\* below it, unless the setting was raised between two starts.
Ensured == IF cursor = NoRow THEN MaxOf(head - InitLag, Baseline) ELSE cursor

\* updateMarketSync(b, s): GREATEST(last_indexed_block, b).
UpdateMarketSync(b, s) ==
    /\ cursor' = MaxOf(cursor, b)
    /\ sweeping' = s

-----------------------------------------------------------------------------
(* processLogs, run by either worker: W is the worker, W1 its next value,  *)
(* "load" the entry and "done" the return.                                 *)

\* The latest liquidity row by block and log index.
LoadMarketState ==
    IF DOMAIN liq = {} THEN Empty
    ELSE liq[CHOOSE e \in DOMAIN liq : \A d \in DOMAIN liq : d <= e]

LoadStep(W, W1) ==
    /\ W.pc = "load"
    /\ W1 = IF W.todo = {} THEN [W EXCEPT !.pc = "done"]
            ELSE [W EXCEPT !.pc = "event", !.mem = LoadMarketState]
    /\ UNCHANGED tables

\* The event it handles: logs are taken by block and log index.
Current(W) == Min(W.todo)
Rest(W) == W.todo \ {Current(W)}

Advance(W) == [W EXCEPT !.todo = Rest(W), !.pc = IF Rest(W) = {} THEN "done" ELSE "event"]

\* Mutant: ON CONFLICT DO UPDATE.
OverwriteLiquidityEvent(e, reserves) ==
    liq' = [d \in DOMAIN liq \union {e} |-> IF d = e THEN reserves ELSE liq[d]]

\* INSERT ... ON CONFLICT (tx_hash, log_index) DO NOTHING
InsertLiquidityEvent(e, reserves) ==
    liq' = IF e \in DOMAIN liq THEN liq
           ELSE [d \in DOMAIN liq \union {e} |-> IF d = e THEN reserves ELSE liq[d]]

\* The reserves change in memory first; a funding event then writes its row.
FundingStep(W, W1) ==
    /\ W.pc = "event" /\ Current(W) \in Funding
    /\ LET e == Current(W)
           mem == [W.mem EXCEPT ![e] = @ + 1]
       IN  /\ InsertLiquidityEvent(e, mem)
           /\ W1 = Advance([W EXCEPT !.mem = mem])
    /\ UNCHANGED <<trades, volume>>

\* A trade writes three rows, awaiting each: trade, reserves, candle.
TradeStep(W, W1) ==
    /\ W.pc = "event" /\ Current(W) \notin Funding
    /\ trades' = trades \union {Current(W)}
    /\ W1 = [W EXCEPT !.mem[Current(W)] = @ + 1, !.pc = "rows"]
    /\ UNCHANGED <<liq, volume>>

RowsStep(W, W1) ==
    /\ W.pc = "rows"
    /\ InsertLiquidityEvent(Current(W), W.mem)
    /\ W1 = [W EXCEPT !.pc = "candle"]
    /\ UNCHANGED <<trades, volume>>

\* upsertCandle adds to volume_usdf on conflict.
CandleStep(W, W1) ==
    /\ W.pc = "candle"
    /\ volume' = [volume EXCEPT ![Current(W)] = @ + 1]
    /\ W1 = Advance(W)
    /\ UNCHANGED <<trades, liq>>

\* A failed insert is caught per event: the reserves in memory have changed,
\* the rest of the event is skipped, the loop goes on.
SkipStep(W, W1) ==
    /\ W.pc \in {"event", "rows", "candle"}
    /\ left.errors > 0
    /\ W1 = Advance(IF W.pc = "event"
                    THEN [W EXCEPT !.mem[Current(W)] = @ + 1] ELSE W)
    /\ UNCHANGED tables

ProcessStep(W, W1) ==
    \/ LoadStep(W, W1) \/ FundingStep(W, W1) \/ TradeStep(W, W1)
    \/ RowsStep(W, W1) \/ CandleStep(W, W1)

Spend(what) == left' = [left EXCEPT ![what] = @ - 1]

-----------------------------------------------------------------------------
(* txLoop and handleTxJob. *)

\* Mutant: a transaction without a receipt is forgotten.
TxForget ==
    /\ tx.pc = "idle" /\ txq # <<>>
    /\ \/ Head(txq) > head /\ UNCHANGED left
       \/ left.retries > 0 /\ Spend("retries")
    /\ txq' = Tail(txq)
    /\ UNCHANGED <<head, sweepq, lock, sync, tables, tx, sw>>

\* No receipt after MAX_TX_RECEIPT_ATTEMPTS, or the RPC throws: back of the
\* queue.
TxRequeue ==
    /\ tx.pc = "idle" /\ txq # <<>>
    /\ \/ Head(txq) > head /\ UNCHANGED left
       \/ left.retries > 0 /\ Spend("retries")
    /\ txq' = Append(Tail(txq), Head(txq))
    /\ UNCHANGED <<head, sweepq, lock, sync, tables, tx, sw>>

\* The logs of the transaction's whole block are fetched, not its own.
TxStart ==
    /\ tx.pc = "idle" /\ txq # <<>> /\ Head(txq) <= head
    /\ txq' = Tail(txq)
    /\ cursor' = Ensured
    /\ tx' = [Idle EXCEPT !.pc = "load", !.job = Head(txq),
                          !.todo = EventsIn(Head(txq), Head(txq))]
    /\ UNCHANGED <<head, sweepq, lock, sweeping, tables, sw, left>>

TxProcess ==
    /\ ProcessStep(tx, tx')
    /\ UNCHANGED <<head, queues, sync, sw, left>>

TxSkip ==
    /\ SkipStep(tx, tx') /\ Spend("errors")
    /\ UNCHANGED <<head, queues, sync, sw>>

\* processLogs throws: a sweep is enqueued, then `finally' releases the lock
\* that enqueueing has just taken; the cursor stays.
TxFail ==
    /\ tx.pc \in {"load", "event"} /\ left.errors > 0 /\ Spend("errors")
    /\ sweepq' = IF lock THEN sweepq ELSE sweepq + 1
    /\ lock' = FALSE
    /\ tx' = Idle
    /\ UNCHANGED <<head, txq, sync, tables, sw>>

\* The lock is released whoever holds it, and the cursor moves to the block
\* of this transaction whether or not the blocks before it were indexed.
TxFinish ==
    /\ tx.pc = "done"
    /\ lock' = FALSE
    /\ UpdateMarketSync(tx.job, FALSE)
    /\ tx' = Idle
    /\ UNCHANGED <<head, txq, sweepq, tables, sw, left>>

\* The cursor update fails: the job goes to the back of the queue and its
\* block will be processed again.
TxFinishFail ==
    /\ tx.pc = "done" /\ left.errors > 0 /\ Spend("errors")
    /\ lock' = FALSE
    /\ txq' = Append(txq, tx.job)
    /\ tx' = Idle
    /\ UNCHANGED <<head, sweepq, sync, tables, sw>>

-----------------------------------------------------------------------------
(* sweepLoop and handleSweepJob. *)

\* Mutant: the job is read and never removed.
SweepPeek ==
    /\ sw.pc = "idle" /\ sweepq > 0
    /\ UpdateMarketSync(0, TRUE)
    /\ sw' = [Idle EXCEPT !.pc = "read"]
    /\ UNCHANGED <<head, queues, tables, tx, left>>

SweepStart ==
    /\ sw.pc = "idle" /\ sweepq > 0
    /\ sweepq' = sweepq - 1
    /\ UpdateMarketSync(0, TRUE)
    /\ sw' = [Idle EXCEPT !.pc = "read"]
    /\ UNCHANGED <<head, txq, lock, tables, tx, left>>

Scan(start) == [sw EXCEPT !.pc = "batch", !.from = start + 1,
                          !.top = head, !.last = start]

\* Within the window there is nothing to do; this return leaves the lock to
\* its TTL and the sweeping flag set.
SweepRead ==
    /\ sw.pc = "read"
    /\ sw' = IF head - cursor <= Window THEN Idle
             ELSE IF cursor <= 0 /\ trades # {} THEN [sw EXCEPT !.pc = "boot"]
             ELSE Scan(cursor)
    /\ UNCHANGED <<head, queues, sync, tables, tx, left>>

\* A cursor still at zero is set a safety window before the first trade, by
\* a plain UPDATE that does not look at the cursor again.
SweepBootstrap ==
    /\ sw.pc = "boot"
    /\ LET first == BlockOf[CHOOSE e \in trades : \A d \in trades : e <= d]
       IN  cursor' = MaxOf(first - SafetyWindow, 0)
    /\ sw' = Scan(cursor')
    /\ UNCHANGED <<head, queues, sweeping, tables, tx, left>>

\* Mutant: the window's last block is counted from its end.
SweepBatchWide ==
    /\ sw.pc = "batch"
    /\ sw.from <= sw.top /\ sw.batches < MaxBatches
    /\ LET end == sw.from + ScanBlocks - 1
           upper == IF end > sw.top THEN sw.top ELSE end
       IN  sw' = [sw EXCEPT !.pc = "load", !.last = upper, !.from = upper + 1,
                            !.batches = @ + 1, !.todo = EventsIn(sw.from, upper + 1)]
    /\ UNCHANGED <<head, queues, sync, tables, tx, left>>

SweepBatch ==
    /\ sw.pc = "batch"
    /\ sw.from <= sw.top /\ sw.batches < MaxBatches
    /\ LET end == sw.from + ScanBlocks - 1
           upper == IF end > sw.top THEN sw.top ELSE end
       IN  sw' = [sw EXCEPT !.pc = "load", !.last = upper, !.from = upper + 1,
                            !.batches = @ + 1, !.todo = EventsIn(sw.from, upper)]
    /\ UNCHANGED <<head, queues, sync, tables, tx, left>>

SweepProcess ==
    /\ \/ ProcessStep(sw, sw')
       \/ sw.pc = "done" /\ sw' = [sw EXCEPT !.pc = "batch"] /\ UNCHANGED tables
    /\ UNCHANGED <<head, queues, sync, tx, left>>

SweepSkip ==
    /\ SkipStep(sw, sw') /\ Spend("errors")
    /\ UNCHANGED <<head, queues, sync, tx>>

\* The lock is released, then the loop enqueues the job again.
SweepFail ==
    /\ sw.pc \in {"batch", "load", "event"} /\ left.errors > 0 /\ Spend("errors")
    /\ sweepq' = sweepq + 1 /\ lock' = TRUE
    /\ sw' = Idle
    /\ UNCHANGED <<head, txq, sync, tables, tx>>

\* A call before the first batch fails: the lock the job was queued under is
\* still there, and while it is the retry is dropped.
SweepFailEarly ==
    /\ sw.pc \in {"read", "boot"} /\ left.errors > 0 /\ Spend("errors")
    /\ EnqueueSweep
    /\ sw' = Idle
    /\ UNCHANGED <<head, txq, sync, tables, tx>>

SweepFinish ==
    /\ sw.pc = "batch"
    /\ ~(sw.from <= sw.top /\ sw.batches < MaxBatches)
    /\ lock' = FALSE
    /\ UpdateMarketSync(sw.last, FALSE)
    /\ sw' = Idle
    /\ UNCHANGED <<head, txq, sweepq, tables, tx, left>>

-----------------------------------------------------------------------------
(* The environment. *)

Mine ==
    /\ head < MaxBlock
    /\ head' = head + 1
    /\ UNCHANGED <<queues, sync, tables, tx, sw, left>>

\* A webhook, the live watcher or the frontend names a transaction, perhaps
\* one already named, perhaps before it is mined.
Notify(b) ==
    /\ left.notices > 0 /\ Spend("notices")
    /\ txq' = Append(txq, b)
    /\ ordered' = (ordered /\ b = MaxNotices - left.notices + 1 /\ b <= head)
    /\ UNCHANGED <<head, sweepq, lock, sync, tables, tx, sw>>

\* maybeEnqueueSweep on a page request; the cooldown may suppress it.
MaybeEnqueueSweep ==
    /\ left.sweeps > 0 /\ Spend("sweeps")
    /\ cursor' = Ensured
    /\ IF head - Ensured > Window THEN EnqueueSweep ELSE UNCHANGED <<sweepq, lock>>
    /\ UNCHANGED <<head, txq, sweeping, tables, tx, sw>>

LockExpires ==
    /\ lock /\ lock' = FALSE
    /\ UNCHANGED <<head, txq, sweepq, sync, tables, tx, sw, left>>

\* Jobs are popped before they are done: a restart loses what is in flight.
Crash ==
    /\ left.crashes > 0 /\ Spend("crashes")
    /\ tx' = Idle /\ sw' = Idle
    /\ UNCHANGED <<head, queues, sync, tables>>

TxWorker == TxRequeue \/ TxStart \/ TxProcess \/ TxFinish
SweepWorker == SweepStart \/ SweepRead \/ SweepBootstrap \/ SweepBatch \/ SweepProcess \/ SweepFinish
Faults ==
    \/ TxSkip \/ TxFail \/ TxFinishFail
    \/ SweepSkip \/ SweepFail \/ SweepFailEarly \/ Crash

Next ==
    \/ /\ TxWorker \/ SweepWorker \/ Faults \/ Mine \/ MaybeEnqueueSweep \/ LockExpires
       /\ UNCHANGED ordered
    \/ \E b \in 1..MaxBlock : Notify(b)

Spec == Init /\ [][Next]_vars

\* Both loops keep running, blocks keep coming, the lock's TTL runs out.
FairSpec ==
    /\ Spec
    /\ WF_work(TxWorker) /\ WF_work(SweepWorker)
    /\ WF_work(Mine) /\ WF_work(LockExpires)

-----------------------------------------------------------------------------
(* Properties. *)

TypeOK ==
    /\ head \in 0..MaxBlock
    /\ txq \in Seq(1..MaxBlock) /\ sweepq \in Nat /\ lock \in BOOLEAN
    /\ cursor \in {NoRow} \union 0..MaxBlock /\ sweeping \in BOOLEAN
    /\ trades \subseteq Events \ Funding
    /\ DOMAIN liq \subseteq Events /\ \A e \in DOMAIN liq : liq[e] \in [Events -> Nat]
    /\ volume \in [Events -> Nat]
    /\ \A W \in {tx, sw} : W.todo \subseteq Events /\ W.mem \in [Events -> Nat]

(* Every number shown has its source row: a trade's reserves are stored     *)
(* only after the trade, and its volume is in a candle only after both,     *)
(* whichever of the two workers got there first and wherever one failed.    *)
DerivedAfterTrade ==
    \A e \in Events \ Funding :
        /\ e \in DOMAIN liq => e \in trades
        /\ volume[e] > 0 => e \in trades

(* Rows are history: no replay, crash or race rewrites or removes a trade   *)
(* or the reserves recorded at an event.                                    *)
HistoryFixed ==
    [][/\ trades \subseteq trades'
       /\ \A e \in DOMAIN liq : e \in DOMAIN liq' /\ liq'[e] = liq[e]]_vars

RowsKept == []DerivedAfterTrade /\ HistoryFixed

\* What reserves account for after event e, if the index of the market began
\* after block lo: everything since, up to e, once.
Since(lo, e) == [d \in Events |-> IF lo < BlockOf[d] /\ d <= e THEN 1 ELSE 0]

\* One worker has had each block handed to it once and in order, and nothing
\* has failed: either no transaction was named, or no sweep was asked for.
Undisturbed ==
    /\ left.errors = MaxErrors /\ left.retries = MaxRetries
    /\ left.crashes = MaxCrashes
    /\ left.notices = MaxNotices \/ (left.sweeps = MaxSweeps /\ ordered)

(* Undisturbed, the reserves stored at an event account for exactly the     *)
(* events up to it since the index began (InitLag blocks before the head,   *)
(* or at the baseline), and every trade is in the volume at most once:      *)
(* sweep windows and batches neither overlap nor leave a gap.               *)
Exact ==
    Undisturbed =>
        /\ \E lo \in 0..MaxOf(MaxBlock - InitLag, Baseline) :
             \A e \in DOMAIN liq : liq[e] = Since(lo, e)
        /\ \A e \in Events : volume[e] <= 1

(* README: unique constraints on trades and liquidity_events allow          *)
(* idempotent replay.  Read of the volume: a replayed trade counts once.    *)
ReplayKeepsVolume == \A e \in Events : volume[e] <= 1

Queued(b) == \E i \in 1..Len(txq) : txq[i] = b
TradesAt(b) == {e \in Events \ Funding : BlockOf[e] = b}

(* A named transaction is indexed once its block is mined, however often    *)
(* the RPC call for it fails and wherever it stands in the queue, unless    *)
(* the worker loses it: by a restart, or by a failure inside processLogs.   *)
NoticeIndexed ==
    \A b \in 1..MaxBlock :
        Queued(b) ~> \/ TradesAt(b) \subseteq trades
                     \/ left.errors < MaxErrors \/ left.crashes < MaxCrashes

(* Once sweeps are requested no more the queue empties and the sweep worker *)
(* stops: failures, requeues and a lock held by nobody do not keep it busy. *)
SweepsEnd == <>[](sweepq = 0 /\ sw.pc = "idle" /\ ~lock)
=============================================================================
