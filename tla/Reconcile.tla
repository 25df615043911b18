------------------------------ MODULE Reconcile ------------------------------
(***************************************************************************)
(* The reconciliation worker (apps/api/src/workers/reconcile.ts): every    *)
(* RECON_INTERVAL_MS a cycle reads the logs of the known pools in windows  *)
(* of blocks, applies them and moves a cursor, which it keeps in memory    *)
(* and in system_kv.  A cycle switches to others at every await.           *)
(*                                                                         *)
(* Events are FPMM logs in chain order.  Reserves and volumes are the      *)
(* multiset of the events they account for, so that counting twice shows.  *)
(* Left out: USDF logs, which are only logged; CTF transfers, whose ids    *)
(* positionIndex.ts never finds; trades published to Redis.                *)
(***************************************************************************)
EXTENDS Integers, FiniteSetsExt

CONSTANTS Pools,         \* FPMM addresses
          NumEvents,     \* how many events the chain will hold
          BlockOf,       \* event -> its block
          PoolOf,        \* event -> the pool that emits it
          Funding,       \* events that are FundingAdded or FundingRemoved
          MaxBlock,      \* the last block mined
          Confirmations, \* RECON_CONFIRMATIONS
          Batch,         \* RECON_BLOCKS_PER_SCAN
          JumpThreshold, \* RECON_JUMP_THRESHOLD
          Backfill,      \* RECON_BACKFILL_ENABLED
          OnlyKnown,     \* RECON_ONLY_KNOWN_FPMM
          Cycles,        \* bound on cycles in flight at once, as their names
          MaxFaults,     \* bound on failed calls
          MaxCrashes     \* bound on restarts

Events == 1..NumEvents

ASSUME ReconcileAssumption ==
    /\ NumEvents \in Nat /\ MaxBlock \in Nat
    /\ BlockOf \in [Events -> 1..MaxBlock]
    /\ \A d, e \in Events : d < e => BlockOf[d] <= BlockOf[e]
    /\ PoolOf \in [Events -> Pools]
    /\ Funding \subseteq Events
    /\ Confirmations \in Nat /\ Batch \in Nat \ {0} /\ JumpThreshold \in Nat
    /\ Backfill \in BOOLEAN /\ OnlyKnown \in BOOLEAN
    /\ MaxFaults \in Nat /\ MaxCrashes \in Nat

VARIABLES head,      \* the chain's last block
          rows,      \* pools that a row of markets names
          kv,        \* system_kv.lastIndexedBlock, or NoRow
          trades,    \* events with a row in trades
          liq,       \* liquidity_events: event -> reserves as a multiset
          volume,    \* candles_5m.volume_usdf: event -> times added
          up,        \* startReconciliationWorker has returned
          indexed,   \* state.lastIndexedBlock
          running,   \* state.isRunning
          mem,       \* marketStateByAddress: pool -> reserves, where loaded
          cycle,     \* the cycles in flight
          left,      \* what the environment may still do
          passed,    \* history: events given up for a reason the code has
          disturbed, \* history: a restart, an aborted window or a late tick
          base       \* history: pool -> the reserves mem began with

tables == <<trades, liq, volume>>
memory == <<up, indexed, running, mem, cycle>>
work == <<head, rows, kv, tables, memory, left>>
vars == <<work, passed, disturbed, base>>

NoRow == -1
None == [e \in Events |-> 0]
MaxOf(m, n) == IF m > n THEN m ELSE n
MinOf(m, n) == IF m < n THEN m ELSE n

\* A cycle: where it is, its safeHead and uniqueFpmm, its own cursor, the
\* window's end and the logs it still has to handle, in chain order.
Idle == [pc |-> "idle", safe |-> 0, known |-> {}, cursor |-> 0, to |-> 0,
         todo |-> {}]

Init ==
    /\ head = 0 /\ rows = {} /\ kv = NoRow
    /\ trades = {} /\ liq = <<>> /\ volume = None
    /\ up = FALSE /\ indexed = 0 /\ running = FALSE /\ mem = <<>>
    /\ cycle = [c \in Cycles |-> Idle]
    /\ left = [faults |-> MaxFaults, crashes |-> MaxCrashes]
    /\ passed = {} /\ disturbed = FALSE /\ base = <<>>

Mined == {e \in Events : BlockOf[e] <= head}
Between(lo, hi) == {e \in Events : lo < BlockOf[e] /\ BlockOf[e] <= hi}
Fault == left.faults > 0 /\ left' = [left EXCEPT !.faults = @ - 1]

SafeHead == MaxOf(head - Confirmations, 0)

-----------------------------------------------------------------------------
(* startReconciliationWorker *)

\* computeStartingBlock
StartingBlock == IF Backfill THEN MaxOf(head - Batch, 0) ELSE head

\* Too far behind, the worker goes on near the head and leaves the rest.
JumpTo(b) ==
    IF MaxOf(SafeHead - b, 0) > JumpThreshold THEN MaxOf(SafeHead - 2, 0) ELSE b

\* The cursor is the stored one; where there is none, or it cannot be read, the
\* worker starts a batch below the head.  Only a jump is stored, if it can be.
\* Where the head cannot be read the process ends and has done nothing.
Start ==
    /\ ~up
    /\ up' = TRUE
    /\ \E readable, stored \in BOOLEAN :
        LET was == IF kv # NoRow /\ readable THEN kv ELSE StartingBlock
        IN  /\ IF readable /\ stored THEN UNCHANGED left ELSE Fault
            /\ indexed' = JumpTo(was)
            /\ kv' = IF indexed' # was /\ stored THEN indexed' ELSE kv
            /\ passed' = passed \union Between(IF kv = NoRow THEN 0 ELSE kv, indexed')
    /\ UNCHANGED <<head, rows, tables, running, mem, cycle, disturbed, base>>

-----------------------------------------------------------------------------
(* runReconCycle *)

\* Mutant: the flag is not looked at.
MayRunAlways == TRUE

\* if (state.isRunning) skip
MayRun == ~running

\* The first cycle and every tick of the interval.  A tick that comes while an
\* idle cycle still stores its cursor is late.
Tick(c) ==
    /\ up /\ cycle[c] = Idle /\ MayRun
    /\ running' = TRUE
    /\ cycle' = [cycle EXCEPT ![c].pc = "head"]
    /\ disturbed' = (disturbed \/ \E d \in Cycles : cycle[d].pc = "idling")
    /\ UNCHANGED <<head, rows, kv, tables, up, indexed, mem, left, passed, base>>

\* Whatever a cycle throws ends it; finally clears the flag.
End(c) ==
    /\ cycle' = [cycle EXCEPT ![c] = Idle]
    /\ running' = FALSE

ReadHead(c) ==
    /\ cycle[c].pc = "head"
    /\ cycle' = [cycle EXCEPT ![c].pc = "markets", ![c].safe = SafeHead]
    /\ UNCHANGED <<head, rows, kv, tables, up, indexed, running, mem, left,
                   passed, disturbed, base>>

\* Without pools there is nothing to read: the cursor goes to the safe head.  The
\* flag is cleared before the cursor is stored, and by finally once more after it.
ReadMarkets(c) ==
    /\ cycle[c].pc = "markets"
    /\ IF OnlyKnown /\ rows = {}
       THEN /\ indexed' = cycle[c].safe
            /\ running' = FALSE
            /\ cycle' = [cycle EXCEPT ![c] =
                  IF indexed = cycle[c].safe THEN Idle ELSE [@ EXCEPT !.pc = "idling"]]
            /\ passed' = passed \union Between(0, cycle[c].safe)
       ELSE /\ cycle' = [cycle EXCEPT ![c].pc = "window", ![c].known = rows,
                                      ![c].cursor = indexed]
            /\ UNCHANGED <<indexed, running, passed>>
    /\ UNCHANGED <<head, rows, kv, tables, up, mem, left, disturbed, base>>

StoreIdle(c) ==
    /\ cycle[c].pc = "idling"
    /\ \/ kv' = cycle[c].safe /\ UNCHANGED left
       \/ Fault /\ UNCHANGED kv
    /\ End(c)
    /\ UNCHANGED <<head, rows, tables, up, indexed, mem, passed, disturbed, base>>

\* Mutant: the safe head itself is left out.
WindowShort(W) == MinOf(W.cursor + Batch, W.safe - 1)

\* toBlock
WindowEnd(W) == MinOf(W.cursor + Batch, W.safe)

\* getLogs for one window.  A filter whose call fails yields no logs, and the
\* window goes on without them; a pool that is not in uniqueFpmm has no filter.
Fetch(c) ==
    LET W == cycle[c]
        to == WindowEnd(W)
        inside == Between(W.cursor, to)
        named == {e \in inside : PoolOf[e] \in W.known}
    IN  /\ W.pc = "window" /\ W.cursor < W.safe
        /\ \E got \in {named, {}} :
            /\ IF got = named THEN UNCHANGED left ELSE Fault
            /\ cycle' = [cycle EXCEPT ![c].pc = "logs", ![c].to = to,
                                      ![c].todo = got]
            /\ passed' = passed \union (inside \ got)
        /\ UNCHANGED <<head, rows, kv, tables, up, indexed, running, mem, disturbed, base>>

Finish(c) ==
    /\ cycle[c].pc = "window" /\ cycle[c].cursor >= cycle[c].safe
    /\ End(c)
    /\ UNCHANGED <<head, rows, kv, tables, up, indexed, mem, left, passed, disturbed, base>>

\* A failed read of the head, of the markets or of a block's time aborts the
\* cycle with the cursor where it was.
Abort(c) ==
    /\ cycle[c].pc \in {"head", "markets", "apply"}
    /\ Fault
    /\ End(c)
    /\ disturbed' = TRUE
    /\ UNCHANGED <<head, rows, kv, tables, up, indexed, mem, passed, base>>

-----------------------------------------------------------------------------
(* The events of a window *)

OfPool(p) == {e \in Mined : PoolOf[e] = p}
Stored(p) == {e \in DOMAIN liq : PoolOf[e] = p}

\* The latest liquidity row of the pool; without one the balances it has on
\* the chain, which already contain every event mined.
LatestReserves(p) ==
    IF Stored(p) # {}
    THEN liq[CHOOSE e \in Stored(p) : \A d \in Stored(p) : d <= e]
    ELSE [e \in Events |-> IF e \in OfPool(p) THEN 1 ELSE 0]

\* Whichever read fails, it is logged and the pool begins without reserves.
BaseReserves(p) == {LatestReserves(p), None}

\* ensureMarketState for every pool with a log.  A failed query of the market
\* loses the log as if it could not be decoded.
EnsureMarketState(c) ==
    LET W == cycle[c]
        new == {PoolOf[e] : e \in W.todo} \ DOMAIN mem
    IN  /\ W.pc = "logs"
        /\ \/ /\ \E read \in [new -> UNION {BaseReserves(p) : p \in new}] :
                    /\ \A p \in new : read[p] \in BaseReserves(p)
                    /\ mem' = [p \in DOMAIN mem \union new |->
                                  IF p \in new THEN read[p] ELSE mem[p]]
                    /\ base' = [p \in DOMAIN mem \union new |->
                                  IF p \in new THEN read[p] ELSE base[p]]
              /\ cycle' = [cycle EXCEPT ![c].pc = "apply"]
              /\ UNCHANGED <<left, passed>>
           \/ /\ new # {} /\ Fault
              /\ cycle' = [cycle EXCEPT ![c].pc = "apply",
                               ![c].todo = {e \in W.todo : PoolOf[e] \notin new}]
              /\ passed' = passed \union {e \in W.todo : PoolOf[e] \in new}
              /\ UNCHANGED <<mem, base>>
        /\ UNCHANGED <<head, rows, kv, tables, up, indexed, running, disturbed>>

\* INSERT ... ON CONFLICT (tx_hash, log_index) DO NOTHING
RecordFunding(e, reserves) ==
    /\ liq' = IF e \in DOMAIN liq THEN liq
              ELSE [d \in DOMAIN liq \union {e} |-> IF d = e THEN reserves ELSE liq[d]]
    /\ UNCHANGED <<trades, volume>>

\* A trade that has a row is not added again, its volume is.
RecordTrade(e) ==
    /\ trades' = trades \union {e}
    /\ volume' = [volume EXCEPT ![e] = @ + 1]
    /\ UNCHANGED liq

\* handleFpmmEvent: the reserves change in memory, then come the rows.
HandleFpmmEvent(c) ==
    LET e == Min(cycle[c].todo)
        reserves == [mem[PoolOf[e]] EXCEPT ![e] = @ + 1]
    IN  /\ cycle[c].pc = "apply" /\ cycle[c].todo # {}
        /\ mem' = [mem EXCEPT ![PoolOf[e]] = reserves]
        /\ IF e \in Funding THEN RecordFunding(e, reserves) ELSE RecordTrade(e)
        /\ cycle' = [cycle EXCEPT ![c].todo = @ \ {e}]
        /\ UNCHANGED <<head, rows, kv, up, indexed, running, left, passed, disturbed, base>>

\* A failed statement ends the cycle.  The reserves in memory have changed, and
\* a trade may have its row without its volume.
HandleFails(c) ==
    LET e == Min(cycle[c].todo)
        reserves == [mem[PoolOf[e]] EXCEPT ![e] = @ + 1]
    IN  /\ cycle[c].pc = "apply" /\ cycle[c].todo # {}
        /\ Fault
        /\ mem' = [mem EXCEPT ![PoolOf[e]] = reserves]
        /\ \/ UNCHANGED trades
           \/ e \notin Funding /\ trades' = trades \union {e}
        /\ End(c)
        /\ disturbed' = TRUE
        /\ UNCHANGED <<head, rows, kv, liq, volume, up, indexed, passed, base>>

\* Mutant: the cursor is moved, and may be stored, before the logs are applied.
MoveCursorEarly(c) ==
    /\ cycle[c].pc = "apply"
    /\ cycle' = [cycle EXCEPT ![c].pc = "store", ![c].cursor = cycle[c].to]
    /\ indexed' = cycle[c].to
    /\ UNCHANGED <<head, rows, kv, tables, up, running, mem, left, passed, disturbed, base>>

\* The window is done: state.lastIndexedBlock = toBlock.
MoveCursor(c) ==
    /\ cycle[c].pc = "apply" /\ cycle[c].todo = {}
    /\ cycle' = [cycle EXCEPT ![c].pc = "store", ![c].cursor = cycle[c].to]
    /\ indexed' = cycle[c].to
    /\ UNCHANGED <<head, rows, kv, tables, up, running, mem, left, passed, disturbed, base>>

\* A failed write is logged and the next window begins.
StoreCursor(c) ==
    /\ cycle[c].pc = "store"
    /\ \/ kv' = cycle[c].cursor /\ UNCHANGED left
       \/ Fault /\ UNCHANGED kv
    /\ cycle' = [cycle EXCEPT ![c].pc = "window"]
    /\ UNCHANGED <<head, rows, tables, up, indexed, running, mem, passed, disturbed, base>>

-----------------------------------------------------------------------------
(* Environment *)

Mine ==
    /\ head < MaxBlock
    /\ head' = head + 1
    /\ UNCHANGED <<rows, kv, tables, memory, left, passed, disturbed, base>>

\* market.update sets fpmm_address, before or after the pool's first events.
AddRow(p) ==
    /\ p \notin rows
    /\ rows' = rows \union {p}
    /\ UNCHANGED <<head, kv, tables, memory, left, passed, disturbed, base>>

\* The process ends and is started again: Postgres is what remains.
Restart ==
    /\ up /\ left.crashes > 0
    /\ left' = [left EXCEPT !.crashes = @ - 1]
    /\ up' = FALSE /\ indexed' = 0 /\ running' = FALSE /\ mem' = <<>>
    /\ cycle' = [c \in Cycles |-> Idle]
    /\ disturbed' = TRUE /\ base' = <<>>
    /\ UNCHANGED <<head, rows, kv, tables, passed>>

CycleStep(c) ==
    \/ Tick(c) \/ ReadHead(c) \/ ReadMarkets(c) \/ StoreIdle(c)
    \/ Fetch(c) \/ EnsureMarketState(c) \/ HandleFpmmEvent(c)
    \/ MoveCursor(c) \/ StoreCursor(c) \/ Finish(c)

Next ==
    \/ Start
    \/ \E c \in Cycles : CycleStep(c) \/ Abort(c) \/ HandleFails(c)
    \/ Mine
    \/ \E p \in Pools : AddRow(p)
    \/ Restart

Spec == Init /\ [][Next]_vars

\* The interval ticks, awaited calls return and the chain goes on.
Fairness ==
    /\ WF_work(Start) /\ WF_work(Mine)
    /\ \A c \in Cycles : WF_work(CycleStep(c))

FairSpec == Spec /\ Fairness

-----------------------------------------------------------------------------
(* Properties *)

TypeOK ==
    /\ head \in 0..MaxBlock /\ rows \subseteq Pools /\ kv \in NoRow..MaxBlock
    /\ trades \subseteq Events \ Funding /\ volume \in [Events -> Nat]
    /\ DOMAIN liq \subseteq Funding
    /\ \A e \in DOMAIN liq : liq[e] \in [Events -> Nat]
    /\ up \in BOOLEAN /\ indexed \in 0..MaxBlock /\ running \in BOOLEAN
    /\ DOMAIN mem \subseteq Pools
    /\ \A p \in DOMAIN mem : mem[p] \in [Events -> Nat]
    /\ DOMAIN base = DOMAIN mem
    /\ \A p \in DOMAIN base : base[p] \in [Events -> Nat]
    /\ cycle \in [Cycles -> [pc : {"idle", "head", "markets", "idling", "window",
                                   "logs", "apply", "store"},
                             safe : 0..MaxBlock, known : SUBSET Pools,
                             cursor : 0..MaxBlock, to : 0..MaxBlock,
                             todo : SUBSET Events]]

Recorded == trades \union DOMAIN liq

(* Neither the stored cursor nor the one in memory is above an event that has *)
(* no row, unless the code gave that event up: a failed getLogs or query, a   *)
(* pool not yet known, a jump to the head.  A crash or an aborted window      *)
(* never loses one.                                                           *)
CursorHonest ==
    \A e \in Events :
        BlockOf[e] <= MaxOf(kv, indexed) => e \in Recorded \union passed

(* Within one life of the worker, with no aborted cycle and no late tick, an  *)
(* event adds at most once to what a pool's reserves were first read with, and *)
(* a trade's volume is added once: windows that follow one another, of one     *)
(* cycle or of several, never hand over the same event.                       *)
CountedOnce ==
    ~disturbed =>
        /\ \A e \in Events : volume[e] <= 1
        /\ \A p \in DOMAIN mem, e \in Events : mem[p][e] <= base[p][e] + 1

(* The cursor reaches the safe head and stays: a failing node delays cycles, it never    *)
(* blocks them.                                                               *)
CatchesUp == <>[](indexed >= MaxBlock - Confirmations)
=============================================================================
