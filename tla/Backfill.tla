------------------------------- MODULE Backfill -------------------------------
(***************************************************************************)
(* POST /admin/markets/:marketId/backfill (apps/api/src/routes/admin.ts,   *)
(* lib/backfillFpmm.ts): the transactions that Etherscan lists for a pool  *)
(* are replayed from empty reserves into trades, liquidity_events and      *)
(* candles_5m, and market_sync is set to the last of them.  The indexer    *)
(* writes the same tables meanwhile: any row, in any order.                *)
(*                                                                         *)
(* Reserves are the multiset of the events they account for: applied in    *)
(* the order of the log, with BuyIndexed and SellIndexed of                *)
(* IndexedReserves, these make the amounts.  A transaction's               *)
(* number is its block, and events are numbered as they are logged: a list *)
(* is the set of what is left of it, taken from its least.                 *)
(***************************************************************************)
EXTENDS Integers, Sequences

CONSTANTS Requests,   \* backfills, each asked for once
          Txs,        \* the pool's transactions, each the set of its events
          Kind,       \* event -> "add", "remove" or "trade"
          Unlisted,   \* transactions that reached the pool through a contract
          MaxFaults   \* bound on failed calls

Events == UNION {Txs[t] : t \in DOMAIN Txs}

BackfillAssumption ==
    /\ Txs \in Seq(SUBSET Nat)
    /\ \A t, u \in DOMAIN Txs : t < u => \A d \in Txs[t], e \in Txs[u] : d < e
    /\ Kind \in [Events -> {"add", "remove", "trade"}]
    /\ Unlisted \subseteq DOMAIN Txs
    /\ MaxFaults \in Nat

VARIABLES mined,    \* transactions mined
          trades,   \* events with a row in trades
          liq,      \* liquidity_events: event -> [by, reserves]
          volume,   \* candles_5m.volume_usdf: event -> times added
          cursor,   \* market_sync.last_indexed_block
          sweep,    \* recon:q:sweep holds a job for the market
          req,      \* the backfills
          faults,   \* failed calls so far
          skipped   \* history: events one of whose inserts failed

tables == <<trades, liq, volume>>
vars == <<mined, tables, cursor, sweep, req, faults, skipped>>

None == [e \in Events |-> 0]
Idle == [pc |-> "new", list |-> {}, logs |-> {}, last |-> 0, reserves |-> None]

Init ==
    /\ mined = 0 /\ trades = {} /\ liq = <<>> /\ volume = None
    /\ cursor = 0 /\ sweep = FALSE
    /\ req = [r \in Requests |-> Idle]
    /\ faults = 0 /\ skipped = {}

Mine == /\ mined < Len(Txs) /\ mined' = mined + 1
        /\ UNCHANGED <<tables, cursor, sweep, req, faults, skipped>>

-----------------------------------------------------------------------------
(* What else writes these rows (module Indexer). *)

Put(e, by, reserves) ==
    liq' = IF e \in DOMAIN liq THEN liq
           ELSE [d \in DOMAIN liq \union {e} |->
                   IF d = e THEN [by |-> by, reserves |-> reserves] ELSE liq[d]]

\* The indexer stores an event with the reserves it holds.
Indexed(e) ==
    /\ e \in Events \ DOMAIN liq
    /\ \E t \in 1..mined : e \in Txs[t]
    /\ Put(e, "indexer", None)
    /\ IF Kind[e] = "trade"
       THEN /\ trades' = trades \union {e} /\ volume' = [volume EXCEPT ![e] = @ + 1]
       ELSE UNCHANGED <<trades, volume>>
    /\ UNCHANGED <<mined, cursor, sweep, req, faults, skipped>>

\* A read of the market asks for a sweep; its end sets the cursor.
SweepAsked == /\ ~sweep /\ sweep' = TRUE
              /\ UNCHANGED <<mined, tables, cursor, req, faults, skipped>>
Swept == /\ sweep /\ sweep' = FALSE /\ cursor' = mined
         /\ UNCHANGED <<mined, tables, req, faults, skipped>>

-----------------------------------------------------------------------------
(* The request. *)

Listed == (1..mined) \ Unlisted

Least(S) == CHOOSE x \in S : \A y \in S : x <= y

Answer(r, outcome) == req' = [req EXCEPT ![r].pc = outcome]

\* Etherscan answers with no list when there is nothing to list.
Ask(r) ==
    /\ req[r].pc = "new"
    /\ IF Listed = {} THEN Answer(r, "failed")
       ELSE req' = [req EXCEPT ![r].pc = "receipt", ![r].list = Listed]
    /\ UNCHANGED <<mined, tables, cursor, sweep, faults, skipped>>

\* The receipt and the block of the next transaction.
Receipt(r) ==
    /\ req[r].pc = "receipt" /\ req[r].list # {}
    /\ LET t == Least(req[r].list)
       IN  req' = [req EXCEPT ![r].pc = "log", ![r].list = @ \ {t},
                              ![r].logs = Txs[t], ![r].last = t]
    /\ UNCHANGED <<mined, tables, cursor, sweep, faults, skipped>>

\* A list, a receipt or a block that cannot be had ends the request.
ReceiptFails(r) ==
    /\ req[r].pc = "receipt" /\ req[r].list # {}
    /\ faults < MaxFaults /\ faults' = faults + 1
    /\ Answer(r, "failed")
    /\ UNCHANGED <<mined, tables, cursor, sweep, skipped>>

At(r, pc) == req[r].pc = pc /\ req[r].logs # {}
E(r) == Least(req[r].logs)
NextLog(r) == req' = [req EXCEPT ![r].pc = "log", ![r].logs = @ \ {E(r)}]
Plus(reserves, e) == [reserves EXCEPT ![e] = @ + 1]

\* Mutant of CountLog: the reserves are left for when the row is stored.
CountLater(r) == [req EXCEPT ![r].pc = IF Kind[E(r)] = "trade" THEN "trade" ELSE "liquidity"]

\* The reserves change in memory before the event's rows are stored.
CountLog(r) ==
    [req EXCEPT ![r].pc = IF Kind[E(r)] = "trade" THEN "trade" ELSE "liquidity",
                ![r].reserves = Plus(@, E(r))]

\* FPMMFundingRemoved has no case: it is passed over.
DecodeLog(r) ==
    /\ At(r, "log")
    /\ IF Kind[E(r)] = "remove" THEN NextLog(r) ELSE req' = CountLog(r)
    /\ UNCHANGED <<mined, tables, cursor, sweep, faults, skipped>>

InsertTrade(r) ==
    /\ At(r, "trade")
    /\ trades' = trades \union {E(r)}
    /\ req' = [req EXCEPT ![r].pc = "liquidity"]
    /\ UNCHANGED <<mined, liq, volume, cursor, sweep, faults, skipped>>

InsertLiquidityEvent(r) ==
    /\ At(r, "liquidity")
    /\ Put(E(r), "backfill", req[r].reserves)
    /\ IF Kind[E(r)] = "trade" THEN req' = [req EXCEPT ![r].pc = "candle"] ELSE NextLog(r)
    /\ UNCHANGED <<mined, trades, volume, cursor, sweep, faults, skipped>>

UpsertCandle(r) ==
    /\ At(r, "candle")
    /\ volume' = [volume EXCEPT ![E(r)] = @ + 1]
    /\ NextLog(r)
    /\ UNCHANGED <<mined, trades, liq, cursor, sweep, faults, skipped>>

\* The catch meant for logs that do not decode takes a failed insert too.
InsertFails(r) ==
    /\ \E pc \in {"trade", "liquidity", "candle"} : At(r, pc)
    /\ faults < MaxFaults /\ faults' = faults + 1
    /\ skipped' = skipped \union {E(r)}
    /\ NextLog(r)
    /\ UNCHANGED <<mined, tables, cursor, sweep>>

EndOfReceipt(r) ==
    /\ req[r].pc = "log" /\ req[r].logs = {}
    /\ req' = [req EXCEPT ![r].pc = "receipt"]
    /\ UNCHANGED <<mined, tables, cursor, sweep, faults, skipped>>

\* Whatever the cursor has become meanwhile.
StoreCursor(r) ==
    /\ req[r].pc = "receipt" /\ req[r].list = {}
    /\ cursor' = req[r].last
    /\ req' = [req EXCEPT ![r].pc = "cleanup"]
    /\ UNCHANGED <<mined, tables, sweep, faults, skipped>>

\* The market's sweep lock and queued jobs are removed; an error is logged.
Cleanup(r) ==
    /\ req[r].pc = "cleanup"
    /\ sweep' \in IF faults < MaxFaults THEN {sweep, FALSE} ELSE {FALSE}
    /\ faults' = IF sweep /\ sweep' THEN faults + 1 ELSE faults
    /\ Answer(r, "ok")
    /\ UNCHANGED <<mined, tables, cursor, skipped>>

Handler(r) ==
    \/ Receipt(r) \/ ReceiptFails(r) \/ DecodeLog(r) \/ InsertTrade(r)
    \/ InsertLiquidityEvent(r) \/ UpsertCandle(r) \/ InsertFails(r)
    \/ EndOfReceipt(r) \/ StoreCursor(r) \/ Cleanup(r)

Next ==
    \/ Mine \/ SweepAsked \/ Swept
    \/ \E e \in Events : Indexed(e)
    \/ \E r \in Requests : Ask(r) \/ Handler(r)

Spec == Init /\ [][Next]_vars

-----------------------------------------------------------------------------
(* Properties. *)

\* The listed history up to e, each event once.
History(e) ==
    [d \in Events |-> IF d <= e /\ \E t \in DOMAIN Txs \ Unlisted : d \in Txs[t]
                      THEN 1 ELSE 0]

\* What the code makes of it: a removal is not taken out of the reserves.
Replayed(e) == [d \in Events |-> IF Kind[d] = "remove" THEN 0 ELSE History(e)[d]]

RemovedBefore(e) == \E d \in Events : Kind[d] = "remove" /\ History(e)[d] = 1

(* Rows that a backfill stores carry what the listed history up to their     *)
(* event has added and traded, each event once, and nothing of what it has   *)
(* removed: they are the reserves of that history exactly where it holds no  *)
(* removal yet, and after one they are too high by what left the pool.       *)
(* Inserts that fail and are swallowed, a second backfill and an indexer     *)
(* that stores rows at the same time do not disturb this.  A backfill that   *)
(* answers ok has left every listed event that it has a case for with its    *)
(* rows, except where an insert failed.                                      *)
ReplayTrue ==
    /\ \A e \in DOMAIN liq : liq[e].by = "backfill" =>
         /\ liq[e].reserves = Replayed(e)
         /\ liq[e].reserves = History(e) <=> ~RemovedBefore(e)
    /\ \A r \in Requests : req[r].pc = "ok" =>
         \A t \in 1..req[r].last : t \notin Unlisted =>
           \A e \in Txs[t] : Kind[e] # "remove" /\ e \notin skipped =>
             /\ e \in DOMAIN liq
             /\ Kind[e] = "trade" => e \in trades
===============================================================================
