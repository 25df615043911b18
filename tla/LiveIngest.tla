------------------------------ MODULE LiveIngest ------------------------------
(***************************************************************************)
(* The watchlist of pools behind the indexer (apps/api/src/workers/         *)
(* liveIngest.ts): watchers are set up from the factory's events and from   *)
(* the rows of the markets, read again every minute.                        *)
(***************************************************************************)
EXTENDS Integers

CONSTANTS Pools,     \* market makers that may be created
          Refreshes, \* refreshes that can be under way at a time
          MaxFaults  \* bound on missed events and failed calls

VARIABLES pools,    \* pool -> "none", "created", "row"
          watchers, \* pools in the watchers map
          refresh,  \* refresh -> whether it is under way, and the rows it read
          stage,    \* "off", "starting", "on", "failed" or "stopped"
          faults    \* counter of the bound

vars == <<pools, watchers, refresh, stage, faults>>

NoRefresh == [busy |-> FALSE, rows |-> {}]

Init ==
    /\ pools = [p \in Pools |-> "none"]
    /\ watchers = {} /\ refresh = [r \in Refreshes |-> NoRefresh]
    /\ stage = "off"
    /\ faults = 0

Fault == faults < MaxFaults /\ faults' = faults + 1

\* The factory is watched, and the rows are read, before the start is over.
Start ==
    /\ stage = "off"
    /\ stage' = "starting"
    /\ UNCHANGED <<pools, watchers, refresh, faults>>

\* A start that fails leaves the factory's watcher behind.
FactoryWatched == stage \in {"starting", "on", "failed"}

\* The factory's event reaches its watcher, or is missed.
PoolCreated(p) ==
    /\ pools[p] = "none"
    /\ pools' = [pools EXCEPT ![p] = "created"]
    /\ \/ FactoryWatched /\ watchers' = watchers \union {p} /\ UNCHANGED faults
       \/ FactoryWatched /\ Fault /\ UNCHANGED watchers
       \/ ~FactoryWatched /\ UNCHANGED <<watchers, faults>>
    /\ UNCHANGED <<refresh, stage>>

RowWritten(p) ==
    /\ pools[p] = "created"
    /\ pools' = [pools EXCEPT ![p] = "row"]
    /\ UNCHANGED <<watchers, refresh, stage, faults>>

\* refreshWatchlist reads the rows, at the start and then each minute, whether
\* or not the one before is over...
RefreshRead(r) ==
    /\ ~refresh[r].busy
    /\ stage = "on" \/ (stage = "starting" /\ \A s \in Refreshes : ~refresh[s].busy)
    /\ refresh' = [refresh EXCEPT ![r] = [busy |-> TRUE, rows |-> {p \in Pools : pools[p] = "row"}]]
    /\ UNCHANGED <<pools, watchers, stage, faults>>

\* Mutant of AddWatchers: only the factory's events make watchers.
AddNone(rows) == UNCHANGED <<watchers, faults>>

\* addFpmmWatcher for each row; a failed one is logged and passed over.
AddWatchers(rows) ==
    \/ watchers' = watchers \union rows /\ UNCHANGED faults
    \/ Fault /\ \E p \in rows \ watchers : watchers' = watchers \union (rows \ {p})

\* ... and adds those without a watcher, also when the ingest has stopped
\* since.
RefreshAdd(r) ==
    /\ refresh[r].busy
    /\ AddWatchers(refresh[r].rows)
    /\ refresh' = [refresh EXCEPT ![r] = NoRefresh]
    /\ stage' = IF stage = "starting" THEN "on" ELSE stage
    /\ UNCHANGED pools

\* A failed read is tried again a minute later; the first one fails the start.
RefreshFails(r) ==
    /\ refresh[r].busy /\ Fault
    /\ refresh' = [refresh EXCEPT ![r] = NoRefresh]
    /\ stage' = IF stage = "starting" THEN "failed" ELSE stage
    /\ UNCHANGED <<pools, watchers>>

Stop ==
    /\ stage = "on"
    /\ stage' = "stopped"
    /\ watchers' = {}
    /\ UNCHANGED <<pools, refresh, faults>>

-----------------------------------------------------------------------------
Refresh == \E r \in Refreshes : RefreshRead(r) \/ RefreshAdd(r)
Next == \/ Start \/ Refresh \/ Stop
        \/ \E r \in Refreshes : RefreshFails(r)
        \/ \E p \in Pools : PoolCreated(p) \/ RowWritten(p)

Spec == Init /\ [][Next]_vars

\* The interval fires and each read is answered or fails.
Fairness == WF_vars(Refresh) /\ \A r \in Refreshes : WF_vars(RefreshAdd(r))

FairSpec == Spec /\ Fairness

-----------------------------------------------------------------------------
(* While the ingest runs, a pool whose row is written gets a watcher, also   *)
(* when the factory's event was missed, a read failed or a watcher could not *)
(* be set up at first.                                                       *)
PoolWatched ==
    \A p \in Pools :
        (pools[p] = "row" /\ stage = "on") ~> (p \in watchers \/ stage = "stopped")
===============================================================================
