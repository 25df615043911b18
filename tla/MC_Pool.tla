------------------------------- MODULE MC_Pool -------------------------------
(* A pool and what is read of it, for TLC: each behaviour is about the       *)
(* contract and the reserves an index derives from its events                *)
(* (IndexedReserves) or about the reads of the market (MarketReads).         *)
EXTENDS IndexedReserves, TLC

\* Of MarketReads.
CONSTANTS Requests, MaxIndexed, MaxReads, MaxMisses

VARIABLES about,   \* what this behaviour is about
          mined, seen, stored, snapshots, sync, job, probed, served, req, reads, misses, top, late

Reads == INSTANCE MarketReads WITH NumTrades <- MaxIndexed, MaxFaults <- MaxMisses,
           rows <- snapshots, faults <- misses

readVars == <<mined, seen, stored, snapshots, sync, job, probed, served, req, reads, misses, top, late>>
poolVars == <<about, allVars, readVars>>

PoolInit ==
    /\ about \in {"contract", "reads"}
    /\ IndexedInit /\ Reads!Init
    /\ about # "reads" => sync = 0

Contract == about = "contract" /\ IndexedNext /\ UNCHANGED <<about, readVars>>
MarketRead == about = "reads" /\ Reads!Next /\ UNCHANGED <<about, allVars>>
PoolNext == Contract \/ MarketRead

PoolSpec == PoolInit /\ [][PoolNext]_poolVars

ASSUME PoolAssumption == Reads!ReadsAssumption

Symmetry == Permutations(Accounts) \union Permutations(Requests)
\* A first funding at odds of one to two.
Skewed == {[o \in Outcomes |-> o + 1]}

(* A TVL that is answered without the stale flag accounts for every trade up *)
(* to the cursor there was when the request came.                            *)
TvlFresh == Reads!TvlFresh
==============================================================================
