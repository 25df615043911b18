----------------------------- MODULE MC_Requests -----------------------------
(* What requests and processes of the API share, for TLC: each behaviour is  *)
(* about one such thing, the wallet's session (Sessions), the rows of a pool *)
(* that are replayed (Backfill), the node's rate limit (RpcLimiter), the     *)
(* schema (Startup) or the comments of a market (Discussion).  Tabs,         *)
(* wallets, nonces, tokens and requests are alike.                           *)
EXTENDS Sessions, TLC

CONSTANTS Txs, Kind, Unlisted,                                      \* Backfill
          Second, maxQps, burst, backoffBase, backoffMax, MaxClock,  \* RpcLimiter
          Orderbook, MaxStarts,                                      \* Startup
          MaxComments, Limit,                                        \* Discussion
          MaxFaults                                                  \* bound of both

VARIABLES about,   \* what this behaviour is about
          faults   \* calls that failed
VARIABLES mined, trades, liq, volume, cursor, sweep, replay, skipped
VARIABLES clock, tokens, lastRefill, currentBackoff, call, sent
VARIABLES schema, renamed, ordered, applied, proc, starts
VARIABLES stored, own, post, due, events, ask, view, base, owed

Replay == INSTANCE Backfill WITH req <- replay
Limiter == INSTANCE RpcLimiter WITH Callers <- Requests, MaxTime <- MaxClock, now <- clock
Process == INSTANCE Startup WITH Processes <- Requests, trades <- ordered
Thread == INSTANCE Discussion

ASSUME ReplayAssumption == Replay!BackfillAssumption
ASSUME LimiterAssumption == Limiter!LimiterAssumption
ASSUME ProcessAssumption == Process!StartupAssumption
ASSUME ThreadAssumption == Thread!DiscussionAssumption

sessionVars == vars
replayVars == <<mined, trades, liq, volume, cursor, sweep, replay, skipped>>
limiterVars == <<clock, tokens, lastRefill, currentBackoff, call, sent>>
startVars == <<schema, renamed, ordered, applied, proc, starts>>
threadVars == <<stored, own, post, due, events, ask, view, base, owed>>
requests == <<about, faults, sessionVars, replayVars, limiterVars, startVars,
              threadVars>>

RequestsInit ==
    /\ about \in {"session", "replay", "rate", "start", "comments"}
    /\ Init /\ Replay!Init /\ Limiter!Init /\ Process!Init /\ Thread!Init
    /\ about # "start" => ordered = "none" /\ renamed = "none"

Session == /\ about = "session" /\ Next
           /\ UNCHANGED <<about, faults, replayVars, limiterVars, startVars, threadVars>>
Replaying == /\ about = "replay" /\ Replay!Next
             /\ UNCHANGED <<about, sessionVars, limiterVars, startVars, threadVars>>
Rate == /\ about = "rate" /\ Limiter!Next
        /\ UNCHANGED <<about, faults, sessionVars, replayVars, startVars, threadVars>>
Starting == /\ about = "start" /\ Process!Next
            /\ UNCHANGED <<about, faults, sessionVars, replayVars, limiterVars, threadVars>>
Commenting == /\ about = "comments" /\ Thread!Next
              /\ UNCHANGED <<about, sessionVars, replayVars, limiterVars, startVars>>
RequestsNext == Session \/ Replaying \/ Rate \/ Starting \/ Commenting

RequestsSpec == RequestsInit /\ [][RequestsNext]_requests

PoolTxs == <<{1}, {2}, {3, 4}>>
PoolKinds == <<"add", "trade", "remove", "trade">>

Alike == UNION {Permutations(S) : S \in {Tabs, Wallets, Requests, Nonces, Tokens}}

(* The rows of a backfill carry what the listed history up to them added and *)
(* traded, each event once; removals, which the code has no case for, stay   *)
(* in, so the rows after one are too high by what it took.                   *)
ReplayTrue == Replay!ReplayTrue

(* No stretch of time sees more calls of the node than its limit allows.     *)
RateKept == Limiter!RateKept

(* A process that serves finds every column its migrations were to make.     *)
ServesMigrated == Process!ServesMigrated

(* Comments are listed once, and none that the page was given is missing.    *)
ThreadWhole == Thread!ThreadWhole
==============================================================================
