------------------------------ MODULE SpotPoints ------------------------------
(***************************************************************************)
(* The points of a market's chart.  No server job records them: every page  *)
(* that hears of a trade reads the pool's two reserves and posts a point    *)
(* (MarketPageClient.tsx, recordSpotPointFromChain), and the server stores  *)
(* it under the time the page gives it (apps/api/src/routes/markets.ts).    *)
(* Reserves are the number of trades they include.                          *)
(***************************************************************************)
EXTENDS Integers

CONSTANTS Visitors,   \* pages open on the market
          NumTrades,  \* bound on trades
          Drained,    \* numbers of trades after which the pool holds nothing
          LastTime,   \* bound on the clock, in milliseconds
          MaxFaults   \* bound on failed calls

VARIABLES traded,  \* trades in the chain so far
          now,     \* the clock
          calls,   \* <<page, trade>> -> a call of recordSpotPointFromChain
          points,  \* market_spot_points: timestamp -> reserves
          faults

vars == <<traded, now, calls, points, faults>>

Calls == Visitors \X (1..NumTrades)
NoCall == [at |-> "none", yes |-> -1, no |-> -1, ts |-> 0,
           lost |-> FALSE]   \* history: why no point is stored

Init ==
    /\ traded = 0 /\ now = 0
    /\ calls = [c \in Calls |-> NoCall]
    /\ points = [ts \in {} |-> NoCall]
    /\ faults = 0

Trade ==
    /\ traded < NumTrades
    /\ traded' = traded + 1
    /\ UNCHANGED <<now, calls, points, faults>>

Tick ==
    /\ now < LastTime
    /\ now' = now + 1
    /\ UNCHANGED <<traded, calls, points, faults>>

Step(c, r) == calls' = [calls EXCEPT ![c] = r]

\* onTrade: calls for several trades run beside one another.
Heard(c) ==
    /\ calls[c].at = "none" /\ c[2] <= traded
    /\ Step(c, [NoCall EXCEPT !.at = "reading"])
    /\ UNCHANGED <<traded, now, points, faults>>

\* Each balance is a call of its own, of the latest block then.
ReadBalance(c) == traded

ReadYes(c) ==
    /\ calls[c].at = "reading" /\ calls[c].yes = -1
    /\ Step(c, [calls[c] EXCEPT !.yes = ReadBalance(c)])
    /\ UNCHANGED <<traded, now, points, faults>>

ReadNo(c) ==
    /\ calls[c].at = "reading" /\ calls[c].no = -1
    /\ Step(c, [calls[c] EXCEPT !.no = ReadBalance(c)])
    /\ UNCHANGED <<traded, now, points, faults>>

Post(c) ==
    /\ calls[c].at = "reading" /\ calls[c].yes # -1 /\ calls[c].no # -1
    /\ Step(c, [calls[c] EXCEPT !.at = "posted", !.ts = now])
    /\ UNCHANGED <<traded, now, points, faults>>

\* A page that fails to read or to post gives up.
CallFails(c) ==
    /\ calls[c].at \in {"reading", "posted"}
    /\ faults < MaxFaults /\ faults' = faults + 1
    /\ Step(c, [calls[c] EXCEPT !.at = "done", !.lost = TRUE])
    /\ UNCHANGED <<traded, now, points>>

\* INSERT ... ON CONFLICT (market_id, timestamp) DO NOTHING; nothing is
\* stored of an empty pool.
UpsertSpotPoint(c) ==
    LET r == calls[c]
        empty == {r.yes, r.no} \subseteq Drained
        taken == r.ts \in DOMAIN points
    IN  /\ points' = IF empty \/ taken THEN points
                     ELSE [ts \in DOMAIN points \union {r.ts} |->
                             IF ts = r.ts THEN [yes |-> r.yes, no |-> r.no] ELSE points[ts]]
        /\ Step(c, [r EXCEPT !.at = "done", !.lost = empty \/ taken])

SpotPoint(c) ==
    /\ calls[c].at = "posted"
    /\ UpsertSpotPoint(c)
    /\ UNCHANGED <<traded, now, faults>>

Recording(c) == ReadYes(c) \/ ReadNo(c) \/ Post(c) \/ SpotPoint(c)

Next == \/ Trade \/ Tick
        \/ \E c \in Calls : Heard(c) \/ Recording(c) \/ CallFails(c)

Spec == Init /\ [][Next]_vars

\* Calls return.
Fairness == \A c \in Calls : WF_vars(Recording(c))

FairSpec == Spec /\ Fairness

(* A trade a page heard of gets a point whose reserves both include it.  The *)
(* exceptions are a call that failed, a drained pool, and a point whose      *)
(* millisecond another page has taken with reserves that may be older.       *)
PointFollows ==
    \A c \in Calls :
        calls[c].at = "reading"
            ~> \/ \E ts \in DOMAIN points : points[ts].yes >= c[2] /\ points[ts].no >= c[2]
               \/ calls[c].lost
===============================================================================
