----------------------------- MODULE MarketList -----------------------------
(* The page of all markets (app/markets/page.tsx): the list, fetched on mount *)
(* and whenever a market is announced, and a summary of each market, fetched  *)
(* a few at a time and kept for a while.  A new list starts the summaries     *)
(* again and cancels what was being fetched.  An announcement comes from the  *)
(* chain and may be heard before or after the market has its row.  Fewer      *)
(* markets exist than one request returns; filters and order are left out.    *)
EXTENDS Integers, Sequences, FiniteSets, SequencesExt

CONSTANTS Markets,     \* numbered as they were created
          CONCURRENCY, \* summaries fetched at a time
          MaxStats,    \* versions of a market's summary
          MaxHeard,    \* announcements
          MaxChanges,  \* rows created or deleted, and times that a cache gets old
          MaxFaults    \* calls that fail

ListAssumption ==
    /\ Markets \subseteq Nat /\ IsFiniteSet(Markets)
    /\ CONCURRENCY \in Nat \ {0} /\ MaxStats \in Nat /\ MaxHeard \in Nat

VARIABLES rows,    \* markets that are not deleted
          stats,   \* per market: its summary, a number that grows
          loads,   \* requests for the list, in the order they were sent
          list,    \* the state `markets`
          cache,   \* summaryCacheRef: per market what was fetched, and whether lately
          metric,  \* metricsByMarket: per market what is shown, 0 for nothing
          runs,    \* the effect's runs, in order: all but the last are cancelled
          heard,   \* history: rows there were when a market was last announced, and still are
          top,     \* history: when the list shown was read
          calm,    \* history: no request for the list failed or was overtaken
          read, changes, faults

vars == <<rows, stats, loads, list, cache, metric, runs, heard, top, calm, read, changes, faults>>
shown == <<list, cache, metric, runs>>

\* A request for the list: the initial one or a refresh, and its answer.
Load(kind) == [kind |-> kind, at |-> "sent", got |-> {}, when |-> 0]

Init ==
    /\ rows \in SUBSET Markets
    /\ stats = [m \in Markets |-> 1]
    /\ loads = <<Load("initial")>>
    /\ list = {} /\ runs = <<>>
    /\ cache = [m \in Markets |-> [data |-> 0, fresh |-> FALSE]]
    /\ metric = [m \in Markets |-> 0]
    /\ heard = {} /\ top = 0 /\ calm = TRUE
    /\ read = 0 /\ changes = 0 /\ faults = 0

Fault == faults < MaxFaults /\ faults' = faults + 1
Change == changes < MaxChanges /\ changes' = changes + 1

-----------------------------------------------------------------------------
(* The list. *)

\* GET /markets reads the rows.
ReadRows(n) ==
    /\ loads[n].at = "sent" /\ read' = read + 1
    /\ loads' = [loads EXCEPT ![n] = [@ EXCEPT !.at = "read", !.got = rows, !.when = read']]
    /\ UNCHANGED <<rows, stats, shown, heard, top, calm, changes, faults>>

\* The list has the newest market first.
NewestFirst(S) ==
    CHOOSE s \in [1..Cardinality(S) -> S] : \A i, j \in 1..Cardinality(S) : i < j => s[i] > s[j]

\* The effect on a list l: what the cache has is shown at once, and a run starts
\* for what is not there or was fetched too long ago.  An empty list has none.
Effect(l) ==
    /\ list' = l
    /\ metric' = [m \in Markets |-> IF m \in l /\ cache[m].data # 0 THEN cache[m].data ELSE metric[m]]
    /\ runs' = Append(runs, [todo |-> NewestFirst({m \in l : ~cache[m].fresh}),
                             batch |-> <<>>, missed |-> {}])
    /\ UNCHANGED cache

TakeList(n) ==
    /\ loads[n].at = "read"
    /\ loads' = [loads EXCEPT ![n].at = "over"]
    /\ Effect(loads[n].got)
    /\ top' = loads[n].when
    /\ calm' = (calm /\ loads[n].when > top)
    /\ UNCHANGED <<rows, stats, heard, read, changes, faults>>

\* The initial request empties the list, a refresh leaves it.
LoadFails(n) ==
    /\ loads[n].at \in {"sent", "read"} /\ Fault
    /\ loads' = [loads EXCEPT ![n].at = "over"]
    /\ IF loads[n].kind = "initial" THEN Effect({}) ELSE UNCHANGED shown
    /\ calm' = FALSE
    /\ UNCHANGED <<rows, stats, heard, top, read, changes>>

\* An event of the socket: a toast, and the list again.
MarketCreated ==
    /\ Len(loads) <= MaxHeard \* beside the initial request
    /\ loads' = Append(loads, Load("refresh"))
    /\ heard' = rows
    /\ UNCHANGED <<rows, stats, shown, top, calm, read, changes, faults>>

-----------------------------------------------------------------------------
(* The summaries. *)

\* Mutant of Current: a run that was cancelled goes on.
AnyRun(r) == TRUE
Current(r) == r = Len(runs)

\* The next few markets are asked for.
NextBatch(r) ==
    /\ Current(r) /\ runs[r].batch = <<>> /\ runs[r].todo # <<>>
    /\ LET todo == runs[r].todo
           size == IF Len(todo) < CONCURRENCY THEN Len(todo) ELSE CONCURRENCY
       IN runs' = [runs EXCEPT ![r] =
              [@ EXCEPT !.todo = SubSeq(todo, size + 1, Len(todo)),
                        !.batch = [m \in Range(SubSeq(todo, 1, size)) |-> -1]]]
    /\ UNCHANGED <<rows, stats, loads, list, cache, metric, heard, top, calm, read, changes, faults>>

\* The market is looked up by its id or slug; one that is deleted is not found,
\* and its request fails, which 0 stands for.
ResolveMarket(m) == IF m \in rows THEN stats[m] ELSE 0

\* A summary is read, or its request fails.
ReadSummary(r, m) ==
    /\ m \in DOMAIN runs[r].batch /\ runs[r].batch[m] = -1
    /\ \/ /\ runs' = [runs EXCEPT ![r].batch[m] = ResolveMarket(m)]
          /\ UNCHANGED faults
       \/ runs' = [runs EXCEPT ![r].batch[m] = 0] /\ Fault
    /\ UNCHANGED <<rows, stats, loads, list, cache, metric, heard, top, calm, read, changes>>

\* All of the batch have settled: unless the run is cancelled, what came is
\* cached and shown.
Settle(r) ==
    LET batch == runs[r].batch
        came == {m \in DOMAIN batch : batch[m] > 0}
    IN
    /\ batch # <<>> /\ \A m \in DOMAIN batch : batch[m] # -1
    /\ IF Current(r)
       THEN /\ cache' = [m \in Markets |-> IF m \in came THEN [data |-> batch[m], fresh |-> TRUE]
                                       ELSE cache[m]]
            /\ metric' = [m \in Markets |-> IF m \in came THEN batch[m] ELSE metric[m]]
       ELSE UNCHANGED <<cache, metric>>
    /\ runs' = [runs EXCEPT ![r] = [@ EXCEPT !.batch = <<>>,
                                             !.missed = runs[r].missed \cup (DOMAIN batch \ came)]]
    /\ UNCHANGED <<rows, stats, loads, list, heard, top, calm, read, changes, faults>>

-----------------------------------------------------------------------------
(* The world. *)

Row(m) ==
    /\ Change
    /\ rows' = IF m \in rows THEN rows \ {m} ELSE rows \cup {m}
    /\ heard' = heard \ {m}
    /\ UNCHANGED <<stats, loads, shown, top, calm, read, faults>>

Traded(m) ==
    /\ stats[m] < MaxStats /\ stats' = [stats EXCEPT ![m] = @ + 1]
    /\ UNCHANGED <<rows, loads, shown, heard, top, calm, read, changes, faults>>

\* The cache is too old, of every market that it has.
Aged ==
    /\ Change /\ \E m \in Markets : cache[m].fresh
    /\ cache' = [m \in Markets |-> [cache[m] EXCEPT !.fresh = FALSE]]
    /\ UNCHANGED <<rows, stats, loads, list, metric, runs, heard, top, calm, read, faults>>

Next ==
    \/ \E n \in DOMAIN loads : ReadRows(n) \/ TakeList(n) \/ LoadFails(n)
    \/ MarketCreated \/ Aged
    \/ \E r \in DOMAIN runs :
         NextBatch(r) \/ Settle(r) \/ \E m \in Markets : ReadSummary(r, m)
    \/ \E m \in Markets : Row(m) \/ Traded(m)

Spec == Init /\ [][Next]_vars

-----------------------------------------------------------------------------
(* Properties. *)

Loaded == \A n \in DOMAIN loads : loads[n].at = "over"
RunOver == runs # <<>> /\ runs[Len(runs)].todo = <<>> /\ runs[Len(runs)].batch = <<>>

(* When nothing is being fetched, every market that had its row when a market *)
(* was last announced, and still has it, is on the page.  Exempt is a page    *)
(* after a failed request, or one whose answer came after a later one's.      *)
NewestListed == Loaded /\ calm => heard \subseteq list

(* When a run is over every listed market shows its summary, however often    *)
(* the run was cancelled and started again in between, unless its request     *)
(* failed.                                                                    *)
SummariesShown ==
    RunOver => \A m \in list : metric[m] > 0 \/ m \in runs[Len(runs)].missed

(* What a market shows is never replaced by an older summary: neither by the  *)
(* cache nor by answers to a list that is no longer shown.                    *)
SummaryNotOlder == [][\A m \in Markets : metric'[m] >= metric[m]]_vars

ListTrue == [](NewestListed /\ SummariesShown) /\ SummaryNotOlder
=============================================================================
