------------------------------ MODULE HomeCard ------------------------------
(* The live market of the home page (components/LiveMarketCard.tsx): a card   *)
(* that turns through the markets of the API and shows for each the price of  *)
(* the last point of its series.  The series comes from the recorded points   *)
(* once, and grows by prices computed from two balances of the pool, at most  *)
(* one read each throttle period.  It is kept when the list is fetched again, *)
(* and beside the page, so that a later visit starts from it.                 *)
EXTENDS Integers, Sequences, FiniteSets, SequencesExt

CONSTANTS Markets,    \* numbered as they were created
          Live,       \* those that are traded
          MaxTrades,  \* trades
          MaxTime,    \* throttle periods
          MaxMoves,   \* cards turned, lists fetched and pages left
          MaxFaults   \* calls that fail

CardAssumption ==
    /\ Markets \subseteq Nat /\ IsFiniteSet(Markets) /\ Live \subseteq Markets
    /\ MaxTrades \in Nat /\ MaxTime \in Nat

VARIABLES traded,   \* per market: trades of its pool, which number its prices
          recorded, \* per market: the price of its last recorded point
          now,      \* in throttle periods
          visit,    \* the visit of the page
          list,     \* apiMarkets, in order
          turned,   \* currentIndex
          card,     \* the state `markets`: per market of the list its last point
          cache,    \* spotSeriesCache: per market its last point
          fetched,  \* lastMetricsFetch
          asks,     \* the bag of calls under way
          known,    \* history: per market, the newest price that a call brought
          crossed,  \* history: markets whose calls were answered out of order
          moves, faults

vars == <<traded, recorded, now, visit, list, turned, card, cache, fetched, asks,
          known, crossed, moves, faults>>
page == <<visit, list, turned>>
world == <<traded, recorded, now>>

\* A price is as old as the older of the two balances it is computed from.
NoPoint == [of |-> 0, price |-> 0]

\* A call reads the balances, or the points; -1 is not read yet.  Base is
\* what was known of the market when it was sent.
Ask(kind, m, v) == [kind |-> kind, of |-> m, visit |-> v, base |-> known[m], read |-> -1]

\* The list has the newest market first.
NewestFirst(S) ==
    CHOOSE s \in [1..Cardinality(S) -> S] : \A i, j \in 1..Cardinality(S) : i < j => s[i] > s[j]
Listings == {NewestFirst(S) : S \in (SUBSET Markets) \ {{}}}

Visible(l, i) == l[IF i <= Len(l) THEN i ELSE Len(l)]

Init ==
    /\ traded = [m \in Markets |-> 0]
    /\ recorded \in {[m \in Markets |-> r] : r \in {-1, 0}}
    /\ now = 1 /\ visit = 1
    /\ list = <<>> /\ turned = 1
    /\ card = [m \in Markets |-> NoPoint]
    /\ cache = [m \in Markets |-> NoPoint]
    /\ fetched = [m \in Markets |-> 0]
    /\ asks = EmptyBag /\ crossed = {} /\ moves = 0 /\ faults = 0
    /\ known = [m \in Markets |-> 0]

Move == moves < MaxMoves /\ moves' = moves + 1
Fault == faults < MaxFaults /\ faults' = faults + 1

-----------------------------------------------------------------------------
(* The page. *)

\* loadSpotSeries goes on only if the market has no points yet.
LoadSeries(m, points) == points[m] = NoPoint

\* refreshMarketSpot goes on once in a throttle period.
RefreshSpot(m, times) == times[m] < now

\* The effect of a change of the cards, for the visible market m: what is sent
\* beside the calls under way.
Effect(m, points, times, others, v) ==
    LET series == {Ask("series", m, v) : x \in {y \in {m} : LoadSeries(y, points)}}
        spot == {Ask("spot", m, v) : x \in {y \in {m} : RefreshSpot(y, times)}}
    IN
    /\ asks' = others (+) SetToBag(series \cup spot)
    /\ fetched' = [times EXCEPT ![m] = now]

Listed(l) == Range(l)

\* Each market keeps the points of the cache, or those it had.
Mapped(l, prior) == [m \in Markets |-> IF m \notin Listed(l) THEN NoPoint
                                    ELSE IF cache[m] # NoPoint THEN cache[m] ELSE prior[m]]

\* The list arrives, for the first time or again.
TakeList(l) ==
    /\ l # list
    /\ IF list = <<>> THEN UNCHANGED moves ELSE Move
    /\ list' = l /\ card' = Mapped(l, card)
    /\ Effect(Visible(l, turned), cache, fetched, asks, visit)
    /\ UNCHANGED <<world, visit, turned, cache, known, crossed, faults>>

Turn ==
    /\ Len(list) > 1 /\ Move
    /\ turned' = IF turned >= Len(list) THEN 1 ELSE turned + 1
    /\ Effect(Visible(list, turned'), cache, fetched, asks, visit)
    /\ UNCHANGED <<world, visit, list, card, cache, known, crossed, faults>>

\* onTrade, of the visible market: one more read, in its turn.
TradeSeen(m) ==
    /\ list # <<>> /\ m = Visible(list, turned) /\ traded[m] > 0
    /\ RefreshSpot(m, fetched)
    /\ asks' = asks (+) SetToBag({Ask("spot", m, visit)})
    /\ fetched' = [fetched EXCEPT ![m] = now]
    /\ UNCHANGED <<world, page, card, cache, known, crossed, moves, faults>>

\* Another visit: the page's own state is gone, the cache is not, nor the list.
Revisit ==
    /\ list # <<>> /\ Move
    /\ visit' = visit + 1 /\ turned' = 1
    /\ card' = Mapped(list, [m \in Markets |-> NoPoint])
    /\ Effect(list[1], cache, [m \in Markets |-> 0], asks, visit + 1)
    /\ UNCHANGED <<world, list, cache, known, crossed, faults>>

-----------------------------------------------------------------------------
(* The calls. *)

Without(a) == asks (-) SetToBag({a})

Read(a, price) ==
    /\ a.read = -1
    /\ asks' = Without(a) (+) SetToBag({[a EXCEPT !.read = price]})
    /\ UNCHANGED <<world, page, card, cache, fetched, known, crossed, moves, faults>>

ReadBalances(a) == a.kind = "spot" /\ Read(a, traded[a.of])
ReadPoints(a) == a.kind = "series" /\ recorded[a.of] >= 0 /\ Read(a, recorded[a.of])

\* An error, another chain, or no points: the card stays as it is.
Nothing(a) ==
    /\ \/ a.kind = "series" /\ a.read = -1 /\ recorded[a.of] = -1 /\ UNCHANGED faults
       \/ Fault
    /\ asks' = Without(a)
    /\ UNCHANGED <<world, page, card, cache, fetched, known, crossed, moves>>

\* A read is dropped if its time, by the page's clock or of the trade's event,
\* is not after that of the visit's last one. The clocks differ: it may be.
Dropped(a) ==
    /\ a.kind = "spot" /\ a.read >= 0
    /\ asks' = Without(a)
    /\ UNCHANGED <<world, page, card, cache, fetched, known, crossed, moves, faults>>

\* The card is there to be changed.
Here(a) == a.visit = visit /\ a.of \in Listed(list)

\* A newer price came since the call was sent.
Overtaken(a) == a.read < known[a.of] /\ a.base < known[a.of]

\* The answer comes: its point is the card's last one, and the cache's; a series
\* is cached even for a page that is gone.  The effect runs again.
Land(a) ==
    LET p == [of |-> a.of, price |-> a.read]
        cached == Here(a) \/ a.kind = "series"
        points == IF cached THEN [cache EXCEPT ![a.of] = p] ELSE cache
    IN
    /\ a.read >= 0
    /\ card' = IF Here(a) THEN [card EXCEPT ![a.of] = p] ELSE card
    /\ cache' = points
    /\ IF a.visit = visit
       THEN Effect(Visible(list, turned), points, fetched, Without(a), visit)
       ELSE asks' = Without(a) /\ UNCHANGED fetched
    /\ known' = [known EXCEPT ![a.of] = IF Here(a) /\ a.read > @ THEN a.read ELSE @]
    /\ crossed' = IF cached /\ Overtaken(a) THEN crossed \cup {a.of} ELSE crossed
    /\ UNCHANGED <<world, page, moves, faults>>

-----------------------------------------------------------------------------
(* The world. *)

Trade(m) ==
    /\ traded[m] < MaxTrades /\ traded' = [traded EXCEPT ![m] = @ + 1]
    /\ UNCHANGED <<recorded, now, page, card, cache, fetched, asks, known, crossed, moves, faults>>

\* Some page posts the price it has seen.
Record(m) ==
    /\ recorded[m] < traded[m] /\ recorded' = [recorded EXCEPT ![m] = traded[m]]
    /\ UNCHANGED <<traded, now, page, card, cache, fetched, asks, known, crossed, moves, faults>>

Tick ==
    /\ now < MaxTime /\ now' = now + 1
    /\ UNCHANGED <<traded, recorded, page, card, cache, fetched, asks, known, crossed, moves, faults>>

Next ==
    \/ \E l \in Listings : TakeList(l)
    \/ Turn \/ Revisit \/ Tick
    \/ \E a \in DOMAIN asks :
         ReadBalances(a) \/ ReadPoints(a) \/ Nothing(a) \/ Dropped(a) \/ Land(a)
    \/ \E m \in Live : Trade(m) \/ Record(m) \/ TradeSeen(m)

Spec == Init /\ [][Next]_vars

-----------------------------------------------------------------------------
(* Properties. *)

(* A card's price is one of its own market, whatever was turned, fetched or   *)
(* visited while it was read, and no older than any that the card has shown:  *)
(* neither another list nor a later visit brings an old price back.  Exempt   *)
(* are markets for which an answer came that a later call's answer had        *)
(* overtaken: the page keeps what comes last.                                 *)
CardTrue ==
    \A m \in Markets : card[m] # NoPoint =>
        /\ card[m].of = m
        /\ m \notin crossed => card[m].price >= known[m]
=============================================================================
