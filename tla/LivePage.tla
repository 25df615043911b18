------------------------------- MODULE LivePage -------------------------------
(***************************************************************************)
(* What a market's page shows of the others' actions (frontend/src/app/     *)
(* markets/[id]/MarketPageClient.tsx, lib/api.ts): a tape of trades and the *)
(* market's status, fed by summaries whose answers may come in any order,   *)
(* by a stream of events and, while the stream is down, by a poll.  The     *)
(* server's side is the summary and the stream of                           *)
(* apps/api/src/routes/markets.ts.  Trades are numbered as they are indexed.*)
(***************************************************************************)
EXTENDS Integers, Sequences, FiniteSets, SequencesExt

CONSTANTS MaxTrades,  \* bound on the trades that are indexed
          Rows,       \* trades in a summary, 20
          TapeRows,   \* MAX_TRADES, 50
          Slots,      \* bound on the summaries in flight
          MaxFaults   \* bound on failed calls, lost connections and reopenings

TapeAssumption ==
    /\ MaxTrades \in Nat /\ Rows \in Nat /\ TapeRows \in Nat
    /\ Slots \subseteq Nat /\ MaxFaults \in Nat

VARIABLES db,       \* the server: trades indexed and published, the market resolved
          stream,   \* [at, wire]
          asks,     \* slot -> a summary on its way
          page,     \* [tape, buffer, status, banner, connected, age]
          faults

vars == <<db, stream, asks, page, faults>>

Free == [at |-> "free", resolved |-> FALSE, trades |-> <<>>]

\* ORDER BY timestamp DESC LIMIT
Newest(n) == [i \in 1..(IF n < Rows THEN n ELSE Rows) |-> n + 1 - i]

Init ==
    /\ db = [rows |-> 0, sent |-> 0, indexed |-> TRUE,
             resolved |-> FALSE, answer |-> FALSE]
    /\ stream = [at |-> "closed", wire |-> <<>>]
    /\ asks = [s \in Slots |-> Free]
    /\ page = [tape |-> <<>>, buffer |-> <<>>, status |-> "none", banner |-> FALSE,
               connected |-> FALSE]
    /\ faults = 0

Fault == faults < MaxFaults /\ faults' = faults + 1

-----------------------------------------------------------------------------
(* The server: rows first, then events to those subscribed. *)

Send(event) ==
    stream' = IF stream.at = "on" THEN [stream EXCEPT !.wire = Append(@, event)] ELSE stream

TradeIndexed ==
    /\ db.rows < MaxTrades /\ db.indexed
    /\ db' = [db EXCEPT !.rows = @ + 1, !.indexed = FALSE]
    /\ UNCHANGED <<stream, asks, page, faults>>

PublishTrade ==
    /\ db.sent < db.rows
    /\ Send(db.rows)
    /\ db' = [db EXCEPT !.sent = db.rows]
    /\ UNCHANGED <<asks, page, faults>>

PublishIndexed ==
    /\ ~db.indexed /\ db.sent = db.rows
    /\ Send(0)
    /\ db' = [db EXCEPT !.indexed = TRUE]
    /\ UNCHANGED <<asks, page, faults>>

\* The trades are read some queries after the market; a query that fails or
\* takes too long counts as one without rows.
ReadTrades(s) ==
    /\ asks[s].at = "asked"
    /\ \/ /\ asks' = [asks EXCEPT ![s] = [@ EXCEPT !.at = "sent", !.trades = Newest(db.rows)]]
          /\ UNCHANGED faults
       \/ Fault /\ asks' = [asks EXCEPT ![s].at = "sent"]
    /\ UNCHANGED <<db, stream, page>>

-----------------------------------------------------------------------------
(* Summaries at the page. *)

\* A summary is asked for, which reads the market first; nothing cancels one
\* that is on its way.
Asked ==
    \E s \in Slots :
        /\ asks[s].at = "free"
        /\ \A r \in Slots : r < s => asks[r].at # "free"
        /\ asks' = [asks EXCEPT ![s] = [@ EXCEPT !.at = "asked", !.resolved = db.resolved]]

\* A row that came before is left out.
Distinct(rows) ==
    LET kept[i \in 0..Len(rows)] ==
            IF i = 0 THEN <<>>
            ELSE IF \E k \in 1..Len(kept[i - 1]) : kept[i - 1][k] = rows[i] THEN kept[i - 1]
            ELSE Append(kept[i - 1], rows[i])
    IN  kept[Len(rows)]

ApplySummary(r) ==
    page' = [page EXCEPT !.tape = r.trades,
                         !.status = IF r.resolved THEN "resolved" ELSE "active",
                         !.banner = @ \/ r.resolved]

Answer(s) ==
    /\ asks[s].at = "sent"
    /\ ApplySummary(asks[s])
    /\ asks' = [asks EXCEPT ![s] = Free]
    /\ UNCHANGED <<db, stream, faults>>

AnswerLost(s) ==
    /\ asks[s].at # "free" /\ Fault
    /\ asks' = [asks EXCEPT ![s] = Free]
    /\ UNCHANGED <<db, stream, page>>

Mount ==
    /\ stream.at = "closed"
    /\ stream' = [stream EXCEPT !.at = "opening"]
    /\ Asked
    /\ UNCHANGED <<db, page, faults>>

\* Mutant of Polling: the interval looks at the first render's flag.
PollingNever == FALSE

Polling == ~page.connected /\ stream.at # "closed"

\* Every 20 seconds while the stream is down.
Poll ==
    /\ Polling
    /\ Asked
    /\ UNCHANGED <<db, stream, page, faults>>

HandleRetry ==
    /\ page.status = "none" /\ stream.at # "closed" /\ Fault
    /\ Asked
    /\ UNCHANGED <<db, stream, page>>

-----------------------------------------------------------------------------
(* The stream. *)

\* The headers are flushed, and open the client's end, before the server
\* subscribes.
StreamOpens ==
    /\ stream.at = "opening"
    /\ stream' = [stream EXCEPT !.at = "head"]
    /\ page' = [page EXCEPT !.connected = TRUE]
    /\ UNCHANGED <<db, asks, faults>>

Subscribed ==
    /\ stream.at = "head"
    /\ stream' = [stream EXCEPT !.at = "on"]
    /\ UNCHANGED <<db, asks, page, faults>>

\* An answer other than 200 ends the stream: the browser does not try again.
StreamRefused ==
    /\ stream.at = "opening"
    /\ stream' = [stream EXCEPT !.at = "dead"]
    /\ UNCHANGED <<db, asks, page, faults>>

\* The connection breaks with what is on it, and the page hears of it later.
StreamCut ==
    /\ stream.at \in {"head", "on"} /\ Fault
    /\ stream' = [at |-> "cut", wire |-> <<>>]
    /\ UNCHANGED <<db, asks, page>>

StreamError ==
    /\ stream.at = "cut"
    /\ stream' = [stream EXCEPT !.at = "opening"]
    /\ page' = [page EXCEPT !.connected = FALSE]
    /\ UNCHANGED <<db, asks, faults>>

\* The effect runs again when the price the page read changes.
Reopen ==
    /\ stream.at # "closed" /\ Fault
    /\ stream' = [at |-> "opening", wire |-> <<>>]
    /\ page' = [page EXCEPT !.connected = FALSE]
    /\ UNCHANGED <<db, asks>>

\* A refresh shared by both kinds of events: at most one in 3 seconds after
\* a trade, in 8 after an indexed event.  One that is not due is dropped, and
\* either may be: the clock is not kept.
Throttled == Asked \/ UNCHANGED asks

OnTrade(t) ==
    /\ t # 0
    /\ page' = [page EXCEPT !.buffer = <<t>> \o @]
    /\ Throttled

OnIndexed(t) == t = 0 /\ Throttled /\ UNCHANGED page

Deliver ==
    /\ stream.wire # <<>>
    /\ OnTrade(Head(stream.wire)) \/ OnIndexed(Head(stream.wire))
    /\ stream' = [stream EXCEPT !.wire = Tail(@)]
    /\ UNCHANGED <<db, faults>>

\* Mutant of Merge: the rows that came before are kept as they are.
MergePlain(new, old) == new \o old

Merge(new, old) == Distinct(new \o old)

FlushBufferedTrades ==
    /\ page.buffer # <<>>
    /\ LET rows == Merge(page.buffer, page.tape)
       IN  page' = [page EXCEPT !.buffer = <<>>,
                                !.tape = SubSeq(rows, 1, IF Len(rows) < TapeRows THEN Len(rows)
                                                                                ELSE TapeRows)]
    /\ UNCHANGED <<db, stream, asks, faults>>

-----------------------------------------------------------------------------
(* The administrator resolves from this page, which hears of it when its     *)
(* call is answered, or from elsewhere.                                      *)

RowResolved ==
    /\ ~db.resolved
    /\ db.rows = MaxTrades  \* bound: nobody trades after the resolution
    /\ \E here \in BOOLEAN : db' = [db EXCEPT !.resolved = TRUE, !.answer = here]
    /\ UNCHANGED <<stream, asks, page, faults>>

HandleResolve ==
    /\ db.answer
    /\ db' = [db EXCEPT !.answer = FALSE]
    /\ page' = [page EXCEPT !.status = "resolved", !.banner = TRUE]
    /\ Asked
    /\ UNCHANGED <<stream, faults>>

-----------------------------------------------------------------------------
Server == PublishTrade \/ PublishIndexed \/ Subscribed
Summary(s) == ReadTrades(s) \/ Answer(s)
Client == Deliver \/ FlushBufferedTrades

Next == \/ Server \/ Client \/ Poll \/ HandleRetry
        \/ \E s \in Slots : Summary(s) \/ AnswerLost(s)
        \/ TradeIndexed \/ RowResolved \/ Mount
        \/ StreamOpens \/ StreamRefused \/ StreamCut \/ StreamError \/ Reopen
        \/ HandleResolve

Spec == Init /\ [][Next]_vars

\* The server answers, timers fire and callbacks run.
Fairness == /\ WF_vars(Server) /\ WF_vars(Client) /\ WF_vars(Poll)
            /\ \A s \in Slots : WF_vars(Summary(s))

FairSpec == Spec /\ Fairness

-----------------------------------------------------------------------------
(* Properties. *)

(* The tape shows each trade once and only trades that were indexed, also    *)
(* when a trade reaches the page by an event and in summaries that overtake  *)
(* one another; the banner is shown only over a resolved market.             *)
TapeOnce ==
    /\ \A i, j \in DOMAIN page.tape : page.tape[i] = page.tape[j] => i = j
    /\ \A i \in DOMAIN page.tape : page.tape[i] <= db.rows
    /\ page.banner => db.resolved

(* A page whose stream is refused still ends up showing the last trades, in  *)
(* order, and the market's true status, whatever was lost or came late.      *)
PageCatchesUp ==
    <>[](stream.at = "dead") =>
        <>[](/\ page.tape = Newest(db.rows)
             /\ page.status = IF db.resolved THEN "resolved" ELSE "active")
===============================================================================
