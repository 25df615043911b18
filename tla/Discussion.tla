------------------------------ MODULE Discussion ------------------------------
(***************************************************************************)
(* The comments of a market (frontend/src/app/markets/[id]/                 *)
(* MarketPageClient.tsx, components/MarketDiscussion.tsx, lib/api.ts) and   *)
(* the routes behind them (apps/api/src/routes/comments.ts): one page that  *)
(* loads the newest comments, asks for older ones, posts its own and hears  *)
(* of the others' by an event.  Comments are numbered as they are stored;   *)
(* what is kept of one is the millisecond of its createdAt.                 *)
(***************************************************************************)
EXTENDS Integers, Sequences, FiniteSets, SequencesExt

CONSTANTS MaxComments,  \* bound on the comments stored
          Limit,        \* the page's limit, 20
          MaxFaults     \* bound on failed calls and broken streams

DiscussionAssumption == Limit \in Nat \ {0} /\ MaxComments \in Nat /\ MaxFaults \in Nat

VARIABLES stored,   \* the table: createdAt of each comment
          own,      \* the comments this page posted
          post,     \* this page's POST: "none", "asked" or "stored"
          due,      \* stored and not yet published
          events,   \* [on, wire]: the page's stream
          ask,      \* [kind, at, before, rows, count]: a list on its way
          view,     \* [comments, hasMore, loading]
          base,     \* history: comments stored when the first list was read
          owed,     \* history: comments the page was given and has to show
          faults

vars == <<stored, own, post, due, events, ask, view, base, owed, faults>>

NoAsk == [kind |-> "none", at |-> "none", before |-> 0, rows |-> <<>>, count |-> 0]

Asked(kind, before) == [NoAsk EXCEPT !.kind = kind, !.at = "asked", !.before = before]

\* The effect that loads the comments runs as the page appears.
Init ==
    /\ stored = <<>> /\ own = {} /\ post = "none" /\ due = {}
    /\ events = [on |-> FALSE, wire |-> <<>>]
    /\ ask = Asked("load", 0)
    /\ view = [comments |-> <<>>, hasMore |-> FALSE, loading |-> TRUE]
    /\ base = 0 /\ owed = {} /\ faults = 0

Fault == faults < MaxFaults /\ faults' = faults + 1

-----------------------------------------------------------------------------
(* The server. *)

\* Bound: fewer than a page of comments is stored between storing one and
\* its event's arrival.
Brisk == \A i \in due \union ToSet(events.wire) : Len(stored) + 1 - i < Limit

\* A comment is stored with the time of its creation.
Create(mine) ==
    /\ Len(stored) < MaxComments /\ Brisk
    /\ \E time \in IF stored = <<>> THEN {1} ELSE {Last(stored), Last(stored) + 1} :
          stored' = Append(stored, time)
    /\ due' = due \union {Len(stored) + 1}
    /\ own' = IF mine THEN own \union {Len(stored) + 1} ELSE own
    /\ UNCHANGED <<events, ask, view, base, owed>>

PostComment == Create(FALSE) /\ UNCHANGED <<post, faults>>

PostOwnComment ==
    /\ post = "asked"
    /\ Create(TRUE)
    /\ post' = "stored"
    /\ UNCHANGED faults

\* The broadcast to those subscribed; one that fails is logged.
Publish(i) ==
    /\ i \in due
    /\ due' = due \ {i}
    /\ \/ /\ events' = IF events.on THEN [events EXCEPT !.wire = Append(@, i)] ELSE events
          /\ UNCHANGED faults
       \/ Fault /\ UNCHANGED events
    /\ UNCHANGED <<stored, own, post, ask, view, base, owed>>

\* The newest comments before a time, the newest first, at most a page; of
\* comments of one millisecond any may come first.
Lists(before) ==
    LET fits == {i \in DOMAIN stored : before = 0 \/ stored[i] < before}
        size == IF Cardinality(fits) < Limit THEN Cardinality(fits) ELSE Limit
    IN  {s \in [1..size -> fits] :
            /\ \A p, q \in 1..size : p < q => s[p] # s[q] /\ stored[s[p]] >= stored[s[q]]
            /\ \A i \in fits \ {s[p] : p \in 1..size}, p \in 1..size : stored[i] <= stored[s[p]]}

ListComments ==
    /\ ask.at = "asked"
    /\ \E rows \in Lists(ask.before) :
          ask' = [ask EXCEPT !.at = "read", !.rows = rows, !.count = Len(stored)]
    /\ UNCHANGED <<stored, own, post, due, events, view, base, owed, faults>>

-----------------------------------------------------------------------------
(* The lists at the page. *)

\* The first list replaces what is shown, events that were faster included.
Loaded ==
    /\ ask.kind = "load" /\ ask.at = "read"
    /\ view' = [comments |-> ask.rows, hasMore |-> Len(ask.rows) >= Limit, loading |-> FALSE]
    /\ base' = ask.count
    /\ owed' = 1..ask.count
    /\ ask' = NoAsk
    /\ UNCHANGED <<stored, own, post, due, events, faults>>

LoadFails ==
    /\ ask.kind = "load" /\ Fault
    /\ view' = [comments |-> <<>>, hasMore |-> FALSE, loading |-> FALSE]
    /\ owed' = {}
    /\ ask' = NoAsk
    /\ UNCHANGED <<stored, own, post, due, events, base>>

\* Mutant of OldestTime: the cut is taken from the top of the list.
NewestTime(comments) == stored[Head(comments)]

OldestTime(comments) == stored[Last(comments)]

\* The button is there while there is more, and disabled while a list loads.
LoadMore ==
    /\ view.hasMore /\ ~view.loading /\ view.comments # <<>>
    /\ ask' = Asked("more", OldestTime(view.comments))
    /\ view' = [view EXCEPT !.loading = TRUE]
    /\ UNCHANGED <<stored, own, post, due, events, base, owed, faults>>

MoreLoaded ==
    /\ ask.kind = "more" /\ ask.at = "read"
    /\ view' = [comments |-> view.comments \o ask.rows,
                hasMore |-> Len(ask.rows) >= Limit, loading |-> FALSE]
    /\ ask' = NoAsk
    /\ UNCHANGED <<stored, own, post, due, events, base, owed, faults>>

MoreFails ==
    /\ ask.kind = "more" /\ Fault
    /\ view' = [view EXCEPT !.loading = FALSE]
    /\ ask' = NoAsk
    /\ UNCHANGED <<stored, own, post, due, events, base, owed>>

-----------------------------------------------------------------------------
(* Posting, one comment at a time, and events. *)

Submit ==
    /\ post = "none" /\ own = {}  \* bound: one comment of its own
    /\ post' = "asked"
    /\ UNCHANGED <<stored, own, due, events, ask, view, base, owed, faults>>

\* The answer comes after the broadcast; what it brings is put on top.
Submitted ==
    \E i \in own \ due :
        /\ post = "stored"
        /\ post' = "none"
        /\ view' = [view EXCEPT !.comments = <<i>> \o @]
        /\ owed' = owed \union {i}
        /\ UNCHANGED <<stored, own, due, events, ask, base, faults>>

\* A failed call: the comment may be stored all the same.
SubmitFails ==
    /\ post # "none" /\ Fault
    /\ post' = "none"
    /\ UNCHANGED <<stored, own, due, events, ask, view, base, owed>>

Subscribe ==
    /\ ~events.on
    /\ events' = [events EXCEPT !.on = TRUE]
    /\ UNCHANGED <<stored, own, post, due, ask, view, base, owed, faults>>

StreamBreaks ==
    /\ events.on /\ Fault
    /\ events' = [on |-> FALSE, wire |-> <<>>]
    /\ UNCHANGED <<stored, own, post, due, ask, view, base, owed>>

Put(i, comments) == IF i \in ToSet(comments) THEN comments ELSE <<i>> \o comments

OnComment ==
    /\ events.wire # <<>>
    /\ view' = [view EXCEPT !.comments = Put(Head(events.wire), @)]
    /\ owed' = owed \union {Head(events.wire)}
    /\ events' = [events EXCEPT !.wire = Tail(@)]
    /\ UNCHANGED <<stored, own, post, due, ask, base, faults>>

-----------------------------------------------------------------------------
Next ==
    \/ PostComment \/ PostOwnComment \/ ListComments
    \/ \E i \in due : Publish(i)
    \/ Loaded \/ LoadFails \/ LoadMore \/ MoreLoaded \/ MoreFails
    \/ Submit \/ Submitted \/ SubmitFails
    \/ Subscribe \/ StreamBreaks \/ OnComment

Spec == Init /\ [][Next]_vars

-----------------------------------------------------------------------------
(* Properties. *)

Shown == ToSet(view.comments)

Times(i) == Cardinality({p \in DOMAIN view.comments : view.comments[p] = i})

Tied(i) == \E j \in DOMAIN stored \ {i} : stored[j] = stored[i]

(* A comment of somebody else is shown once, whether an event or a list      *)
(* brings it first; older pages come below newer ones; and when the page     *)
(* offers no more, every comment it was given is there.  Of comments of one  *)
(* millisecond the next page's cut may leave some out.                       *)
ThreadWhole ==
    /\ \A i \in Shown \ own : Times(i) = 1
    /\ \A p, q \in DOMAIN view.comments :
          p < q => LET i == view.comments[p]
                       j == view.comments[q]
                   IN  \/ stored[i] >= stored[j]
                       \/ i \in own \/ Tied(i)
                       \/ i > base /\ j > base
    /\ ~view.hasMore => \A i \in owed \ Shown : Tied(i)
===============================================================================
