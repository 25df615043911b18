-------------------------------- MODULE Tags --------------------------------
(* The curated tags (routes/admin.ts, routes/markets.ts, admin/tags/page.tsx):*)
(* a table of tags with a visibility, filled from the tags that markets carry *)
(* by an administrator's sync.  Two open pages edit it, each with a copy of   *)
(* the list that it changes ahead of the answers; requests of one page        *)
(* overlap, handlers are made of several queries, and each may fail.          *)
(* Counts of markets and the order of the list are left out.                  *)
EXTENDS Naturals, Sequences, FiniteSets, Functions

CONSTANTS Tabs,      \* pages of administrators
          Labels,    \* normalized tags
          MaxRows,   \* tags created
          MaxClicks, \* requests started
          MaxFaults  \* queries and replies that fail

VARIABLES name,   \* name[id]: the tag of the id-th row ever created
          rows,   \* the table: the ids in it and their visibility
          used,   \* tags of the markets that are not deleted
          shown,  \* each page's list: ids and visibility; the state `tags`
          asks,   \* requests under way
          calm,   \* history: pages whose list nothing has come across, see Calm
          clicks, \* requests started so far
          faults  \* failures so far

vars == <<name, rows, used, shown, asks, calm, clicks, faults>>

Ids == 1..MaxRows
None == <<>>

\* A request: the page, the button, the row it is about (0 for none), where it
\* is, the value wanted, the rows read, the tags still to create, and whether
\* rows changed since they were read or although the reply says failure.
Asks == [tab : Tabs, kind : {"list", "sync", "toggle", "delete"}, id : 0..MaxRows]
Idle == [at |-> "idle", want |-> FALSE, read |-> None, todo |-> {}, old |-> FALSE]

Busy(p) == {a \in Asks : a.tab = p /\ asks[a].at # "idle"}
Quiet(p) == Busy(p) = {}

Init ==
    /\ \/ name = <<>> /\ rows = None
       \/ \E t \in Labels, v \in BOOLEAN : name = <<t>> /\ rows = [id \in {1} |-> v]
    /\ used \in SUBSET Labels
    /\ shown = [p \in Tabs |-> None]
    /\ asks = [a \in Asks |-> Idle]
    /\ calm = {} /\ clicks = 0 /\ faults = 0

\* A request starts; another of the same page under way is not calm.
Click(a, call) ==
    /\ clicks < MaxClicks /\ clicks' = clicks + 1
    /\ asks[a].at = "idle"
    /\ asks' = [asks EXCEPT ![a] = call]
    /\ calm' = IF Quiet(a.tab) THEN calm ELSE calm \ {a.tab}
    /\ UNCHANGED <<name, rows, used, faults>>

\* The effect that verifies the session on mount, whose success fetches.
Open(p) ==
    /\ Click([tab |-> p, kind |-> "list", id |-> 0], [Idle EXCEPT !.at = "verify"])
    /\ UNCHANGED shown

Sync(p) ==
    /\ Click([tab |-> p, kind |-> "sync", id |-> 0], [Idle EXCEPT !.at = "markets"])
    /\ UNCHANGED shown

\* The page shows the new value before the server has it.
Toggle(p, id) ==
    LET want == ~shown[p][id] IN
    /\ id \in DOMAIN shown[p]
    /\ Click([tab |-> p, kind |-> "toggle", id |-> id], [Idle EXCEPT !.at = "act", !.want = want])
    /\ shown' = [shown EXCEPT ![p][id] = want]

Delete(p, id) ==
    /\ id \in DOMAIN shown[p]
    /\ Click([tab |-> p, kind |-> "delete", id |-> id], [Idle EXCEPT !.at = "act"])
    /\ UNCHANGED shown

User(p) == Open(p) \/ Sync(p) \/ \E id \in Ids : Toggle(p, id) \/ Delete(p, id)

-----------------------------------------------------------------------------
(* The handlers. *)

Fault == faults < MaxFaults /\ faults' = faults + 1
Now(a, call) == asks' = [asks EXCEPT ![a] = call]

\* Rows change under request a: lists read before are old, and what the other
\* pages show is not known to be true any more.
Changed(a, call) ==
    /\ asks' = [b \in Asks |-> IF b = a THEN call
                             ELSE [asks[b] EXCEPT !.old = @ \/ asks[b].at = "listed"]]
    /\ calm' = calm \cap {a.tab}

Verified(a) ==
    /\ asks[a].at = "verify"
    /\ \/ Now(a, [asks[a] EXCEPT !.at = "list"]) /\ UNCHANGED faults
       \/ Now(a, Idle) /\ Fault
    /\ UNCHANGED <<name, rows, used, shown, calm, clicks>>

ReadList(a) ==
    /\ asks[a].at = "list"
    /\ \/ /\ Now(a, [asks[a] EXCEPT !.at = "listed", !.read = rows, !.old = FALSE])
          /\ UNCHANGED faults
       \/ Now(a, [asks[a] EXCEPT !.at = "failed"]) /\ Fault
    /\ UNCHANGED <<name, rows, used, shown, calm, clicks>>

Flipped(a) == [rows EXCEPT ![a.id] = ~@]
Stored(a) == [rows EXCEPT ![a.id] = asks[a].want]

\* The update, then the query for the count, which may fail after it.
Update(a) ==
    /\ a.kind = "toggle" /\ asks[a].at = "act"
    /\ \/ /\ a.id \in DOMAIN rows
          /\ rows' = Stored(a)
          /\ \/ Changed(a, [asks[a] EXCEPT !.at = "done"]) /\ UNCHANGED faults
             \/ Changed(a, [asks[a] EXCEPT !.at = "failed", !.old = TRUE]) /\ Fault
       \/ /\ a.id \notin DOMAIN rows
          /\ Now(a, [asks[a] EXCEPT !.at = "failed", !.old = FALSE])
          /\ UNCHANGED <<rows, calm, faults>>
       \/ /\ Now(a, [asks[a] EXCEPT !.at = "failed", !.old = FALSE]) /\ Fault
          /\ UNCHANGED <<rows, calm>>
    /\ UNCHANGED <<name, used, shown, clicks>>

Remove(a) ==
    /\ a.kind = "delete" /\ asks[a].at = "act"
    /\ \/ /\ a.id \in DOMAIN rows
          /\ rows' = Restrict(rows, DOMAIN rows \ {a.id})
          /\ \/ Changed(a, [asks[a] EXCEPT !.at = "done"]) /\ UNCHANGED faults
             \/ Changed(a, [asks[a] EXCEPT !.at = "failed", !.old = TRUE]) /\ Fault
       \/ /\ a.id \notin DOMAIN rows
          /\ Now(a, [asks[a] EXCEPT !.at = "failed", !.old = FALSE])
          /\ UNCHANGED <<rows, calm, faults>>
    /\ UNCHANGED <<name, used, shown, clicks>>

\* A sync reads the markets, then the rows, then creates what is missing.
ReadMarkets(a) ==
    /\ asks[a].at = "markets"
    /\ Now(a, [asks[a] EXCEPT !.at = "existing", !.todo = used])
    /\ UNCHANGED <<name, rows, used, shown, calm, clicks, faults>>

Listed(t) == \E id \in DOMAIN rows : name[id] = t
Existing == {t \in Labels : Listed(t)}

\* What a visitor's filter menu offers.
Offered == {name[id] : id \in {i \in DOMAIN rows : rows[i]}}

ReadExisting(a) ==
    /\ asks[a].at = "existing"
    /\ Now(a, [asks[a] EXCEPT !.at = "create", !.todo = @ \ Existing])
    /\ UNCHANGED <<name, rows, used, shown, calm, clicks, faults>>

\* One row at a time.  The name is unique: a tag another sync has created since
\* ends this one with an error, after the rows it has created.
Create(a) ==
    /\ asks[a].at = "create"
    /\ \E t \in asks[a].todo :
         \/ /\ ~Listed(t) /\ Len(name) < MaxRows
            /\ name' = Append(name, t)
            /\ rows' = [id \in DOMAIN rows \cup {Len(name')} |->
                            IF id = Len(name') THEN TRUE ELSE rows[id]]
            /\ Changed(a, [asks[a] EXCEPT !.todo = @ \ {t}, !.old = TRUE])
            /\ UNCHANGED faults
         \/ /\ Listed(t)
            /\ Now(a, [asks[a] EXCEPT !.at = "failed"])
            /\ UNCHANGED <<name, rows, calm, faults>>
         \/ /\ Now(a, [asks[a] EXCEPT !.at = "failed"]) /\ Fault
            /\ UNCHANGED <<name, rows, calm>>
    /\ UNCHANGED <<used, shown, clicks>>

\* Nothing is left: the reply comes and the page asks for the list.
Synced(a) ==
    /\ asks[a].at = "create" /\ asks[a].todo = {}
    /\ Now(a, [asks[a] EXCEPT !.at = "list"])
    /\ UNCHANGED <<name, rows, used, shown, calm, clicks, faults>>

-----------------------------------------------------------------------------
(* The page takes the replies. *)

\* A list replaces what is shown.
TakeList(a) ==
    /\ asks[a].at = "listed"
    /\ shown' = [shown EXCEPT ![a.tab] = asks[a].read]
    /\ calm' = IF ~asks[a].old /\ Busy(a.tab) = {a}
               THEN calm \cup {a.tab} ELSE calm \ {a.tab}
    /\ Now(a, Idle)
    /\ UNCHANGED <<name, rows, used, clicks, faults>>

\* The row is kept as wanted, or leaves the list.
TakeDone(a) ==
    /\ asks[a].at = "done"
    /\ shown' = IF a.kind = "delete"
                THEN [shown EXCEPT ![a.tab] = Restrict(@, DOMAIN @ \ {a.id})] ELSE shown
    /\ Now(a, Idle)
    /\ UNCHANGED <<name, rows, used, calm, clicks, faults>>

Reverted(p, a) ==
    IF a.kind = "toggle" /\ a.id \in DOMAIN shown[p]
    THEN [shown[p] EXCEPT ![a.id] = ~asks[a].want] ELSE shown[p]

\* A failed toggle is undone on the page; rows that changed all the same are not
\* shown.
TakeFailure(a) ==
    /\ asks[a].at = "failed"
    /\ shown' = [shown EXCEPT ![a.tab] = Reverted(a.tab, a)]
    /\ calm' = IF asks[a].old THEN calm \ {a.tab} ELSE calm
    /\ Now(a, Idle)
    /\ UNCHANGED <<name, rows, used, clicks, faults>>

\* Markets come and go with their tags.
MarketTags ==
    /\ used' \in SUBSET Labels /\ used' # used
    /\ clicks < MaxClicks /\ clicks' = clicks + 1
    /\ UNCHANGED <<name, rows, shown, asks, calm, faults>>

Request(a) ==
    \/ Verified(a) \/ ReadList(a) \/ Update(a) \/ Remove(a)
    \/ ReadMarkets(a) \/ ReadExisting(a) \/ Create(a) \/ Synced(a)
    \/ TakeList(a) \/ TakeDone(a) \/ TakeFailure(a)

Next == (\E p \in Tabs : User(p)) \/ (\E a \in Asks : Request(a)) \/ MarketTags

Spec == Init /\ [][Next]_vars

-----------------------------------------------------------------------------
(* Properties. *)

(* A page at rest shows the table, through toggles that were undone, syncs    *)
(* that ended early and rows that others had removed.  Calm are the pages     *)
(* that have a list nothing came across: no other page changed a row since,   *)
(* no two of its requests overlapped, and none failed after its effect.       *)
PageShowsRows == \A p \in calm : Quiet(p) => shown[p] = rows

(* Visitors are offered a tag, or not any more, only because an administrator *)
(* asked for that, or the row is new: no sync, however it overlaps with       *)
(* others, shows a hidden tag again.                                          *)
Asked(t, v) ==
    \E a \in Asks : /\ a.kind = "toggle" /\ a.id \in DOMAIN rows /\ name[a.id] = t
                    /\ asks[a].at = "act" /\ asks[a].want = v
HiddenStays ==
    [][/\ \A t \in Offered' \ Offered : t \notin Existing \/ Asked(t, TRUE)
       /\ \A t \in Offered \ Offered' : t \notin Existing' \/ Asked(t, FALSE)]_vars

TagsTrue == []PageShowsRows /\ HiddenStays
=============================================================================
