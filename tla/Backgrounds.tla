----------------------------- MODULE Backgrounds -----------------------------
(* The pictures behind tiles (routes/admin.ts, routes/tileBackgrounds.ts and  *)
(* the two admin pages).  A picture is saved as a file and then as the row of *)
(* its tag; a deleted row leaves the file, which the public listing then      *)
(* offers under the tag that its name spells.  One administrator goes between *)
(* the page of rows and the grid of the public listing, which is also what    *)
(* visitors get; their cached queries are refetched when a change succeeds.   *)
EXTENDS Naturals, Sequences, FiniteSets, Functions

CONSTANTS Labels,     \* normalized tags
          FileTag,    \* [Labels -> Labels]: what the name of a tag's file spells
          MaxSaves,   \* pictures uploaded
          MaxDeletes, \* deletions asked for
          MaxTurns,   \* pages opened
          MaxFaults   \* writes, queries and replies that fail

FileTagAssumption == FileTag \in [Labels -> Labels]

VARIABLES saves,   \* per upload: its tag and where it is
          files,   \* the uploads whose file was written, oldest first
          rows,    \* per tag with a row: its id, the upload it shows, and since when
          deletes, \* per deletion: the id and where it is
          page,    \* the page that is open: "admin" (rows) or "public" (grid)
          query,   \* the cached query of each page
          turns, faults

vars == <<saves, files, rows, deletes, page, query, turns, faults>>

Queries == {"admin", "public"}

\* Entries of a listing.  A file's id is no row's.  A time is a number of files
\* written: a row is younger than the files there were when it was updated.
Entry(t, id, n, time) == [tag |-> t, id |-> id, image |-> n, time |-> time]
NoData == {Entry("nothing loaded yet", 0, 0, 0)}
RowEntries(r) == {Entry(t, r[t].id, r[t].image, r[t].time) : t \in DOMAIN r}
EveryFile(r) ==
    {Entry(FileTag[saves[files[i]].tag], 0, files[i], i) : i \in DOMAIN files}
FileEntries(r) ==
    {e \in EveryFile(r) : e.tag \notin DOMAIN r}
Listing(r) == RowEntries(r) \cup FileEntries(r)

\* What a tile with the tag shows: its newest entry.
Pick(entries, t) ==
    LET mine == {e \in entries : e.tag = t} IN
    CHOOSE e \in mine : \A d \in mine : d.time < e.time \/ (d.time = e.time /\ d.id <= e.id)

\* fetch: the query under way; read: the rows it has read; kept: tags whose row
\* has not changed since; stale: to be fetched when its page opens; missed:
\* history, rows may have changed without a refetch.
NoQuery == [data |-> NoData, fetch |-> "none", read |-> <<>>, kept |-> {},
            stale |-> TRUE, missed |-> FALSE]

Init ==
    /\ saves = <<>> /\ files = <<>> /\ rows = <<>> /\ deletes = <<>>
    /\ page = "admin"
    /\ query = [q \in Queries |-> IF q = "admin" THEN [NoQuery EXCEPT !.fetch = "sent"] ELSE NoQuery]
    /\ turns = 0 /\ faults = 0

Fault == faults < MaxFaults /\ faults' = faults + 1

Sent(q) == [q EXCEPT !.fetch = "sent", !.missed = FALSE]
Missed(q) == [q EXCEPT !.missed = TRUE]

\* What a success invalidates is fetched again: at once if its page is open,
\* when that opens otherwise.  A fetch under way is superseded only if its page
\* is open and has data; else its answer, of before, will count as fresh.
Invalidated(q) ==
    LET now == query[q] IN
    IF now.fetch = "none"
    THEN IF q = page THEN Sent(now) ELSE [now EXCEPT !.stale = TRUE]
    ELSE IF q = page /\ now.data # NoData THEN Sent(now) ELSE Missed(now)

\* The page of rows invalidates both queries, the grid only its own: rows that
\* are open, or being fetched, when a change of the grid succeeds miss it.
Succeeds(from) ==
    query' = [query EXCEPT
        !["public"] = Invalidated("public"),
        !["admin"] = IF from = "admin" THEN Invalidated("admin")
                     ELSE IF page = "admin" \/ @.fetch # "none" THEN Missed(@) ELSE @]

\* A failure refetches nothing, whatever it has changed.
Fails == query' = [q \in Queries |-> Missed(query[q])]

\* The row of tag t changes while listings are being read.
Touched(t) == [q \in Queries |-> [query[q] EXCEPT !.kept = @ \ {t}]]

-----------------------------------------------------------------------------
(* Uploads and deletions. *)

\* The form of the first page, or Replace on an entry of the grid.
Save(t) ==
    /\ Len(saves) < MaxSaves
    /\ \/ page = "admin" /\ \A i \in DOMAIN saves : saves[i].at \in {"over"}
       \/ page = "public" /\ \E e \in query["public"].data \ NoData : e.tag = t
    /\ saves' = Append(saves, [tag |-> t, at |-> "write", from |-> page])
    /\ UNCHANGED <<files, rows, deletes, page, query, turns, faults>>

WriteFile(n) ==
    /\ saves[n].at = "write"
    /\ \/ /\ files' = Append(files, n) /\ saves' = [saves EXCEPT ![n].at = "upsert"]
          /\ UNCHANGED faults
       \/ saves' = [saves EXCEPT ![n].at = "failed"] /\ Fault /\ UNCHANGED files
    /\ UNCHANGED <<rows, deletes, page, query, turns>>

\* A tag keeps its row's id; a failed upsert leaves the file.
Upsert(n) ==
    /\ saves[n].at = "upsert"
    /\ LET t == saves[n].tag IN
       \/ /\ rows' = [u \in DOMAIN rows \cup {t} |->
                        IF u # t THEN rows[u]
                        ELSE [id |-> IF t \in DOMAIN rows THEN rows[t].id ELSE n,
                              image |-> n, time |-> Len(files)]]
          /\ query' = Touched(t)
          /\ \/ saves' = [saves EXCEPT ![n].at = "saved"] /\ UNCHANGED faults
             \/ saves' = [saves EXCEPT ![n].at = "failed"] /\ Fault
       \/ saves' = [saves EXCEPT ![n].at = "failed"] /\ Fault /\ UNCHANGED <<rows, query>>
    /\ UNCHANGED <<files, deletes, page, turns>>

SaveReply(n) ==
    /\ saves[n].at \in {"saved", "failed"}
    /\ saves' = [saves EXCEPT ![n].at = "over"]
    /\ IF saves[n].at = "saved" THEN Succeeds(saves[n].from) ELSE Fails
    /\ UNCHANGED <<files, rows, deletes, page, turns, faults>>

\* Delete on an entry that is shown; one at a time on the first page.
Delete(e) ==
    /\ Len(deletes) < MaxDeletes
    /\ e \in query[page].data \ NoData
    /\ page = "admin" => \A i \in DOMAIN deletes : deletes[i].at = "over"
    /\ deletes' = Append(deletes, [id |-> e.id, at |-> "sent", from |-> page])
    /\ UNCHANGED <<saves, files, rows, page, query, turns, faults>>

\* The row goes, the file stays; no row has a file's id.
DeleteRow(i) ==
    /\ deletes[i].at = "sent"
    /\ \/ \E t \in DOMAIN rows :
            /\ rows[t].id = deletes[i].id
            /\ rows' = Restrict(rows, DOMAIN rows \ {t})
            /\ query' = Touched(t)
            /\ \/ deletes' = [deletes EXCEPT ![i].at = "gone"] /\ UNCHANGED faults
               \/ deletes' = [deletes EXCEPT ![i].at = "failed"] /\ Fault
       \/ /\ \A t \in DOMAIN rows : rows[t].id # deletes[i].id
          /\ deletes' = [deletes EXCEPT ![i].at = "failed"]
          /\ UNCHANGED <<rows, query, faults>>
    /\ UNCHANGED <<saves, files, page, turns>>

DeleteReply(i) ==
    /\ deletes[i].at \in {"gone", "failed"}
    /\ deletes' = [deletes EXCEPT ![i].at = "over"]
    /\ IF deletes[i].at = "gone" THEN Succeeds(deletes[i].from) ELSE Fails
    /\ UNCHANGED <<saves, files, rows, page, turns, faults>>

-----------------------------------------------------------------------------
(* Listings. *)

\* Opening a page fetches its query, the rows always and the grid if stale; a
\* fetch under way is waited for.
Opens(q) == q = "admin" \/ query[q].stale
Open(q) ==
    /\ q \in Queries \ {page} /\ turns < MaxTurns /\ turns' = turns + 1
    /\ page' = q
    /\ query' = IF Opens(q) /\ query[q].fetch = "none"
                THEN [query EXCEPT ![q] = Sent(@)] ELSE query
    /\ UNCHANGED <<saves, files, rows, deletes, faults>>

\* The rows are read, for the administrator the answer.
ReadRows(q) ==
    /\ query[q].fetch = "sent"
    /\ query' = [query EXCEPT ![q] =
                    [@ EXCEPT !.fetch = "rows", !.read = rows, !.kept = DOMAIN rows]]
    /\ UNCHANGED <<saves, files, rows, deletes, page, turns, faults>>

\* The public listing reads the directory after the rows.
Answer(q) ==
    /\ query[q].fetch = "rows"
    /\ query' = [query EXCEPT ![q] =
                    [@ EXCEPT !.fetch = "none", !.stale = FALSE,
                              !.data = IF q = "admin" THEN RowEntries(query[q].read)
                                       ELSE Listing(query[q].read)]]
    /\ UNCHANGED <<saves, files, rows, deletes, page, turns, faults>>

\* The error is shown, over the data there was.
FetchFails(q) ==
    /\ query[q].fetch \in {"sent", "rows"} /\ Fault
    /\ query' = [query EXCEPT ![q] = [@ EXCEPT !.fetch = "none", !.kept = {}, !.missed = TRUE]]
    /\ UNCHANGED <<saves, files, rows, deletes, page, turns>>

Next ==
    \/ \E t \in Labels : Save(t)
    \/ \E n \in DOMAIN saves : WriteFile(n) \/ Upsert(n) \/ SaveReply(n)
    \/ \E e \in query[page].data \ NoData : Delete(e)
    \/ \E i \in DOMAIN deletes : DeleteRow(i) \/ DeleteReply(i)
    \/ \E q \in Queries : Open(q) \/ ReadRows(q) \/ Answer(q) \/ FetchFails(q)

Spec == Init /\ [][Next]_vars

-----------------------------------------------------------------------------
(* Properties. *)

AtRest ==
    /\ \A i \in DOMAIN saves : saves[i].at = "over"
    /\ \A i \in DOMAIN deletes : deletes[i].at = "over"
    /\ query[page].fetch = "none"

(* At rest the page that is open shows the rows, or the listing, as they are, *)
(* wherever the changes were made and whatever was being fetched meanwhile.   *)
(* Exempt is a page after a failure, and one that missed a change: see        *)
(* Invalidated and Succeeds.                                                  *)
PageShowsBackgrounds ==
    AtRest /\ ~query[page].missed =>
        query[page].data = IF page = "admin" THEN RowEntries(rows) ELSE Listing(rows)

(* A listing in which a saved picture stayed all along offers that one for    *)
(* its tag: not an older file, nor that of an upload which failed or is not   *)
(* finished.                                                                  *)
TileShowsSaved ==
    LET q == query["public"] IN
    q.fetch = "none" => \A t \in q.kept : Pick(q.data, t).image = q.read[t].image

BackgroundsTrue == PageShowsBackgrounds /\ TileShowsSaved
=============================================================================
