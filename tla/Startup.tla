------------------------------- MODULE Startup -------------------------------
(***************************************************************************)
(* The start and the end of API processes that share a database            *)
(* (apps/api/src/index.ts, db/migrate.ts): the migrations, one statement   *)
(* at a time, then the server, the indexer, the live ingest and the port.  *)
(* A process may be killed between any two steps, and is started again.    *)
(*                                                                         *)
(* A table stands for itself and its indexes; markets and what else the    *)
(* Prisma schema pushes is there before the first start.  The process      *)
(* imports its migrations from scripts/migrate, a file that is not in the  *)
(* repository: db/migrate.ts, which nothing imports, is taken for it.      *)
(***************************************************************************)
EXTENDS Integers, Sequences, FiniteSets, SequencesExt

CONSTANTS Processes, Orderbook,  \* TRUE if the push has made orderbook_trades
          MaxStarts              \* bound on starts

StartupAssumption == Orderbook \subseteq BOOLEAN /\ MaxStarts \in Nat

VARIABLES schema,   \* tables, functions and triggers
          trades,   \* what public.trades is: "none", "legacy", "cased" (the same
                    \* with the column names that Prisma makes) or "fpmm"
          renamed,  \* what public.orderbook_trades is: "none", "pushed", "legacy" or "fpmm"
          applied,  \* schema_migrations
          proc,     \* the processes: pc, and the next migration and statement
          starts

db == <<schema, trades, renamed, applied>>
vars == <<db, proc, starts>>

Migrations ==
    << <<"rename", "trades", "liquidity_events", "candles_5m">>,
       <<"market_sync", "recon_state", "recon_row">>,
       <<"system_kv">>,
       <<"users", "set_updated_at", "trg_users", "user_sessions", "auth_nonces",
         "market_comments", "trg_comments">> >>

\* What a statement refers to.
Needs(s) ==
    CASE s = "recon_row" -> {"recon_state"}
      [] s \in {"user_sessions", "market_comments"} -> {"users"}
      [] s = "trg_users" -> {"users", "set_updated_at"}
      [] s = "trg_comments" -> {"market_comments", "set_updated_at"}
      [] OTHER -> {}

Down == [pc |-> "down", id |-> 1, at |-> 1]

Init ==
    /\ schema = {} /\ trades \in {"none", "legacy", "cased"}
    /\ renamed \in {IF pushed THEN "pushed" ELSE "none" : pushed \in Orderbook}
    /\ applied = {}
    /\ proc = [p \in Processes |-> Down] /\ starts = 0

Go(p, pc) == proc' = [proc EXCEPT ![p].pc = pc]

Start(p) ==
    /\ proc[p].pc = "down" /\ starts < MaxStarts /\ starts' = starts + 1
    /\ Go(p, "check")
    /\ UNCHANGED db

\* hasMigration; after the last one the process goes on.
HasMigration(p) ==
    /\ proc[p].pc = "check"
    /\ IF proc[p].id > Len(Migrations) THEN Go(p, "build")
       ELSE IF proc[p].id \in applied THEN proc' = [proc EXCEPT ![p].id = @ + 1]
       ELSE proc' = [proc EXCEPT ![p].pc = "run", ![p].at = 1]
    /\ UNCHANGED <<db, starts>>

Statement(p) == Migrations[proc[p].id][proc[p].at]
Running(p) == proc[p].pc = "run" /\ proc[p].at <= Len(Migrations[proc[p].id])
NextStatement(p) == proc' = [proc EXCEPT ![p].at = @ + 1]

\* Mutant of RenameTrades: the old table is known by its name.
RenameAny(p) ==
    /\ Running(p) /\ Statement(p) = "rename"
    /\ IF trades # "none"
       THEN renamed = "none" /\ renamed' = trades /\ trades' = "none"
       ELSE UNCHANGED <<renamed, trades>>
    /\ NextStatement(p)
    /\ UNCHANGED <<schema, applied, starts>>

\* The old table is known by its column, takeraddress. Prisma would have made
\* that takerAddress, which is not found.
RenameTrades(p) ==
    /\ Running(p) /\ Statement(p) = "rename"
    /\ IF trades = "legacy"
       THEN renamed = "none" /\ renamed' = trades /\ trades' = "none"
       ELSE UNCHANGED <<renamed, trades>>
    /\ NextStatement(p)
    /\ UNCHANGED <<schema, applied, starts>>

\* IF NOT EXISTS. The index over trades fails if that has no column market_id.
Create(p) ==
    /\ Running(p) /\ Statement(p) # "rename" /\ Needs(Statement(p)) \subseteq schema
    /\ Statement(p) = "trades" => trades # "cased"
    /\ schema' = schema \union {Statement(p)}
    /\ trades' = IF Statement(p) = "trades" /\ trades = "none" THEN "fpmm" ELSE trades
    /\ NextStatement(p)
    /\ UNCHANGED <<renamed, applied, starts>>

RecordMigration(p) ==
    /\ proc[p].pc = "run" /\ proc[p].at > Len(Migrations[proc[p].id])
    /\ applied' = applied \union {proc[p].id}
    /\ proc' = [proc EXCEPT ![p].pc = "check", ![p].id = @ + 1]
    /\ UNCHANGED <<schema, trades, renamed, starts>>

\* The server is built, the indexer's loops start, then the live ingest, whose
\* failure is logged.
Build(p) == proc[p].pc = "build" /\ Go(p, "index") /\ UNCHANGED <<db, starts>>
StartIndexer(p) == proc[p].pc = "index" /\ Go(p, "indexing") /\ UNCHANGED <<db, starts>>

Listen(p) ==
    /\ proc[p].pc = "indexing"
    /\ \A q \in Processes : proc[q].pc # "listening"
    /\ Go(p, "listening")
    /\ UNCHANGED <<db, starts>>

\* Exit: a statement that fails or collides with the same one of another
\* process, a port that is taken, a signal, a kill.
Exit(p) ==
    /\ proc[p].pc # "down"
    /\ proc' = [proc EXCEPT ![p] = Down]
    /\ UNCHANGED <<db, starts>>

Next ==
    \E p \in Processes :
        \/ Start(p) \/ HasMigration(p) \/ RenameTrades(p) \/ Create(p) \/ RecordMigration(p)
        \/ Build(p) \/ StartIndexer(p) \/ Listen(p) \/ Exit(p)

Spec == Init /\ [][Next]_vars

-----------------------------------------------------------------------------
(* Properties. *)

Objects(id) == ToSet(Migrations[id]) \ {"rename"}

(* Whatever processes were killed and however their migrations interleaved,  *)
(* one whose indexer runs or that serves requests finds every table, and     *)
(* trades is the table of this schema: the orders of the old one were moved  *)
(* out of its way whole, and no new trade ever went with them.  A migration  *)
(* that is recorded is complete, although recording is no part of it.        *)
ServesMigrated ==
    /\ \A id \in applied : Objects(id) \subseteq schema
    /\ \A p \in Processes : proc[p].pc \in {"indexing", "listening"} =>
           /\ \A id \in DOMAIN Migrations : Objects(id) \subseteq schema
           /\ trades = "fpmm"
    /\ renamed # "fpmm"
==============================================================================
