---------------------------- MODULE MarketCreation ----------------------------
(***************************************************************************)
(* Creating a market and seeding its pool (services/marketCreation.ts):    *)
(* concurrent requests to POST /api/markets, which reserves a slug,        *)
(* prepares the condition, inserts the row and then seeds it, and to POST  *)
(* /api/admin/markets/:id/seed, which seeds an existing row.               *)
(*                                                                         *)
(* A handler interleaves with the others at every receipt it awaits; the   *)
(* awaits between reading what others write and sending are one step, for  *)
(* what follows the read commutes with their steps.  The deployer's        *)
(* transactions are mined in the order they were sent.  A question id is   *)
(* fresh (a random UUID is hashed into it), amounts are counted in seeds   *)
(* of 100 USDF, and the deployer owns token and factory, so a transaction  *)
(* fails only where the contract's state makes it.                         *)
(***************************************************************************)
EXTENDS Integers, Sequences

CONSTANTS Requests,    \* concurrent requests
          Room,        \* different slugs that fit in 80 characters
          Budgets      \* bounds on what is called and fails: markets created,
                       \* seeds beside other requests or again, and faults

ASSUME CreationAssumption ==
    /\ Room \in Nat \ {0}
    /\ Budgets \subseteq [creates : Nat, seeds : Nat, faults : Nat]

VARIABLES rows,      \* the markets, in order: slug, question and pool
          prepared,  \* questions whose condition exists
          pools,     \* the pools the factory made, in order
          usdf,      \* the deployer's USDF
          pending,   \* the deployer's transactions still to be mined, in order
          mined,     \* how many were mined before them
          req,       \* each request in progress
          left,      \* what may still be called and fail
          told,      \* history: pools that a request was answered ok for
          serial     \* history: one request at a time so far

work == <<rows, prepared, pools, usdf, pending, mined, req, left>>
vars == <<rows, prepared, pools, usdf, pending, mined, req, left, told, serial>>

chain == <<prepared, pools, usdf, mined>>
Idle == [pc |-> "idle", slug |-> 0, question |-> 0, market |-> 0, pool |-> 0, tx |-> 0]

Init ==
    /\ rows = <<>> /\ prepared = {} /\ pools = <<>> /\ usdf = 0
    /\ pending = <<>> /\ mined = 0
    /\ req = [r \in Requests |-> Idle]
    /\ left \in Budgets
    /\ told = {} /\ serial = TRUE

Spend(what) == left[what] > 0 /\ left' = [left EXCEPT ![what] = @ - 1]
Answer(r) == req' = [req EXCEPT ![r] = Idle]

\* Transactions are numbered in the order they are sent.
NextTx == mined + Len(pending) + 1

\* Sends a transaction, whose receipt the handler then waits for at pc.
SendTx(r, kind, subject, pc) ==
    /\ pending' = Append(pending, [kind |-> kind, subject |-> subject])
    /\ req' = [req EXCEPT ![r].pc = pc, ![r].tx = NextTx]

Receipt(r, pc) == req[r].pc = pc /\ req[r].tx <= mined

-----------------------------------------------------------------------------
(* createMarketInternal. *)

\* Requests whose slugs have the same stem; others never meet.
Create(r) ==
    /\ req[r] = Idle /\ Spend("creates")
    /\ req' = [req EXCEPT ![r] = [Idle EXCEPT !.pc = "slug", !.slug = 1]]
    /\ UNCHANGED <<rows, pending, chain>>

Taken == {rows[m].slug : m \in DOMAIN rows}

\* Suffixes are counted up; what is cut off at 80 characters repeats an
\* earlier attempt, so there are Room of them and no other.
NextAttempt(n) == IF n < Room THEN n + 1 ELSE n

\* The attempt clashes with a row.
ReserveSlug(r) ==
    /\ req[r].pc = "slug" /\ req[r].slug \in Taken
    /\ req' = [req EXCEPT ![r].slug = NextAttempt(@)]
    /\ UNCHANGED <<rows, pending, chain, left>>

\* The attempt is free.  The question is new, and its transaction's number
\* serves as its name.
InitializeCondition(r) ==
    /\ req[r].pc = "slug" /\ req[r].slug \notin Taken
    /\ pending' = Append(pending, [kind |-> "prepare", subject |-> NextTx])
    /\ req' = [req EXCEPT ![r].pc = "initialized", ![r].tx = NextTx,
                          ![r].question = NextTx]
    /\ UNCHANGED <<rows, chain, left>>

\* The first points of the price chart are inserted too before the seed.
PersistMarket(r) ==
    /\ Receipt(r, "initialized")
    /\ rows' = Append(rows, [slug |-> req[r].slug, question |-> req[r].question, pool |-> 0])
    /\ req' = [req EXCEPT ![r].pc = "seed", ![r].market = Len(rows) + 1]
    /\ UNCHANGED <<pending, chain, left>>

-----------------------------------------------------------------------------
(* seedMarketInternal. *)

Funded(m) == rows[m].pool # 0 /\ pools[rows[m].pool].funding > 0

Unattended == \A r \in Requests : req[r] = Idle

\* An admin who is left with an unfunded market seeds it again; other seeds,
\* of funded markets and beside other requests, are bounded.
Seed(r, m) ==
    /\ req[r] = Idle
    /\ IF Unattended /\ ~Funded(m) THEN UNCHANGED left ELSE Spend("seeds")
    /\ req' = [req EXCEPT ![r] = [Idle EXCEPT !.pc = "seed", !.market = m]]
    /\ UNCHANGED <<rows, pending, chain>>

\* Mutant of PoolMissing: the pool that the row names is ignored.
AlwaysMissing(m) == TRUE

PoolMissing(m) == rows[m].pool = 0

\* The simulation throws unless the condition exists.
CreatePool(r) ==
    /\ req[r].pc = "seed" /\ PoolMissing(req[r].market)
    /\ LET q == rows[req[r].market].question
       IN  IF q \in prepared
           THEN SendTx(r, "create", q, "created")
           ELSE Answer(r) /\ UNCHANGED pending
    /\ UNCHANGED <<rows, chain, left>>

\* Mints for the pool that the row names, or has just been given.
SendMint(r, p) ==
    /\ pending' = Append(pending, [kind |-> "mint", subject |-> 0])
    /\ req' = [req EXCEPT ![r].pc = "minted", ![r].tx = NextTx, ![r].pool = p]

\* Mutant of ReusePool: a market with a pool is taken to be seeded.
SkipSeeded(r) ==
    /\ req[r].pc = "seed" /\ ~PoolMissing(req[r].market)
    /\ Answer(r)
    /\ UNCHANGED <<rows, pending, chain, left>>

ReusePool(r) ==
    /\ req[r].pc = "seed" /\ ~PoolMissing(req[r].market)
    /\ SendMint(r, rows[req[r].market].pool)
    /\ UNCHANGED <<rows, chain, left>>

\* The pool named by the event in the receipt.
PoolOf(tx) == CHOOSE p \in DOMAIN pools : pools[p].tx = tx

\* Whatever the row holds by now is overwritten.
SavePool(r) ==
    /\ Receipt(r, "created")
    /\ LET p == PoolOf(req[r].tx)
       IN  /\ rows' = [rows EXCEPT ![req[r].market].pool = p]
           /\ SendMint(r, p)
    /\ UNCHANGED <<chain, left>>

Approve(r) ==
    /\ Receipt(r, "minted")
    /\ SendTx(r, "approve", req[r].pool, "approved")
    /\ UNCHANGED <<rows, chain, left>>

\* What addFunding takes from the deployer.
CanFund(p) == pools[p].allowance > 0 /\ usdf > 0

\* The simulation sees what is mined; others may be ahead in the queue.
AddFunding(r) ==
    /\ Receipt(r, "approved")
    /\ IF CanFund(req[r].pool)
       THEN SendTx(r, "fund", req[r].pool, "funded")
       ELSE Answer(r) /\ UNCHANGED pending
    /\ UNCHANGED <<rows, chain, left>>

\* Mutant of Done: the receipt is not awaited.
DoneEarly(r) ==
    /\ req[r].pc = "funded"
    /\ Answer(r)
    /\ UNCHANGED <<rows, pending, chain, left>>

\* ok, whatever the receipt's status.
Done(r) ==
    /\ Receipt(r, "funded")
    /\ Answer(r)
    /\ UNCHANGED <<rows, pending, chain, left>>

-----------------------------------------------------------------------------
(* The chain: ConditionalTokens, factory, USDF and pool. *)

PrepareTx(t) == prepared' = prepared \union {t.subject} /\ UNCHANGED <<pools, usdf>>

CreateTx(t) ==
    /\ pools' = Append(pools, [tx |-> mined + 1, question |-> t.subject,
                               allowance |-> 0, funding |-> 0])
    /\ UNCHANGED <<prepared, usdf>>

MintTx(t) == usdf' = usdf + 1 /\ UNCHANGED <<prepared, pools>>

\* An approval replaces the one before.
ApproveTx(t) ==
    /\ pools' = [pools EXCEPT ![t.subject].allowance = 1]
    /\ UNCHANGED <<prepared, usdf>>

FundTx(t) ==
    /\ IF CanFund(t.subject)
       THEN /\ LET pool == pools[t.subject]
               IN  pools' = [pools EXCEPT ![t.subject] =
                        [pool EXCEPT !.allowance = 0, !.funding = pool.funding + 1]]
            /\ usdf' = usdf - 1
       ELSE UNCHANGED <<pools, usdf>>
    /\ UNCHANGED prepared

Mine ==
    /\ pending # <<>>
    /\ pending' = Tail(pending) /\ mined' = mined + 1
    /\ LET t == Head(pending)
       IN  \/ t.kind = "prepare" /\ PrepareTx(t)
           \/ t.kind = "create" /\ CreateTx(t)
           \/ t.kind = "mint" /\ MintTx(t)
           \/ t.kind = "approve" /\ ApproveTx(t)
           \/ t.kind = "fund" /\ FundTx(t)
    /\ UNCHANGED <<rows, req, left>>

-----------------------------------------------------------------------------
(* Faults. *)

\* A call throws or a receipt times out: the request answers with an error
\* and its transaction stays where it is.
Fail(r) ==
    /\ req[r] # Idle /\ Spend("faults")
    /\ Answer(r)
    /\ UNCHANGED <<rows, pending, chain>>

Crash ==
    /\ Spend("faults")
    /\ \E r \in Requests : req[r] # Idle
    /\ req' = [r \in Requests |-> Idle]
    /\ UNCHANGED <<rows, pending, chain>>

CreateSteps(r) == ReserveSlug(r) \/ InitializeCondition(r) \/ PersistMarket(r)
SeedSteps(r) ==
    CreatePool(r) \/ ReusePool(r) \/ SavePool(r) \/ Approve(r) \/ AddFunding(r)

Step ==
    \/ \E r \in Requests :
         \/ Create(r) \/ CreateSteps(r) \/ SeedSteps(r) \/ Fail(r)
         \/ \E m \in DOMAIN rows : Seed(r, m)
    \/ Mine \/ Crash

Next ==
    /\ \/ Step /\ UNCHANGED told
       \/ \E r \in Requests : Done(r) /\ told' = told \union {req[r].pool}
    /\ serial' = (/\ serial
                  /\ \A r, s \in Requests : req'[r] # Idle /\ req'[s] # Idle => r = s)

Spec == Init /\ [][Next]_vars

\* Handlers and the chain go on, and an admin seeds a market again until its
\* pool is funded.
Fairness ==
    /\ WF_work(Mine)
    /\ \A r \in Requests :
         /\ WF_work(CreateSteps(r) \/ SeedSteps(r) \/ Done(r))
         /\ WF_work(\E m \in DOMAIN rows : Unattended /\ ~Funded(m) /\ Seed(r, m))

FairSpec == Spec /\ Fairness

-----------------------------------------------------------------------------
(* Properties. *)

TypeOK ==
    /\ \A m \in DOMAIN rows : rows[m].slug \in 1..Room /\ rows[m].pool \in 0..Len(pools)
    /\ prepared \subseteq 1..mined
    /\ \A p \in DOMAIN pools : pools[p].allowance \in {0, 1} /\ pools[p].funding \in Nat
    /\ usdf \in Nat
    /\ \A r \in Requests : req[r].tx < NextTx /\ req[r].market \in 0..Len(rows)

(* README, creation flow: every market is seeded with baseline liquidity.   *)
(* A pool that a request was told ok for holds a seed, although the status  *)
(* of addFunding's receipt is ignored and requests race for one allowance   *)
(* and one balance.                                                         *)
FundedWhenOk == \A p \in told : pools[p].funding > 0

(* Served one at a time, with failures and restarts at any step, no seed    *)
(* goes to a pool that no row names, and a market keeps its pool: seeding    *)
(* again does not replace it, so that whatever was traded stays reachable.   *)
PoolKept ==
    /\ [](serial => \A p \in DOMAIN pools :
             pools[p].funding > 0 => \E m \in DOMAIN rows : rows[m].pool = p)
    /\ [][\A m \in DOMAIN rows :
             serial' /\ rows[m].pool # 0 => rows'[m].pool = rows[m].pool]_vars

(* A stored market ends up with a funded pool: no failure or restart leaves *)
(* a row that seeding again cannot repair.                                  *)
MarketGetsFunded ==
    \A m \in UNION {1..b.creates : b \in Budgets} :
        m \in DOMAIN rows ~> m \in DOMAIN rows /\ Funded(m)

=============================================================================
