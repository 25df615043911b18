---------------------------- MODULE CreationProofs ----------------------------
(***************************************************************************)
(* Theorems about MarketCreation, for any number of concurrent requests,   *)
(* slugs and faults, about the form that asks for a market, the pages that *)
(* show markets and the factory that makes their market makers.            *)
(*                                                                         *)
(* Deployer's transactions are named by the order in which they are sent:  *)
(* transaction n is pending[n - mined] until it is mined.                  *)
(***************************************************************************)
EXTENDS MC_Markets, FiniteSetTheorems, SequenceTheorems, WellFoundedInduction, TLAPS

Rows == [slug : Nat, question : Nat, pool : Nat]
Pools == [tx : Nat, question : Nat, allowance : {0, 1}, funding : Nat]
Txs == [kind : {"prepare", "create", "mint", "approve", "fund"}, subject : Nat]
Handlers == [pc : {"idle", "slug", "initialized", "seed", "created", "minted",
                   "approved", "funded"},
             slug : Nat, question : Nat, market : Nat, pool : Nat, tx : Nat]

Types ==
    /\ rows \in Seq(Rows) /\ pools \in Seq(Pools) /\ pending \in Seq(Txs)
    /\ usdf \in Nat /\ mined \in Nat
    /\ req \in [Requests -> Handlers]

Sent == mined + Len(pending)
IsPool(p) == p \in 1..Len(pools)
IsRow(m) == m \in 1..Len(rows)
Tx(n) == pending[n - mined]
Awaits(pc) == pc \in {"initialized", "created", "minted", "approved", "funded"}
Waiting(r) == Awaits(req[r].pc)
Seeding(r) == req[r].pc \in {"minted", "approved", "funded"}

\* Whoever waits does so for a transaction of its own.
OwnTx ==
    /\ \A r \in Requests : Waiting(r) => req[r].tx \in 1..Sent
    /\ \A r, s \in Requests : Waiting(r) /\ Waiting(s) /\ req[r].tx = req[s].tx => r = s

\* What the deployer has sent is what the requests wait for.
SentCreate(r) ==
    req[r].pc = "created" =>
        IF req[r].tx <= mined THEN \E p \in 1..Len(pools) : pools[p].tx = req[r].tx
        ELSE Tx(req[r].tx).kind = "create"
SentMint(r) == req[r].pc = "minted" /\ req[r].tx > mined => Tx(req[r].tx).kind = "mint"
SentFund(r) ==
    req[r].pc = "funded" =>
        IF req[r].tx <= mined THEN pools[req[r].pool].funding > 0
        ELSE Tx(req[r].tx).kind = "fund" /\ Tx(req[r].tx).subject = req[r].pool

\* Rows, requests and transactions name pools that exist.
PoolsNamed ==
    /\ \A m \in 1..Len(rows) : rows[m].pool \in 0..Len(pools)
    /\ \A r \in Requests : Seeding(r) => IsPool(req[r].pool)
    /\ \A r \in Requests : req[r].pc \in {"seed", "created"} => IsRow(req[r].market)
    /\ \A i \in 1..Len(pending) :
           pending[i].kind \in {"approve", "fund"} => IsPool(pending[i].subject)

\* A pool whose funding is on its way is approved still, or funded by now.
Approved ==
    \A i \in 1..Len(pending) : pending[i].kind = "fund" =>
        \/ pools[pending[i].subject].allowance = 1
        \/ pools[pending[i].subject].funding > 0

\* Every funding on its way, and every request about to send one, is backed by
\* a seed of its own: the race for the balance has no losers.
Holders == {r \in Requests : \/ req[r].pc = "approved"
                             \/ req[r].pc = "minted" /\ req[r].tx <= mined}
Fundings == {n \in (mined + 1)..Sent : Tx(n).kind = "fund"}
Covered ==
    /\ IsFiniteSet(Holders)
    /\ Cardinality(Holders) + Cardinality(Fundings) <= usdf

Told == \A p \in told : IsPool(p) /\ pools[p].funding > 0

CreationInv ==
    /\ Types /\ OwnTx /\ PoolsNamed
    /\ \A r \in Requests : SentCreate(r) /\ SentMint(r) /\ SentFund(r)
    /\ Approved /\ Covered /\ Told

-----------------------------------------------------------------------------
(* What the balance must cover, as sets. *)

LEMMA FundingsFinite ==
    ASSUME Types
    PROVE  IsFiniteSet(Fundings)
<1>1. Sent \in Int /\ mined + 1 \in Int
  BY DEF Types, Sent
<1>2. IsFiniteSet((mined + 1)..Sent)
  BY <1>1, FS_Interval
<1>3. QED
  BY <1>2, FS_Subset DEF Fundings

(* The promises shrink or stay, and so does what has to cover them.         *)
LEMMA CoverKept ==
    ASSUME Types, Types', Covered, Holders' \subseteq Holders, Fundings' \subseteq Fundings,
           usdf' = usdf
    PROVE  Covered'
<1>1. IsFiniteSet(Holders') /\ Cardinality(Holders') <= Cardinality(Holders)
  BY FS_Subset DEF Covered
<1>2. Cardinality(Fundings') <= Cardinality(Fundings)
  BY FundingsFinite, FS_Subset
<1>3. /\ Cardinality(Holders) \in Nat /\ Cardinality(Holders') \in Nat
      /\ Cardinality(Fundings) \in Nat /\ Cardinality(Fundings') \in Nat
  <2>1. IsFiniteSet(Fundings)'
    BY FundingsFinite, FS_Subset
  <2>2. QED
    BY <1>1, <2>1, FundingsFinite, FS_CardinalityType DEF Covered
<1>4. QED
  BY <1>1, <1>2, <1>3 DEF Covered, Types

-----------------------------------------------------------------------------
(* Steps of a request. *)

\* Request r becomes q, and the chain does not move.
Becomes(r, q) == req' = [req EXCEPT ![r] = q] /\ UNCHANGED chain

(* A request that sends nothing and waits for nothing.                      *)
LEMMA QuietKeeps ==
    ASSUME CreationInv, NEW r \in Requests, NEW q \in Handlers, Becomes(r, q),
           q.pc \in {"idle", "slug", "seed"}, UNCHANGED pending,
           Len(rows) <= Len(rows'), rows' \in Seq(Rows),
           \A m \in 1..Len(rows') : rows'[m].pool \in 0..Len(pools),
           q.pc = "seed" => q.market \in 1..Len(rows'),
           \A p \in told' : p \in told \/ (IsPool(p) /\ pools[p].funding > 0)
    PROVE  CreationInv'
<1> USE DEF Becomes, chain
<1>1. Types'
  BY DEF CreationInv, Types
<1>2. req'[r] = q /\ \A s \in Requests \ {r} : req'[s] = req[s]
  BY DEF CreationInv, Types
<1>3. OwnTx'
  BY <1>2 DEF CreationInv, OwnTx, Waiting, Awaits, Sent
<1>4. PoolsNamed'
  <2>1. \A s \in Requests : req'[s].pc \in {"seed", "created"} =>
                                 req'[s].market \in 1..Len(rows')
    <3>1. Len(rows) \in Nat /\ Len(rows') \in Nat
      BY DEF CreationInv, Types
    <3>2. QED
      BY <1>2, <3>1 DEF CreationInv, PoolsNamed, IsRow
  <2>2. \A s \in Requests : Seeding(s)' => req'[s].pool \in 1..Len(pools)
    BY <1>2 DEF CreationInv, PoolsNamed, Seeding, IsPool
  <2>3. QED
    BY <2>1, <2>2 DEF CreationInv, PoolsNamed, Seeding, IsPool, IsRow
<1>5. \A s \in Requests : SentCreate(s)' /\ SentMint(s)' /\ SentFund(s)'
  BY <1>2 DEF CreationInv, SentCreate, SentMint, SentFund, Tx
<1>6. Approved' /\ Told'
  BY DEF CreationInv, Approved, Told, IsPool
<1>7. Covered'
  <2>1. Holders' \subseteq Holders /\ Fundings' = Fundings
    BY <1>2 DEF Holders, Fundings, Sent, Tx
  <2>2. QED
    BY <1>1, <2>1, CoverKept DEF CreationInv
<1>8. QED
  BY <1>1, <1>3, <1>4, <1>5, <1>6, <1>7 DEF CreationInv

LEMMA AppendFacts ==
    ASSUME Types, NEW t \in Txs, pending' = Append(pending, t), UNCHANGED mined
    PROVE  /\ pending' \in Seq(Txs) /\ Len(pending') = Len(pending) + 1
           /\ Sent' = Sent + 1 /\ NextTx = Sent + 1 /\ Sent \in Nat
           /\ \A n \in (mined + 1)..(Sent + 1) :
                  pending'[n - mined] = IF n = Sent + 1 THEN t ELSE pending[n - mined]
           /\ \A i \in 1..Len(pending) : pending'[i] = pending[i]
           /\ pending'[Len(pending) + 1] = t
<1>1. /\ pending' \in Seq(Txs) /\ Len(pending') = Len(pending) + 1
      /\ \A i \in 1..Len(pending) : pending'[i] = pending[i]
      /\ pending'[Len(pending) + 1] = t
  BY AppendProperties DEF Types
<1>2. Len(pending) \in Nat /\ mined \in Nat
  BY DEF Types
<1>3. QED
  <2>1. ASSUME NEW n \in (mined + 1)..(Sent + 1)
        PROVE  pending'[n - mined] = IF n = Sent + 1 THEN t ELSE pending[n - mined]
    <3>1. CASE n = Sent + 1
      <4>1. n - mined = Len(pending) + 1
        BY <1>2, <3>1 DEF Sent
      <4>2. QED
        BY <1>1, <3>1, <4>1
    <3>2. CASE n # Sent + 1
      <4>1. n - mined \in 1..Len(pending)
        BY <1>2, <3>2 DEF Sent
      <4>2. QED
        BY <1>1, <3>2, <4>1
    <3>3. QED
      BY <3>1, <3>2
  <2>2. Sent \in Nat /\ Sent' = Sent + 1 /\ NextTx = Sent + 1
    BY <1>1, <1>2 DEF Sent, NextTx
  <2>3. QED
    BY <1>1, <2>1, <2>2

(* A request that sends transaction t and waits for it.                     *)
LEMMA SendKeeps ==
    ASSUME CreationInv, NEW r \in Requests, NEW q \in Handlers, Becomes(r, q),
           NEW t \in Txs, pending' = Append(pending, t), UNCHANGED told,
           Len(rows') = Len(rows), rows' \in Seq(Rows),
           \A m \in 1..Len(rows') : rows'[m].pool \in 0..Len(pools),
           Awaits(q.pc), q.tx = NextTx,
           q.pc \in {"minted", "approved", "funded"} => IsPool(q.pool),
           t.kind \in {"approve", "fund"} => t.subject = q.pool /\ IsPool(q.pool),
           q.pc = "created" => t.kind = "create" /\ IsRow(q.market),
           q.pc = "minted" => t.kind = "mint",
           q.pc = "approved" => r \in Holders,
           IF q.pc = "funded" THEN /\ t.kind = "fund" /\ t.subject = q.pool /\ r \in Holders
                                   /\ pools[q.pool].allowance = 1
           ELSE t.kind # "fund"
    PROVE  CreationInv'
<1> USE DEF Becomes, chain
<1>1. /\ Len(pending') = Len(pending) + 1 /\ pending' \in Seq(Txs)
      /\ Sent' = Sent + 1 /\ q.tx = Sent + 1 /\ Sent \in Nat
      /\ \A i \in 1..Len(pending) : pending'[i] = pending[i]
      /\ pending'[Len(pending) + 1] = t
  BY AppendFacts DEF CreationInv
<1>11. \A n \in (mined + 1)..(Sent + 1) :
           pending'[n - mined] = IF n = Sent + 1 THEN t ELSE pending[n - mined]
  BY AppendFacts DEF CreationInv
<1>2. Types'
  BY <1>1 DEF CreationInv, Types
<1>3. req'[r] = q /\ \A s \in Requests \ {r} : req'[s] = req[s]
  BY DEF CreationInv, Types
<1>4. OwnTx'
  <2>1. \A s \in Requests \ {r} : Waiting(s)' => Waiting(s) /\ req'[s].tx = req[s].tx
    BY <1>3 DEF Waiting
  <2>2. \A s \in Requests \ {r} : Waiting(s)' => req'[s].tx \in 1..Sent
    BY <2>1 DEF CreationInv, OwnTx
  <2>3. req'[r].tx = Sent + 1 /\ Sent' = Sent + 1 /\ Sent \in Nat
    BY <1>1, <1>3
  <2>4. \A s \in Requests : Waiting(s)' => req'[s].tx \in 1..Sent'
    BY <2>2, <2>3
  <2>5. ASSUME NEW x \in Requests, NEW s \in Requests, Waiting(x)', Waiting(s)',
               req'[x].tx = req'[s].tx
        PROVE  x = s
    <3>1. CASE x # r /\ s # r
      BY <2>1, <2>5, <3>1 DEF CreationInv, OwnTx
    <3>2. CASE x = r \/ s = r
      BY <2>2, <2>3, <2>5, <3>2
    <3>3. QED
      BY <3>1, <3>2
  <2>6. QED
    BY <2>4, <2>5 DEF OwnTx
<1>5. PoolsNamed'
  <2>1. \A i \in 1..Len(pending') :
            pending'[i].kind \in {"approve", "fund"} => IsPool(pending'[i].subject)
    <3>1. ASSUME NEW i \in 1..Len(pending')
          PROVE  pending'[i] = t \/ (i \in 1..Len(pending) /\ pending'[i] = pending[i])
      BY <1>1 DEF CreationInv, Types
    <3>2. QED
      BY <3>1 DEF CreationInv, PoolsNamed
  <2>2. \A s \in Requests : Seeding(s)' => IsPool(req'[s].pool)
    BY <1>3 DEF CreationInv, PoolsNamed, Seeding
  <2>3. \A s \in Requests : req'[s].pc \in {"seed", "created"} => IsRow(req'[s].market)
    BY <1>3 DEF CreationInv, PoolsNamed, Awaits
  <2>4. QED
    BY <2>1, <2>2, <2>3 DEF PoolsNamed, IsPool, IsRow, Seeding
<1>6. ASSUME NEW s \in Requests
      PROVE  SentCreate(s)' /\ SentMint(s)' /\ SentFund(s)'
  <2>1. Sent >= mined /\ mined \in Nat /\ Sent \in Nat
    BY DEF CreationInv, Types, Sent
  <2>2. CASE s = r
    <3>1. req'[s] = q /\ pending'[q.tx - mined] = t
      <4>1. q.tx = Sent + 1 /\ q.tx \in (mined + 1)..(Sent + 1)
        BY <1>1, <2>1
      <4>2. QED
        BY <1>11, <1>3, <2>2, <4>1
    <3>2. ~(q.tx <= mined) /\ q.tx > mined /\ mined' = mined
      BY <2>1, <1>1
    <3>3. QED
      BY <3>1, <3>2 DEF SentCreate, SentMint, SentFund, Tx
  <2>3. CASE s # r
    <3>1. req'[s] = req[s]
      BY <1>3, <2>3
    <3>2. Waiting(s) /\ ~(req[s].tx <= mined) =>
              pending'[req[s].tx - mined] = pending[req[s].tx - mined]
      <4>1. Waiting(s) /\ ~(req[s].tx <= mined) =>
                req[s].tx \in (mined + 1)..(Sent + 1) /\ req[s].tx # Sent + 1
        BY <2>1 DEF CreationInv, OwnTx
      <4>2. QED
        BY <1>11, <4>1
    <3>3. SentCreate(s) /\ SentMint(s) /\ SentFund(s)
      BY DEF CreationInv
    <3>4. req[s].pc \in {"created", "minted", "funded"} => Waiting(s)
      BY DEF Waiting, Awaits
    <3>5. req[s].tx > mined <=> ~(req[s].tx <= mined)
      <4>1. req[s].tx \in Nat
        BY DEF CreationInv, Types, Handlers
      <4>2. QED
        BY <2>1, <4>1
    <3>6. QED
      BY <3>1, <3>2, <3>3, <3>4, <3>5 DEF SentCreate, SentMint, SentFund, Tx
  <2>4. QED
    BY <2>2, <2>3
<1>7. Approved'
  BY <1>1 DEF CreationInv, Types, Approved
<1>8. Told'
  BY DEF CreationInv, Told, IsPool
<1>9. Covered'
  <2>0. mined \in Nat /\ Sent \in Nat /\ mined <= Sent
    BY DEF CreationInv, Types, Sent
  <2>1. \A s \in Requests \ {r} : s \in Holders' <=> s \in Holders
    BY <1>3 DEF Holders
  <2>2. CASE q.pc = "funded"
    <3>1. Holders' = Holders \ {r}
      BY <1>3, <2>1, <2>2 DEF Holders
    <3>2. Fundings' = Fundings \union {Sent + 1} /\ Sent + 1 \notin Fundings
      <4>1. ASSUME NEW n \in (mined + 1)..(Sent + 1)
            PROVE  /\ n = Sent + 1 => pending'[n - mined].kind = "fund"
                   /\ n # Sent + 1 => /\ n \in (mined + 1)..Sent
                                      /\ pending'[n - mined] = pending[n - mined]
        <5>1. n # Sent + 1 => n \in (mined + 1)..Sent
          BY <2>0
        <5>2. pending'[n - mined] = IF n = Sent + 1 THEN t ELSE pending[n - mined]
          BY <1>11
        <5>3. QED
          BY <5>1, <5>2, <2>2
      <4>2. mined' = mined /\ Sent' = Sent + 1 /\ (mined + 1)..Sent \subseteq (mined + 1)..(Sent + 1)
            /\ Sent + 1 \in (mined + 1)..(Sent + 1) /\ Sent + 1 \notin (mined + 1)..Sent
        BY <1>1, <2>0
      <4>3. QED
        <5>1. \A n \in (mined + 1)..(Sent + 1) :
                  pending'[n - mined].kind = "fund" <=> n = Sent + 1 \/ n \in Fundings
          BY <4>1, <4>2 DEF Fundings, Tx
        <5>2. Fundings' = {n \in (mined + 1)..(Sent + 1) : pending'[n - mined].kind = "fund"}
          BY <4>2 DEF Fundings, Tx
        <5>3. QED
          BY <4>2, <5>1, <5>2 DEF Fundings
    <3>3. /\ IsFiniteSet(Holders') /\ Cardinality(Holders') = Cardinality(Holders) - 1
          /\ Cardinality(Holders) \in Nat
      BY <2>2, <3>1, FS_RemoveElement, FS_CardinalityType DEF CreationInv, Covered
    <3>4. Cardinality(Fundings') = Cardinality(Fundings) + 1 /\ Cardinality(Fundings) \in Nat
      BY <3>2, FundingsFinite, FS_AddElement, FS_CardinalityType DEF CreationInv
    <3>5. QED
      BY <3>3, <3>4 DEF CreationInv, Covered, Types
  <2>3. CASE q.pc # "funded"
    <3>1. Holders' \subseteq Holders
      <4>1. r \in Holders' => r \in Holders
        BY <1>1, <1>3 DEF Holders, Sent, CreationInv, Types
      <4>2. QED
        BY <2>1, <4>1 DEF Holders
    <3>2. Fundings' = Fundings
      <4>1. ASSUME NEW n \in (mined + 1)..(Sent + 1)
            PROVE  /\ n = Sent + 1 => pending'[n - mined].kind # "fund"
                   /\ n # Sent + 1 => /\ n \in (mined + 1)..Sent
                                      /\ pending'[n - mined] = pending[n - mined]
        <5>1. n # Sent + 1 => n \in (mined + 1)..Sent
          BY <2>0
        <5>2. pending'[n - mined] = IF n = Sent + 1 THEN t ELSE pending[n - mined]
          BY <1>11
        <5>3. QED
          BY <5>1, <5>2, <2>3
      <4>2. mined' = mined /\ Sent' = Sent + 1 /\ (mined + 1)..Sent \subseteq (mined + 1)..(Sent + 1)
            /\ Sent + 1 \notin (mined + 1)..Sent
        BY <1>1, <2>0
      <4>3. QED
        BY <4>1, <4>2 DEF Fundings, Tx
    <3>3. QED
      BY <1>2, <3>1, <3>2, CoverKept DEF CreationInv
  <2>4. QED
    BY <2>2, <2>3
<1>10. QED
  BY <1>2, <1>4, <1>5, <1>6, <1>7, <1>8, <1>9 DEF CreationInv

-----------------------------------------------------------------------------
(* The chain mines the first transaction that is pending. *)

\* Pools stay where they are, and keep what was put into them.
PoolsGrow ==
    /\ pools' \in Seq(Pools) /\ Len(pools) <= Len(pools')
    /\ \A p \in 1..Len(pools) : /\ pools'[p].tx = pools[p].tx
                                /\ pools[p].funding > 0 => pools'[p].funding > 0

LEMMA TailFacts ==
    ASSUME Types, pending # <<>>, pending' = Tail(pending), mined' = mined + 1
    PROVE  /\ pending' \in Seq(Txs) /\ Head(pending) \in Txs
           /\ Sent' = Sent /\ Sent \in Nat /\ mined + 1 \in 1..Sent /\ mined \in Nat
           /\ Head(pending) = pending[1] /\ Tx(mined + 1) = Head(pending)
           /\ \A n \in (mined + 2)..Sent : pending'[n - mined'] = pending[n - mined]
           /\ \A i \in 1..Len(pending') : i + 1 \in 1..Len(pending) /\ pending'[i] = pending[i + 1]
<1>1. /\ pending' \in Seq(Txs) /\ Head(pending) \in Txs /\ Len(pending') = Len(pending) - 1
      /\ \A i \in 1..Len(pending') : pending'[i] = pending[i + 1]
  BY HeadTailProperties DEF Types
<1>2. Len(pending) \in Nat \ {0} /\ mined \in Nat
  BY EmptySeq DEF Types
<1>3. Head(pending) = pending[1]
  BY DEF Types
<1>4. Tx(mined + 1) = pending[1]
  BY <1>2 DEF Tx
<1>5. Sent' = Sent /\ Sent \in Nat /\ mined + 1 \in 1..Sent
  BY <1>1, <1>2 DEF Sent
<1>6. ASSUME NEW n \in (mined + 2)..Sent
      PROVE  pending'[n - mined'] = pending[n - mined]
  <2>1. /\ n - mined' \in 1..Len(pending') /\ (n - mined') + 1 = n - mined
    BY <1>1, <1>2 DEF Sent
  <2>2. QED
    BY <1>1, <2>1
<1>7. ASSUME NEW i \in 1..Len(pending')
      PROVE  i + 1 \in 1..Len(pending)
  BY <1>1, <1>2
<1>8. QED
  BY <1>1, <1>2, <1>3, <1>4, <1>5, <1>6, <1>7

\* Transaction t is the one that is mined.
Mines(t) ==
    /\ pending # <<>> /\ t = Head(pending)
    /\ pending' = Tail(pending) /\ mined' = mined + 1
    /\ UNCHANGED <<rows, req, told>>

(* What mining one transaction leaves to show, whatever its kind.           *)
LEMMA MineKeeps ==
    ASSUME CreationInv, NEW t, Mines(t), PoolsGrow, usdf' \in Nat,
           t.kind = "create" => \E p \in 1..Len(pools') : pools'[p].tx = mined + 1,
           t.kind = "fund" => pools'[t.subject].funding > 0,
           \A p \in 1..Len(pools) : pools[p].allowance = 1 =>
               pools'[p].allowance = 1 \/ pools'[p].funding > 0,
           Covered'
    PROVE  CreationInv'
<1>1. /\ pending' \in Seq(Txs) /\ t \in Txs
      /\ Sent' = Sent /\ Sent \in Nat /\ mined + 1 \in 1..Sent /\ mined \in Nat
      /\ mined' = mined + 1 /\ UNCHANGED <<rows, req, told>>
      /\ Tx(mined + 1) = t
      /\ \A n \in (mined + 2)..Sent : pending'[n - mined'] = pending[n - mined]
      /\ \A i \in 1..Len(pending') : i + 1 \in 1..Len(pending) /\ pending'[i] = pending[i + 1]
  BY TailFacts DEF CreationInv, Mines
<1>2. Types'
  BY <1>1 DEF CreationInv, Types, PoolsGrow
<1>3. OwnTx'
  BY <1>1 DEF CreationInv, OwnTx, Waiting
<1>4. \A p : IsPool(p) => p \in 1..Len(pools') /\ (pools[p].funding > 0 => pools'[p].funding > 0)
  <2>1. Len(pools) \in Nat /\ Len(pools') \in Nat
    BY <1>2 DEF CreationInv, Types
  <2>2. QED
    BY <2>1 DEF IsPool, PoolsGrow
<1>5. PoolsNamed'
  <2>1. \A m \in 1..Len(rows) : rows[m].pool \in 0..Len(pools')
    <3>1. Len(pools) \in Nat /\ Len(pools') \in Nat /\ Len(pools) <= Len(pools')
      BY <1>2 DEF CreationInv, Types, PoolsGrow
    <3>2. QED
      BY <3>1 DEF CreationInv, PoolsNamed
  <2>2. \A i \in 1..Len(pending') :
            pending'[i].kind \in {"approve", "fund"} => pending'[i].subject \in 1..Len(pools')
    BY <1>1, <1>4 DEF CreationInv, PoolsNamed
  <2>3. \A r \in Requests : Seeding(r)' => req'[r].pool \in 1..Len(pools')
    BY <1>1, <1>4 DEF CreationInv, PoolsNamed, Seeding
  <2>4. \A r \in Requests : req'[r].pc \in {"seed", "created"} => req'[r].market \in 1..Len(rows')
    BY <1>1 DEF CreationInv, PoolsNamed, IsRow
  <2>5. QED
    <3>1. rows' = rows
      BY <1>1
    <3>2. QED
      BY <2>1, <2>2, <2>3, <2>4, <3>1 DEF PoolsNamed, IsPool, IsRow
<1>6. ASSUME NEW r \in Requests
      PROVE  SentCreate(r)' /\ SentMint(r)' /\ SentFund(r)'
  <2>1. SentCreate(r) /\ SentMint(r) /\ SentFund(r) /\ req'[r] = req[r]
    BY <1>1 DEF CreationInv
  <2>2. req[r].pc \in {"created", "minted", "funded"} => req[r].tx \in 1..Sent
    BY DEF CreationInv, OwnTx, Waiting, Awaits
  <2>3. req[r].pc = "funded" => IsPool(req[r].pool)
    BY DEF CreationInv, PoolsNamed, Seeding
  <2>4. req[r].tx \in Nat
    BY DEF CreationInv, Types, Handlers
  <2>5. CASE req[r].tx <= mined
    <3>1. req[r].tx <= mined' /\ ~(req[r].tx > mined')
      BY <1>1, <2>4, <2>5
    <3>2. req[r].pc = "created" => \E p \in 1..Len(pools') : pools'[p].tx = req[r].tx
      <4>1. Len(pools) \in Nat /\ Len(pools') \in Nat /\ Len(pools) <= Len(pools')
        BY <1>2 DEF CreationInv, Types, PoolsGrow
      <4>2. QED
        BY <2>1, <2>5, <4>1 DEF SentCreate, PoolsGrow
    <3>3. QED
      BY <1>4, <2>1, <2>3, <2>5, <3>1, <3>2 DEF SentCreate, SentMint, SentFund
  <2>6. CASE req[r].tx = mined + 1
    <3>1. req[r].tx <= mined' /\ ~(req[r].tx > mined') /\ ~(req[r].tx <= mined)
      BY <1>1, <2>6
    <3>2. QED
      BY <1>1, <2>1, <2>6, <3>1 DEF SentCreate, SentMint, SentFund
  <2>7. CASE req[r].tx > mined + 1
    <3>1. /\ ~(req[r].tx <= mined') /\ req[r].tx > mined' /\ ~(req[r].tx <= mined)
          /\ req[r].tx > mined
      BY <1>1, <2>4, <2>7
    <3>2. req[r].tx \in 1..Sent => pending'[req[r].tx - mined'] = pending[req[r].tx - mined]
      <4>1. req[r].tx \in 1..Sent => req[r].tx \in (mined + 2)..Sent
        BY <1>1, <2>7
      <4>2. QED
        BY <1>1, <4>1
    <3>3. QED
      BY <2>1, <2>2, <3>1, <3>2 DEF SentCreate, SentMint, SentFund, Tx
  <2>8. QED
    BY <1>1, <2>4, <2>5, <2>6, <2>7
<1>7. Approved'
  BY <1>1 DEF CreationInv, PoolsNamed, Approved, IsPool, PoolsGrow
<1>8. Told'
  BY <1>1, <1>4 DEF CreationInv, Told, IsPool
<1>9. QED
  BY <1>2, <1>3, <1>5, <1>6, <1>7, <1>8 DEF CreationInv

(* Mining takes one funding off the list at most, and one request's mint     *)
(* brings one holder at most.                                               *)
LEMMA MineCounts ==
    ASSUME CreationInv, NEW t, Mines(t)
    PROVE  /\ Fundings' = Fundings \ {mined + 1}
           /\ mined + 1 \in Fundings <=> t.kind = "fund"
           /\ t.kind # "mint" => Holders' \subseteq Holders
           /\ \/ Holders' \subseteq Holders
              \/ \E r \in Requests : Holders' \subseteq Holders \union {r}
<1>1. /\ Sent' = Sent /\ Sent \in Nat /\ mined + 1 \in 1..Sent /\ mined \in Nat
      /\ mined' = mined + 1 /\ req' = req /\ Tx(mined + 1) = t
      /\ \A n \in (mined + 2)..Sent : pending'[n - mined'] = pending[n - mined]
  BY TailFacts DEF CreationInv, Mines
<1>2. mined + 1 \in Fundings <=> t.kind = "fund"
  BY <1>1 DEF Fundings
<1>3. Fundings' = Fundings \ {mined + 1}
  <2>1. (mined' + 1)..Sent' = (mined + 2)..Sent
    BY <1>1
  <2>2. Fundings' = {n \in (mined + 2)..Sent : pending'[n - mined'].kind = "fund"}
    BY <2>1 DEF Fundings, Tx
  <2>3. \A n : n \in (mined + 2)..Sent <=> n \in (mined + 1)..Sent /\ n # mined + 1
    BY <1>1
  <2>4. QED
    BY <1>1, <2>2, <2>3 DEF Fundings, Tx
<1>4. \A r \in Holders' \ Holders : r \in Requests /\ req[r].pc = "minted" /\ req[r].tx = mined + 1
  <2>1. ASSUME NEW r \in Holders', r \notin Holders
        PROVE  r \in Requests /\ req[r].pc = "minted" /\ req[r].tx = mined + 1
    <3>1. /\ r \in Requests /\ req[r].pc = "minted" /\ req[r].tx <= mined + 1
          /\ ~(req[r].tx <= mined)
      BY <1>1, <2>1 DEF Holders
    <3>2. req[r].tx \in Nat
      BY <3>1 DEF CreationInv, Types, Handlers
    <3>3. QED
      BY <1>1, <3>1, <3>2
  <2>2. QED
    BY <2>1
<1>5. t.kind # "mint" => Holders' \subseteq Holders
  <2>1. \A r \in Requests : req[r].pc = "minted" /\ req[r].tx = mined + 1 => t.kind = "mint"
    BY <1>1 DEF CreationInv, SentMint
  <2>2. QED
    BY <1>4, <2>1
<1>6. \/ Holders' \subseteq Holders
      \/ \E r \in Requests : Holders' \subseteq Holders \union {r}
  <2>1. ASSUME NEW r \in Holders' \ Holders, NEW s \in Holders' \ Holders
        PROVE  r = s
    BY <1>4, <2>1 DEF CreationInv, OwnTx, Waiting, Awaits
  <2>2. QED
    BY <1>4, <2>1
<1>7. QED
  BY <1>2, <1>3, <1>5, <1>6

LEMMA CoverCounts ==
    ASSUME CreationInv
    PROVE  /\ IsFiniteSet(Holders) /\ IsFiniteSet(Fundings)
           /\ Cardinality(Holders) \in Nat /\ Cardinality(Fundings) \in Nat
           /\ Cardinality(Holders) + Cardinality(Fundings) <= usdf /\ usdf \in Nat
<1>1. IsFiniteSet(Holders) /\ IsFiniteSet(Fundings)
  BY FundingsFinite DEF CreationInv, Covered
<1>2. QED
  BY <1>1, FS_CardinalityType DEF CreationInv, Covered, Types

(* A transaction that neither mints nor funds.                              *)
LEMMA MineCoverSame ==
    ASSUME CreationInv, NEW t, Mines(t), t.kind \notin {"mint", "fund"}, usdf' = usdf
    PROVE  Covered'
<1>1. Holders' \subseteq Holders /\ Fundings' \subseteq Fundings
  BY MineCounts
<1>2. /\ IsFiniteSet(Holders') /\ Cardinality(Holders') <= Cardinality(Holders)
      /\ Cardinality(Holders') \in Nat
  BY <1>1, CoverCounts, FS_Subset, FS_CardinalityType
<1>3. Cardinality(Fundings') <= Cardinality(Fundings) /\ Cardinality(Fundings') \in Nat
  BY <1>1, CoverCounts, FS_Subset, FS_CardinalityType
<1>4. QED
  BY <1>2, <1>3, CoverCounts DEF Covered

LEMMA MineMint ==
    ASSUME CreationInv, NEW t, Mines(t), t.kind = "mint", MintTx(t)
    PROVE  CreationInv'
<1>1. usdf' = usdf + 1 /\ pools' = pools /\ usdf' \in Nat
  BY DEF MintTx, CreationInv, Types
<1>2. Covered'
  <2>1. /\ IsFiniteSet(Holders') /\ Cardinality(Holders') <= Cardinality(Holders) + 1
        /\ Cardinality(Holders') \in Nat
    <3>1. CASE Holders' \subseteq Holders
      <4>1. IsFiniteSet(Holders') /\ Cardinality(Holders') <= Cardinality(Holders)
        BY <3>1, CoverCounts, FS_Subset
      <4>2. QED
        BY <4>1, CoverCounts, FS_CardinalityType
    <3>2. ASSUME NEW r \in Requests, Holders' \subseteq Holders \union {r}
          PROVE  /\ IsFiniteSet(Holders') /\ Cardinality(Holders') <= Cardinality(Holders) + 1
                 /\ Cardinality(Holders') \in Nat
      <4>1. /\ IsFiniteSet(Holders \union {r})
            /\ Cardinality(Holders \union {r}) <= Cardinality(Holders) + 1
            /\ Cardinality(Holders \union {r}) \in Nat
        <5>1. /\ IsFiniteSet(Holders \union {r})
              /\ Cardinality(Holders \union {r}) =
                   IF r \in Holders THEN Cardinality(Holders) ELSE Cardinality(Holders) + 1
          BY CoverCounts, FS_AddElement
        <5>2. Cardinality(Holders) \in Nat
          BY CoverCounts
        <5>3. QED
          BY <5>1, <5>2
      <4>2. IsFiniteSet(Holders') /\ Cardinality(Holders') <= Cardinality(Holders \union {r})
        BY <3>2, <4>1, FS_Subset
      <4>3. Cardinality(Holders') \in Nat
        BY <4>2, FS_CardinalityType
      <4>4. QED
        BY <4>1, <4>2, <4>3, CoverCounts
    <3>3. QED
      BY <3>1, <3>2, MineCounts
  <2>2. Cardinality(Fundings') <= Cardinality(Fundings) /\ Cardinality(Fundings') \in Nat
    BY MineCounts, CoverCounts, FS_RemoveElement, FS_CardinalityType
  <2>3. QED
    BY <1>1, <2>1, <2>2, CoverCounts DEF Covered
<1>3. PoolsGrow
  BY <1>1 DEF PoolsGrow, CreationInv, Types
<1>4. QED
  BY <1>1, <1>2, <1>3, MineKeeps

(* The seed is there.  If the allowance is not, another request's funding of *)
(* the same pool has used it.                                                *)
LEMMA MineFund ==
    ASSUME CreationInv, NEW t, Mines(t), t.kind = "fund", FundTx(t)
    PROVE  CreationInv'
<1>1. /\ mined + 1 \in Fundings /\ Fundings' = Fundings \ {mined + 1}
      /\ Holders' \subseteq Holders
  BY MineCounts
<1>2. Cardinality(Fundings) >= 1
  <2>1. Cardinality(Fundings) # 0
    BY <1>1, CoverCounts, FS_EmptySet
  <2>2. QED
    BY <2>1, CoverCounts
<1>3. usdf >= 1
  BY <1>2, CoverCounts
<1>4. Cardinality(Fundings') = Cardinality(Fundings) - 1 /\ Cardinality(Fundings') \in Nat
  <2>1. IsFiniteSet(Fundings')
    BY <1>1, CoverCounts, FS_RemoveElement
  <2>2. QED
    BY <1>1, <2>1, CoverCounts, FS_RemoveElement, FS_CardinalityType
<1>5. /\ IsFiniteSet(Holders') /\ Cardinality(Holders') <= Cardinality(Holders)
      /\ Cardinality(Holders') \in Nat
  BY <1>1, CoverCounts, FS_Subset, FS_CardinalityType
<1>6. usdf' >= usdf - 1 /\ usdf' \in Nat
  BY <1>3, CoverCounts DEF FundTx
<1>7. Covered'
  BY <1>4, <1>5, <1>6, CoverCounts DEF Covered
<1>8. /\ IsPool(t.subject)
      /\ pools[t.subject].allowance = 1 \/ pools[t.subject].funding > 0
  <2>1. t = pending[1] /\ 1 \in 1..Len(pending)
    BY TailFacts, EmptySeq DEF CreationInv, Types, Mines
  <2>2. QED
    BY <2>1 DEF CreationInv, PoolsNamed, Approved
<1>9. pools \in Seq(Pools) /\ pools[t.subject] \in Pools /\ Len(pools) \in Nat
  BY <1>8 DEF CreationInv, Types, IsPool
<1>10. CASE CanFund(t.subject)
  <2> DEFINE old == pools[t.subject]
             new == [old EXCEPT !.allowance = 0, !.funding = old.funding + 1]
  <2>1. pools' = [pools EXCEPT ![t.subject] = new]
    BY <1>10 DEF FundTx
  <2>2. new \in Pools /\ new.funding > 0 /\ new.tx = old.tx
    <3>1. old \in Pools
      BY <1>9
    <3> HIDE DEF old
    <3>2. old.funding \in Nat /\ old.funding + 1 \in Nat /\ old.funding + 1 > 0
      BY <3>1 DEF Pools
    <3>3. new.funding = old.funding + 1 /\ new.tx = old.tx
      BY <3>1 DEF Pools
    <3>4. new \in Pools
      BY <3>1, <3>2 DEF Pools
    <3>5. QED
      BY <3>2, <3>3, <3>4
  <2> HIDE DEF new
  <2>3. /\ pools' \in Seq(Pools) /\ Len(pools') = Len(pools)
        /\ \A p \in 1..Len(pools) : p # t.subject => pools'[p] = pools[p]
        /\ pools'[t.subject] = new
    BY <1>8, <1>9, <2>1, <2>2, ExceptSeq DEF IsPool
  <2>4. PoolsGrow
    BY <1>9, <2>2, <2>3 DEF PoolsGrow
  <2>5. \A p \in 1..Len(pools) : pools[p].allowance = 1 =>
            pools'[p].allowance = 1 \/ pools'[p].funding > 0
    BY <2>2, <2>3
  <2>6. QED
    BY <1>6, <1>7, <2>2, <2>3, <2>4, <2>5, MineKeeps
<1>11. CASE ~CanFund(t.subject)
  <2>1. pools' = pools
    BY <1>11 DEF FundTx
  <2>2. pools[t.subject].allowance # 1
    BY <1>3, <1>9, <1>11, CoverCounts DEF CanFund
  <2>3. PoolsGrow
    BY <2>1, <1>9 DEF PoolsGrow
  <2>4. QED
    BY <1>6, <1>7, <1>8, <2>1, <2>2, <2>3, MineKeeps
<1>12. QED
  BY <1>10, <1>11

LEMMA MinePrepare ==
    ASSUME CreationInv, NEW t, Mines(t), t.kind = "prepare", PrepareTx(t)
    PROVE  CreationInv'
<1>1. pools' = pools /\ usdf' = usdf /\ usdf' \in Nat
  BY DEF PrepareTx, CreationInv, Types
<1>2. Covered'
  BY <1>1, MineCoverSame
<1>3. PoolsGrow
  BY <1>1 DEF PoolsGrow, CreationInv, Types
<1>4. QED
  BY <1>1, <1>2, <1>3, MineKeeps

LEMMA MineCreate ==
    ASSUME CreationInv, NEW t, Mines(t), t.kind = "create", CreateTx(t)
    PROVE  CreationInv'
<1> DEFINE new == [tx |-> mined + 1, question |-> t.subject, allowance |-> 0, funding |-> 0]
<1>1. pools' = Append(pools, new) /\ usdf' = usdf /\ usdf' \in Nat
  BY DEF CreateTx, CreationInv, Types
<1>2. new \in Pools
  <2>1. t \in Txs /\ mined + 1 \in Nat
    BY TailFacts DEF CreationInv, Types, Mines
  <2>2. QED
    BY <2>1 DEF Txs, Pools
<1>3. new.tx = mined + 1
  OBVIOUS
<1> HIDE DEF new
<1>4. /\ pools' \in Seq(Pools) /\ Len(pools') = Len(pools) + 1
      /\ \A p \in 1..Len(pools) : pools'[p] = pools[p]
      /\ pools'[Len(pools) + 1] = new
  <2>1. pools \in Seq(Pools)
    BY DEF CreationInv, Types
  <2>2. QED
    BY <1>1, <1>2, <2>1, AppendProperties
<1>5. Len(pools) \in Nat
  BY DEF CreationInv, Types
<1>6. PoolsGrow
  BY <1>4, <1>5 DEF PoolsGrow
<1>7. Covered'
  BY <1>1, MineCoverSame
<1>8. \E p \in 1..Len(pools') : pools'[p].tx = mined + 1
  BY <1>3, <1>4, <1>5
<1>9. QED
  BY <1>1, <1>4, <1>6, <1>7, <1>8, MineKeeps

LEMMA MineApprove ==
    ASSUME CreationInv, NEW t, Mines(t), t.kind = "approve", ApproveTx(t)
    PROVE  CreationInv'
<1>1. usdf' = usdf /\ usdf' \in Nat
  BY DEF ApproveTx, CreationInv, Types
<1>2. t.subject \in 1..Len(pools)
  <2>1. t = pending[1] /\ 1 \in 1..Len(pending)
    BY TailFacts, EmptySeq DEF CreationInv, Types, Mines
  <2>2. QED
    BY <2>1 DEF CreationInv, PoolsNamed, IsPool
<1>3. pools \in Seq(Pools) /\ pools[t.subject] \in Pools /\ Len(pools) \in Nat
  BY <1>2 DEF CreationInv, Types
<1> DEFINE new == [pools[t.subject] EXCEPT !.allowance = 1]
<1>4. pools' = [pools EXCEPT ![t.subject] = new]
  BY DEF ApproveTx
<1>5. new \in Pools /\ new.allowance = 1 /\ new.tx = pools[t.subject].tx
      /\ new.funding = pools[t.subject].funding
  BY <1>3 DEF Pools
<1> HIDE DEF new
<1>6. /\ pools' \in Seq(Pools) /\ Len(pools') = Len(pools)
      /\ \A p \in 1..Len(pools) : p # t.subject => pools'[p] = pools[p]
      /\ pools'[t.subject] = new
  BY <1>2, <1>3, <1>4, <1>5, ExceptSeq
<1>7. PoolsGrow
  BY <1>3, <1>5, <1>6 DEF PoolsGrow
<1>8. \A p \in 1..Len(pools) : pools[p].allowance = 1 =>
          pools'[p].allowance = 1 \/ pools'[p].funding > 0
  BY <1>5, <1>6
<1>9. Covered'
  BY <1>1, MineCoverSame
<1>10. QED
  BY <1>1, <1>7, <1>8, <1>9, MineKeeps

LEMMA MineStep ==
    ASSUME CreationInv, Mine, UNCHANGED told
    PROVE  CreationInv'
<1> DEFINE t == Head(pending)
<1>1. Mines(t)
  BY DEF Mine, Mines
<1>2. \/ t.kind = "prepare" /\ PrepareTx(t)
      \/ t.kind = "create" /\ CreateTx(t)
      \/ t.kind = "mint" /\ MintTx(t)
      \/ t.kind = "approve" /\ ApproveTx(t)
      \/ t.kind = "fund" /\ FundTx(t)
  BY DEF Mine
<1> HIDE DEF t
<1>3. QED
  BY <1>1, <1>2, MinePrepare, MineCreate, MineMint, MineApprove, MineFund

-----------------------------------------------------------------------------
(* The steps of the handlers. *)

(* Facts about the request that moves.                                      *)
LEMMA MoverFacts ==
    ASSUME CreationInv, NEW r \in Requests
    PROVE  /\ req \in [Requests -> Handlers] /\ req[r] \in Handlers /\ Idle \in Handlers
           /\ rows \in Seq(Rows) /\ Len(rows) \in Nat
           /\ Len(pools) \in Nat /\ NextTx \in Nat
           /\ \A m \in 1..Len(rows) : rows[m] \in Rows /\ rows[m].pool \in 0..Len(pools)
BY DEF CreationInv, Types, PoolsNamed, Handlers, Idle, NextTx

LEMMA CreateKeeps ==
    ASSUME CreationInv, UNCHANGED told, NEW r \in Requests, Create(r)
    PROVE  CreationInv'
<1> DEFINE q == [Idle EXCEPT !.pc = "slug", !.slug = 1]
<1>1. q \in Handlers /\ q.pc = "slug"
  BY DEF Handlers, Idle
<1>2. Becomes(r, q) /\ UNCHANGED <<pending, rows>>
  BY DEF Create, Becomes
<1> HIDE DEF q
<1>3. QED
  BY <1>1, <1>2, MoverFacts, QuietKeeps

LEMMA ReserveSlugKeeps ==
    ASSUME CreationInv, UNCHANGED told, NEW r \in Requests, ReserveSlug(r)
    PROVE  CreationInv'
<1> DEFINE q == [req[r] EXCEPT !.slug = NextAttempt(@)]
<1>1. q \in Handlers /\ q.pc = "slug"
  <2>1. req[r].slug \in Nat /\ req[r] \in Handlers
    BY MoverFacts DEF Handlers
  <2>2. NextAttempt(req[r].slug) \in Nat
    BY <2>1 DEF NextAttempt
  <2>3. QED
    BY <2>1, <2>2 DEF Handlers, ReserveSlug
<1>2. Becomes(r, q) /\ UNCHANGED <<pending, rows>>
  BY MoverFacts DEF ReserveSlug, Becomes
<1> HIDE DEF q
<1>3. QED
  BY <1>1, <1>2, MoverFacts, QuietKeeps

LEMMA InitializeConditionKeeps ==
    ASSUME CreationInv, UNCHANGED told, NEW r \in Requests, InitializeCondition(r)
    PROVE  CreationInv'
<1> DEFINE q == [req[r] EXCEPT !.pc = "initialized", !.tx = NextTx, !.question = NextTx]
           t == [kind |-> "prepare", subject |-> NextTx]
<1>1. /\ q \in Handlers /\ q.pc = "initialized" /\ q.tx = NextTx
      /\ t \in Txs /\ t.kind = "prepare"
  BY MoverFacts DEF Handlers, Txs
<1>2. Becomes(r, q) /\ pending' = Append(pending, t) /\ UNCHANGED rows
  BY MoverFacts DEF InitializeCondition, Becomes
<1> HIDE DEF q, t
<1>3. QED
  BY <1>1, <1>2, MoverFacts, SendKeeps DEF Awaits

LEMMA PersistMarketKeeps ==
    ASSUME CreationInv, UNCHANGED told, NEW r \in Requests, PersistMarket(r)
    PROVE  CreationInv'
<1> DEFINE q == [req[r] EXCEPT !.pc = "seed", !.market = Len(rows) + 1]
           row == [slug |-> req[r].slug, question |-> req[r].question, pool |-> 0]
<1>1. q \in Handlers /\ q.pc = "seed" /\ q.market = Len(rows) + 1
  <2>1. req[r] \in Handlers /\ Len(rows) + 1 \in Nat
    BY MoverFacts
  <2>2. QED
    BY <2>1 DEF Handlers
<1>2. row \in Rows /\ row.pool = 0
  BY MoverFacts DEF Handlers, Rows
<1>3. Becomes(r, q) /\ rows' = Append(rows, row) /\ UNCHANGED pending
  BY MoverFacts DEF PersistMarket, Becomes
<1> HIDE DEF q, row
<1>4. /\ rows' \in Seq(Rows) /\ Len(rows') = Len(rows) + 1
      /\ \A m \in 1..Len(rows) : rows'[m] = rows[m]
      /\ rows'[Len(rows) + 1] = row
  BY <1>2, <1>3, MoverFacts, AppendProperties
<1>5. \A m \in 1..Len(rows') : rows'[m].pool \in 0..Len(pools)
  BY <1>2, <1>4, MoverFacts
<1>6. Len(rows) <= Len(rows') /\ q.market \in 1..Len(rows')
  BY <1>1, <1>4, MoverFacts
<1>7. QED
  BY <1>1, <1>3, <1>4, <1>5, <1>6, QuietKeeps

LEMMA SeedKeeps ==
    ASSUME CreationInv, UNCHANGED told, NEW r \in Requests, NEW m \in DOMAIN rows, Seed(r, m)
    PROVE  CreationInv'
<1> DEFINE q == [Idle EXCEPT !.pc = "seed", !.market = m]
<1>1. m \in 1..Len(rows) /\ m \in Nat
  BY MoverFacts
<1>2. q \in Handlers /\ q.pc = "seed" /\ q.market = m
  BY <1>1 DEF Handlers, Idle
<1>3. Becomes(r, q) /\ UNCHANGED <<pending, rows>>
  BY DEF Seed, Becomes
<1> HIDE DEF q
<1>4. QED
  BY <1>1, <1>2, <1>3, MoverFacts, QuietKeeps

(* A request that is answered, whatever it was told.                        *)
LEMMA AnswerKeeps ==
    ASSUME CreationInv, NEW r \in Requests, Answer(r), UNCHANGED <<pending, rows, chain>>,
           \A p \in told' : p \in told \/ (IsPool(p) /\ pools[p].funding > 0)
    PROVE  CreationInv'
<1>1. Becomes(r, Idle) /\ Idle.pc = "idle"
  BY DEF Answer, Becomes, Idle
<1>2. QED
  BY <1>1, MoverFacts, QuietKeeps

LEMMA CreatePoolKeeps ==
    ASSUME CreationInv, UNCHANGED told, NEW r \in Requests, CreatePool(r)
    PROVE  CreationInv'
<1> DEFINE n == rows[req[r].market].question
           q == [req[r] EXCEPT !.pc = "created", !.tx = NextTx]
           t == [kind |-> "create", subject |-> n]
<1>1. req[r].market \in 1..Len(rows)
  BY DEF CreatePool, CreationInv, PoolsNamed, IsRow
<1>2. n \in Nat
  BY <1>1, MoverFacts DEF Rows
<1>3. CASE n \in prepared
  <2>1. /\ q \in Handlers /\ q.pc = "created" /\ q.tx = NextTx /\ q.market = req[r].market
        /\ t \in Txs /\ t.kind = "create"
    BY <1>2, MoverFacts DEF Handlers, Txs
  <2>2. Becomes(r, q) /\ pending' = Append(pending, t) /\ UNCHANGED rows
    BY <1>3, MoverFacts DEF CreatePool, SendTx, Becomes
  <2> HIDE DEF q, t
  <2>3. QED
    BY <1>1, <2>1, <2>2, MoverFacts, SendKeeps DEF Awaits, IsRow
<1>4. CASE n \notin prepared
  BY <1>4, AnswerKeeps DEF CreatePool
<1>5. QED
  BY <1>3, <1>4

(* A mint for pool p, with or without a new name for it in the row.         *)
LEMMA SendMintKeeps ==
    ASSUME CreationInv, UNCHANGED <<told, chain>>, NEW r \in Requests, NEW p \in 1..Len(pools),
           SendMint(r, p), Len(rows') = Len(rows), rows' \in Seq(Rows),
           \A m \in 1..Len(rows') : rows'[m].pool \in 0..Len(pools)
    PROVE  CreationInv'
<1> DEFINE q == [req[r] EXCEPT !.pc = "minted", !.tx = NextTx, !.pool = p]
           t == [kind |-> "mint", subject |-> 0]
<1>1. /\ q \in Handlers /\ q.pc = "minted" /\ q.tx = NextTx /\ q.pool = p
      /\ t \in Txs /\ t.kind = "mint"
  <2>1. req[r] \in Handlers /\ NextTx \in Nat /\ p \in Nat
    BY MoverFacts
  <2>2. QED
    BY <2>1 DEF Handlers, Txs
<1>2. Becomes(r, q) /\ pending' = Append(pending, t)
  BY MoverFacts DEF SendMint, Becomes
<1> HIDE DEF q, t
<1>3. QED
  BY <1>1, <1>2, SendKeeps DEF Awaits, IsPool

LEMMA ReusePoolKeeps ==
    ASSUME CreationInv, UNCHANGED told, NEW r \in Requests, ReusePool(r)
    PROVE  CreationInv'
<1>1. req[r].market \in 1..Len(rows)
  BY DEF ReusePool, CreationInv, PoolsNamed, IsRow
<1>2. rows[req[r].market].pool \in 1..Len(pools)
  BY <1>1, MoverFacts DEF ReusePool, PoolMissing
<1>3. QED
  BY <1>2, MoverFacts, SendMintKeeps DEF ReusePool

(* The row is still there, and the receipt names a pool.                    *)
LEMMA SavePoolFacts ==
    ASSUME CreationInv, NEW r \in Requests, SavePool(r)
    PROVE  LET p == PoolOf(req[r].tx)
               m == req[r].market
           IN  /\ p \in 1..Len(pools) /\ m \in 1..Len(rows)
               /\ rows' \in Seq(Rows) /\ Len(rows') = Len(rows)
               /\ rows'[m].pool = p
               /\ \A n \in 1..Len(rows) : n # m => rows'[n] = rows[n]
<1> DEFINE p == PoolOf(req[r].tx)
           m == req[r].market
           new == [rows[m] EXCEPT !.pool = p]
<1>1. m \in 1..Len(rows)
  BY DEF SavePool, Receipt, CreationInv, PoolsNamed, IsRow
<1>2. p \in 1..Len(pools)
  <2>1. \E i \in 1..Len(pools) : pools[i].tx = req[r].tx
    BY DEF SavePool, Receipt, CreationInv, SentCreate
  <2>2. DOMAIN pools = 1..Len(pools)
    BY DEF CreationInv, Types
  <2>3. QED
    BY <2>1, <2>2 DEF PoolOf
<1>3. rows' = [rows EXCEPT ![m] = new]
  BY DEF SavePool
<1> HIDE DEF p
<1>4. new \in Rows /\ new.pool = p
  <2>1. rows[m] \in Rows /\ p \in Nat
    BY <1>1, <1>2, MoverFacts
  <2>2. QED
    BY <2>1 DEF Rows
<1> HIDE DEF new, m
<1>5. rows \in Seq(Rows)
  BY MoverFacts
<1>6. /\ rows' \in Seq(Rows) /\ Len(rows') = Len(rows)
      /\ \A n \in 1..Len(rows) : rows'[n] = IF n = m THEN new ELSE rows[n]
  BY <1>1, <1>3, <1>4, <1>5, ExceptSeq
<1>7. /\ p \in 1..Len(pools) /\ m \in 1..Len(rows)
      /\ rows' \in Seq(Rows) /\ Len(rows') = Len(rows)
      /\ rows'[m].pool = p
      /\ \A n \in 1..Len(rows) : n # m => rows'[n] = rows[n]
  BY <1>1, <1>2, <1>4, <1>6
<1>8. QED
  BY <1>7 DEF p, m

LEMMA SavePoolKeeps ==
    ASSUME CreationInv, UNCHANGED told, NEW r \in Requests, SavePool(r)
    PROVE  CreationInv'
<1> DEFINE p == PoolOf(req[r].tx)
<1>1. /\ p \in 1..Len(pools) /\ rows' \in Seq(Rows) /\ Len(rows') = Len(rows)
      /\ SendMint(r, p) /\ UNCHANGED chain
  BY SavePoolFacts DEF SavePool
<1>2. \A n \in 1..Len(rows') : rows'[n].pool \in 0..Len(pools)
  BY <1>1, SavePoolFacts, MoverFacts
<1> HIDE DEF p
<1>3. QED
  BY <1>1, <1>2, SendMintKeeps

LEMMA ApproveKeeps ==
    ASSUME CreationInv, UNCHANGED told, NEW r \in Requests, Approve(r)
    PROVE  CreationInv'
<1> DEFINE q == [req[r] EXCEPT !.pc = "approved", !.tx = NextTx]
           t == [kind |-> "approve", subject |-> req[r].pool]
<1>1. IsPool(req[r].pool) /\ r \in Holders
  BY DEF Approve, Receipt, CreationInv, PoolsNamed, Seeding, Holders
<1>2. /\ q \in Handlers /\ q.pc = "approved" /\ q.tx = NextTx /\ q.pool = req[r].pool
      /\ t \in Txs /\ t.kind = "approve" /\ t.subject = q.pool
  BY MoverFacts DEF Handlers, Txs
<1>3. Becomes(r, q) /\ pending' = Append(pending, t) /\ UNCHANGED rows
  BY MoverFacts DEF Approve, SendTx, Becomes
<1> HIDE DEF q, t
<1>4. QED
  BY <1>1, <1>2, <1>3, MoverFacts, SendKeeps DEF Awaits

LEMMA AddFundingKeeps ==
    ASSUME CreationInv, UNCHANGED told, NEW r \in Requests, AddFunding(r)
    PROVE  CreationInv'
<1> DEFINE q == [req[r] EXCEPT !.pc = "funded", !.tx = NextTx]
           t == [kind |-> "fund", subject |-> req[r].pool]
<1>1. IsPool(req[r].pool) /\ r \in Holders
  BY DEF AddFunding, Receipt, CreationInv, PoolsNamed, Seeding, Holders
<1>2. CASE CanFund(req[r].pool)
  <2>1. pools[req[r].pool].allowance = 1
    <3>1. pools[req[r].pool] \in Pools
      BY <1>1 DEF CreationInv, Types, IsPool
    <3>2. pools[req[r].pool].allowance \in {0, 1}
      BY <3>1 DEF Pools
    <3>3. QED
      BY <1>2, <3>2 DEF CanFund
  <2>2. /\ q \in Handlers /\ q.pc = "funded" /\ q.tx = NextTx /\ q.pool = req[r].pool
        /\ t \in Txs /\ t.kind = "fund" /\ t.subject = q.pool
    BY MoverFacts DEF Handlers, Txs
  <2>3. Becomes(r, q) /\ pending' = Append(pending, t) /\ UNCHANGED rows
    BY <1>2, MoverFacts DEF AddFunding, SendTx, Becomes
  <2> HIDE DEF q, t
  <2>4. QED
    BY <1>1, <2>1, <2>2, <2>3, MoverFacts, SendKeeps DEF Awaits
<1>3. CASE ~CanFund(req[r].pool)
  BY <1>3, AnswerKeeps DEF AddFunding
<1>4. QED
  BY <1>2, <1>3

(* The receipt says that the pool is funded, whatever its status.           *)
LEMMA DoneKeeps ==
    ASSUME CreationInv, NEW r \in Requests, Done(r), told' = told \union {req[r].pool}
    PROVE  CreationInv'
<1>1. IsPool(req[r].pool) /\ pools[req[r].pool].funding > 0
  BY DEF Done, Receipt, CreationInv, PoolsNamed, Seeding, SentFund
<1>2. QED
  BY <1>1, AnswerKeeps DEF Done

(* A restart forgets every request, and the chain goes on.                  *)
LEMMA CrashKeeps ==
    ASSUME CreationInv, UNCHANGED told, Crash
    PROVE  CreationInv'
<1> USE DEF chain
<1>1. req' \in [Requests -> Handlers] /\ \A r \in Requests : req'[r] = Idle /\ Idle.pc = "idle"
  <2>1. Idle \in Handlers
    BY DEF Handlers, Idle
  <2>2. QED
    BY <2>1 DEF Crash, Idle
<1>2. UNCHANGED <<rows, pending, prepared, pools, usdf, mined, told>>
  BY DEF Crash
<1>3. Types'
  BY <1>1, <1>2 DEF CreationInv, Types
<1>4. OwnTx' /\ PoolsNamed'
  BY <1>1, <1>2 DEF CreationInv, OwnTx, PoolsNamed, Waiting, Awaits, Seeding, IsPool
<1>5. \A r \in Requests : SentCreate(r)' /\ SentMint(r)' /\ SentFund(r)'
  BY <1>1 DEF SentCreate, SentMint, SentFund
<1>6. Approved' /\ Told'
  BY <1>2 DEF CreationInv, Approved, Told, IsPool
<1>7. Holders' \subseteq Holders /\ Fundings' \subseteq Fundings /\ usdf' = usdf
  BY <1>1, <1>2 DEF Holders, Fundings, Sent, Tx
<1>8. Covered'
  BY <1>3, <1>7, CoverKept DEF CreationInv
<1>9. QED
  BY <1>3, <1>4, <1>5, <1>6, <1>8 DEF CreationInv

-----------------------------------------------------------------------------
(* The invariant. *)

LEMMA InitCreationInv == Init => CreationInv
<1> SUFFICES ASSUME Init PROVE CreationInv
  OBVIOUS
<1> USE DEF Init
<1>1. Types
  BY DEF Types, Handlers, Idle
<1>2. OwnTx /\ PoolsNamed /\ Approved /\ Told
  BY DEF OwnTx, PoolsNamed, Approved, Told, Waiting, Awaits, Seeding, Idle
<1>3. \A r \in Requests : SentCreate(r) /\ SentMint(r) /\ SentFund(r)
  BY DEF SentCreate, SentMint, SentFund, Idle
<1>4. Holders = {} /\ Fundings = {}
  BY DEF Holders, Fundings, Sent, Idle
<1>5. Covered
  BY <1>4, FS_EmptySet DEF Covered
<1>6. QED
  BY <1>1, <1>2, <1>3, <1>5 DEF CreationInv

LEMMA NextCreationInv == CreationInv /\ [Next]_vars => CreationInv'
<1> SUFFICES ASSUME CreationInv, [Next]_vars PROVE CreationInv'
  OBVIOUS
<1>1. CASE UNCHANGED vars
  BY <1>1 DEF vars, CreationInv, Types, OwnTx, PoolsNamed, SentCreate, SentMint, SentFund,
              Approved, Covered, Told, Waiting, Seeding, IsPool, IsRow, Sent, Tx, Holders, Fundings
<1>2. ASSUME NEW r \in Requests, Done(r), told' = told \union {req[r].pool}
      PROVE  CreationInv'
  BY <1>2, DoneKeeps
<1>3. ASSUME NEW r \in Requests, UNCHANGED told,
             \/ Create(r) \/ CreateSteps(r) \/ SeedSteps(r) \/ Fail(r)
             \/ \E m \in DOMAIN rows : Seed(r, m)
      PROVE  CreationInv'
  <2>1. CASE Fail(r)
    BY <1>3, <2>1, AnswerKeeps DEF Fail
  <2>2. CASE CreateSteps(r)
    BY <1>3, <2>2, ReserveSlugKeeps, InitializeConditionKeeps, PersistMarketKeeps DEF CreateSteps
  <2>3. CASE SeedSteps(r)
    BY <1>3, <2>3, CreatePoolKeeps, ReusePoolKeeps, SavePoolKeeps, ApproveKeeps,
       AddFundingKeeps DEF SeedSteps
  <2>4. QED
    BY <1>3, <2>1, <2>2, <2>3, CreateKeeps, SeedKeeps
<1>4. QED
  BY <1>1, <1>2, <1>3, MineStep, CrashKeeps DEF Next, Step

LEMMA CreationInvariant == Spec => []CreationInv
BY InitCreationInv, NextCreationInv, PTL DEF Spec

(* Whoever is told that a market is seeded has a pool that holds the seed,  *)
(* for any number of requests that race for one balance and one allowance,  *)
(* although seedMarketInternal ignores the status of addFunding's receipt.  *)
THEOREM FundedWhenOkHolds == Spec => []FundedWhenOk
<1>1. CreationInv => FundedWhenOk
  BY DEF CreationInv, Told, FundedWhenOk
<1>2. QED
  BY <1>1, CreationInvariant, PTL

-----------------------------------------------------------------------------
(* A market keeps its pool, as long as one request is served at a time. *)

Named(p) == \E m \in 1..Len(rows) : rows[m].pool = p
OneByOne == \A r, s \in Requests : req[r] # Idle /\ req[s] # Idle => r = s

\* Only a market without a pool waits for one, and money goes to no pool that
\* a row does not name.
SerialInv ==
    serial =>
      /\ OneByOne
      /\ \A r \in Requests : req[r].pc = "created" => rows[req[r].market].pool = 0
      /\ \A r \in Requests : Seeding(r) => Named(req[r].pool)
      /\ \A i \in 1..Len(pending) : pending[i].kind = "fund" => Named(pending[i].subject)
      /\ \A p \in 1..Len(pools) : pools[p].funding > 0 => Named(p)

RowsKeepPools ==
    /\ Len(rows) <= Len(rows')
    /\ \A m \in 1..Len(rows) : rows[m].pool # 0 => rows'[m].pool = rows[m].pool

(* What SerialInv needs to know of the step of one request.                 *)
Moves(r) ==
    /\ UNCHANGED chain
    /\ \A s \in Requests \ {r} : req'[s] = req[s]
    /\ UNCHANGED rows \/ req[r] # Idle
    /\ req'[r].pc = "created" => UNCHANGED rows /\ rows[req'[r].market].pool = 0
    /\ \/ ~Seeding(r)'
       \/ Seeding(r) /\ req'[r].pool = req[r].pool
       \/ Named(req[r].pool)'
    /\ \/ UNCHANGED pending
       \/ \E t \in Txs : /\ pending' = Append(pending, t)
                         /\ t.kind = "fund" => Seeding(r) /\ t.subject = req[r].pool

LEMMA CreateMoves ==
    ASSUME CreationInv, NEW r \in Requests,
           \/ Create(r) \/ Fail(r) \/ Done(r) \/ \E m \in DOMAIN rows : Seed(r, m)
    PROVE  Moves(r) /\ UNCHANGED <<rows, pending>>
<1>1. UNCHANGED <<rows, pending, chain>>
  BY DEF Create, Fail, Done, Seed
<1>2. CASE Create(r) \/ \E m \in DOMAIN rows : Seed(r, m)
  <2>1. /\ \A s \in Requests \ {r} : req'[s] = req[s]
        /\ req'[r].pc \in {"slug", "seed"}
    BY <1>2, MoverFacts DEF Create, Seed, Idle
  <2>2. QED
    BY <1>1, <2>1 DEF Moves, Seeding
<1>3. CASE Fail(r) \/ Done(r)
  <2>1. /\ \A s \in Requests \ {r} : req'[s] = req[s]
        /\ req'[r].pc = "idle"
    BY <1>3, MoverFacts DEF Fail, Done, Answer, Idle
  <2>2. QED
    BY <1>1, <2>1 DEF Moves, Seeding
<1>4. QED
  BY <1>2, <1>3

(* Sending leaves what is sent for as it is.                                *)
LEMMA SendTxMoves ==
    ASSUME CreationInv, NEW r \in Requests, NEW pc, NEW n,
           req' = [req EXCEPT ![r].pc = pc, ![r].tx = n]
    PROVE  /\ \A s \in Requests \ {r} : req'[s] = req[s]
           /\ req'[r].pc = pc /\ req'[r].pool = req[r].pool /\ req'[r].market = req[r].market
<1>1. req \in [Requests -> Handlers] /\ req[r] \in Handlers
  BY MoverFacts
<1>2. req' = [req EXCEPT ![r] = [req[r] EXCEPT !.pc = pc, !.tx = n]]
  BY <1>1
<1>3. QED
  BY <1>1, <1>2 DEF Handlers

LEMMA CreateStepsMove ==
    ASSUME CreationInv, NEW r \in Requests, CreateSteps(r)
    PROVE  Moves(r)
<1>1. CASE ReserveSlug(r)
  BY <1>1, MoverFacts DEF Moves, ReserveSlug, Seeding
<1>2. CASE InitializeCondition(r)
  <2> DEFINE t == [kind |-> "prepare", subject |-> NextTx]
  <2>1. t \in Txs /\ t.kind # "fund"
    BY MoverFacts DEF Txs
  <2>2. pending' = Append(pending, t)
    BY <1>2 DEF InitializeCondition
  <2> HIDE DEF t
  <2>3. QED
    BY <1>2, <2>1, <2>2, MoverFacts DEF Moves, InitializeCondition, Seeding
<1>3. CASE PersistMarket(r)
  <2>1. req[r] # Idle
    BY <1>3 DEF PersistMarket, Receipt, Idle
  <2>2. QED
    BY <1>3, <2>1, MoverFacts DEF Moves, PersistMarket, Seeding
<1>4. QED
  BY <1>1, <1>2, <1>3 DEF CreateSteps

LEMMA SeedStepsMove ==
    ASSUME CreationInv, NEW r \in Requests, SeedSteps(r)
    PROVE  Moves(r)
<1>1. CASE CreatePool(r)
  <2> DEFINE n == rows[req[r].market].question
             t == [kind |-> "create", subject |-> n]
  <2>1. req[r].market \in 1..Len(rows) /\ rows[req[r].market].pool = 0
    BY <1>1 DEF CreatePool, PoolMissing, CreationInv, PoolsNamed, IsRow
  <2>2. t \in Txs /\ t.kind # "fund"
    BY <2>1, MoverFacts DEF Txs, Rows
  <2>3. CASE n \in prepared
    <3>1. pending' = Append(pending, t)
      BY <1>1, <2>3 DEF CreatePool, SendTx
    <3>2. /\ req'[r].market = req[r].market /\ req'[r].pc = "created"
          /\ \A s \in Requests \ {r} : req'[s] = req[s]
      <4>1. req' = [req EXCEPT ![r].pc = "created", ![r].tx = NextTx]
        BY <1>1, <2>3 DEF CreatePool, SendTx
      <4>2. QED
        BY <4>1, SendTxMoves
    <3> HIDE DEF t
    <3>3. QED
      BY <1>1, <2>1, <2>2, <3>1, <3>2 DEF Moves, CreatePool, Seeding
  <2>4. CASE n \notin prepared
    BY <1>1, <2>4, MoverFacts DEF Moves, CreatePool, Answer, Idle, Seeding
  <2>5. QED
    BY <2>3, <2>4
<1> DEFINE mint == [kind |-> "mint", subject |-> 0]
<1>2. mint \in Txs /\ mint.kind # "fund"
  BY DEF Txs
<1>3. CASE ReusePool(r)
  <2>1. req[r].market \in 1..Len(rows)
    BY <1>3 DEF ReusePool, CreationInv, PoolsNamed, IsRow
  <2>2. req'[r].pool = rows[req[r].market].pool /\ req'[r].pc = "minted" /\ UNCHANGED rows
        /\ pending' = Append(pending, mint) /\ \A s \in Requests \ {r} : req'[s] = req[s]
    BY <1>3, MoverFacts DEF ReusePool, SendMint, Handlers
  <2> HIDE DEF mint
  <2>3. Named(req[r].pool)'
    BY <2>1, <2>2 DEF Named
  <2>4. QED
    BY <1>2, <1>3, <2>2, <2>3 DEF Moves, ReusePool
<1>4. CASE SavePool(r)
  <2>1. req'[r].pool = PoolOf(req[r].tx) /\ req'[r].pc = "minted" /\ req[r] # Idle
        /\ pending' = Append(pending, mint) /\ \A s \in Requests \ {r} : req'[s] = req[s]
    BY <1>4, MoverFacts DEF SavePool, SendMint, Receipt, Idle, Handlers
  <2> HIDE DEF mint
  <2>2. Named(req[r].pool)'
    BY <1>4, <2>1, SavePoolFacts DEF Named
  <2>3. QED
    BY <1>2, <1>4, <2>1, <2>2 DEF Moves, SavePool
<1>5. CASE Approve(r)
  <2> DEFINE t == [kind |-> "approve", subject |-> req[r].pool]
  <2>1. t \in Txs /\ t.kind # "fund"
    BY MoverFacts DEF Txs, Handlers
  <2>2. /\ pending' = Append(pending, t)
        /\ req'[r].pc = "approved" /\ req'[r].pool = req[r].pool
        /\ \A s \in Requests \ {r} : req'[s] = req[s]
    <3>1. req' = [req EXCEPT ![r].pc = "approved", ![r].tx = NextTx]
      BY <1>5 DEF Approve, SendTx
    <3>2. pending' = Append(pending, t)
      BY <1>5 DEF Approve, SendTx
    <3>3. QED
      BY <3>1, <3>2, SendTxMoves
  <2> HIDE DEF t
  <2>3. QED
    <3>1. UNCHANGED rows /\ UNCHANGED chain /\ Seeding(r)
      BY <1>5 DEF Approve, Receipt, Seeding
    <3>2. QED
      BY <2>1, <2>2, <3>1 DEF Moves
<1>6. CASE AddFunding(r)
  <2> DEFINE t == [kind |-> "fund", subject |-> req[r].pool]
  <2>1. t \in Txs /\ t.subject = req[r].pool
    BY MoverFacts DEF Txs, Handlers
  <2>2. CASE CanFund(req[r].pool)
    <3>1. /\ pending' = Append(pending, t)
          /\ req'[r].pc = "funded" /\ req'[r].pool = req[r].pool
          /\ \A s \in Requests \ {r} : req'[s] = req[s]
      <4>1. req' = [req EXCEPT ![r].pc = "funded", ![r].tx = NextTx]
        BY <1>6, <2>2 DEF AddFunding, SendTx
      <4>2. pending' = Append(pending, t)
        BY <1>6, <2>2 DEF AddFunding, SendTx
      <4>3. QED
        BY <4>1, <4>2, SendTxMoves
    <3> HIDE DEF t
    <3>2. QED
      <4>1. UNCHANGED rows /\ UNCHANGED chain /\ Seeding(r)
        BY <1>6 DEF AddFunding, Receipt, Seeding
      <4>2. QED
        BY <2>1, <3>1, <4>1 DEF Moves
  <2>3. CASE ~CanFund(req[r].pool)
    BY <1>6, <2>3, MoverFacts DEF Moves, AddFunding, Answer, Idle, Seeding
  <2>4. QED
    BY <2>2, <2>3
<1>7. QED
  BY <1>1, <1>3, <1>4, <1>5, <1>6 DEF SeedSteps

(* Every step is one request's, a block's or a restart.                     *)
LEMMA StepKinds ==
    ASSUME CreationInv, Next
    PROVE  \/ \E r \in Requests : Moves(r) /\ (CreateSteps(r) \/ SeedSteps(r) \/ UNCHANGED rows)
           \/ Mine /\ UNCHANGED told
           \/ Crash
<1>1. ASSUME NEW r \in Requests,
             \/ Create(r) \/ Fail(r) \/ Done(r) \/ \E m \in DOMAIN rows : Seed(r, m)
      PROVE  Moves(r) /\ UNCHANGED rows
  BY <1>1, CreateMoves
<1>2. ASSUME NEW r \in Requests, CreateSteps(r) \/ SeedSteps(r)
      PROVE  Moves(r)
  BY <1>2, CreateStepsMove, SeedStepsMove
<1>3. QED
  BY <1>1, <1>2 DEF Next, Step

(* No step gives a market that has a pool another one.                      *)
LEMMA RowsKeep ==
    ASSUME CreationInv, SerialInv, serial, Next
    PROVE  RowsKeepPools
<1>1. CASE UNCHANGED rows
  BY <1>1, MoverFacts DEF RowsKeepPools, CreationInv, Types
<1>2. ASSUME NEW r \in Requests, PersistMarket(r)
      PROVE  RowsKeepPools
  <2> DEFINE row == [slug |-> req[r].slug, question |-> req[r].question, pool |-> 0]
  <2>1. row \in Rows /\ rows' = Append(rows, row)
    BY <1>2, MoverFacts DEF PersistMarket, Rows, Handlers
  <2> HIDE DEF row
  <2>2. Len(rows') = Len(rows) + 1 /\ \A m \in 1..Len(rows) : rows'[m] = rows[m]
    BY <2>1, MoverFacts, AppendProperties
  <2>3. QED
    BY <2>2, MoverFacts DEF RowsKeepPools
<1>3. ASSUME NEW r \in Requests, SavePool(r)
      PROVE  RowsKeepPools
  <2>1. rows[req[r].market].pool = 0
    BY <1>3 DEF SavePool, Receipt, SerialInv
  <2>2. QED
    BY <1>3, <2>1, SavePoolFacts, MoverFacts DEF RowsKeepPools
<1>4. ASSUME NEW r \in Requests, CreateSteps(r) \/ SeedSteps(r)
      PROVE  UNCHANGED rows \/ PersistMarket(r) \/ SavePool(r)
  BY <1>4 DEF CreateSteps, SeedSteps, ReserveSlug, InitializeCondition, CreatePool,
              ReusePool, Approve, AddFunding
<1>5. UNCHANGED rows \/ \E r \in Requests : PersistMarket(r) \/ SavePool(r)
  BY <1>4, StepKinds DEF Mine, Crash
<1>6. QED
  BY <1>1, <1>2, <1>3, <1>5

(* What a row names is named from then on.                                  *)
LEMMA NamedStays ==
    ASSUME CreationInv, CreationInv', RowsKeepPools
    PROVE  \A p \in 1..Len(pools) : Named(p) => \E m \in 1..Len(rows') : rows'[m].pool = p
<1>1. Len(rows') \in Nat
  BY DEF CreationInv, Types
<1>2. ASSUME NEW p \in 1..Len(pools), Named(p)
      PROVE  \E m \in 1..Len(rows') : rows'[m].pool = p
  <2>1. PICK m \in 1..Len(rows) : rows[m].pool = p
    BY <1>2 DEF Named
  <2>2. m \in 1..Len(rows') /\ rows'[m].pool = p
    BY <1>1, <2>1, MoverFacts DEF RowsKeepPools
  <2>3. QED
    BY <2>2
<1>3. QED
  BY <1>2

(* The step of one request, served alone.                                   *)
LEMMA SerialMoves ==
    ASSUME CreationInv, CreationInv', SerialInv, serial, OneByOne', RowsKeepPools,
           NEW r \in Requests, Moves(r)
    PROVE  SerialInv'
<1>0. /\ \A p \in 1..Len(pools) : Named(p) => \E m \in 1..Len(rows') : rows'[m].pool = p
      /\ pools' = pools
  BY NamedStays DEF Moves, chain
<1>1. ASSUME NEW s \in Requests, req'[s].pc = "created"
      PROVE  rows'[req'[s].market].pool = 0
  <2>1. CASE s = r
    BY <1>1, <2>1 DEF Moves
  <2>2. CASE s # r /\ UNCHANGED rows
    BY <1>1, <2>2 DEF Moves, SerialInv
  <2>3. CASE s # r /\ req[r] # Idle
    <3>1. req[s].pc = "created" /\ req[s] # Idle
      BY <1>1, <2>3 DEF Moves, Idle
    <3>2. QED
      BY <2>3, <3>1 DEF SerialInv, OneByOne
  <2>4. QED
    BY <2>1, <2>2, <2>3 DEF Moves
<1>2. ASSUME NEW s \in Requests, Seeding(s)'
      PROVE  \E m \in 1..Len(rows') : rows'[m].pool = req'[s].pool
  <2>1. CASE Seeding(s) /\ req'[s].pool = req[s].pool
    <3>1. Named(req[s].pool) /\ IsPool(req[s].pool)
      BY <2>1 DEF SerialInv, CreationInv, PoolsNamed
    <3>2. QED
      BY <1>0, <2>1, <3>1 DEF IsPool
  <2>2. CASE s = r /\ Named(req[r].pool)'
    BY <2>2 DEF Named
  <2>3. QED
    BY <1>2, <2>1, <2>2 DEF Moves, Seeding
<1>3. ASSUME NEW i \in 1..Len(pending'), pending'[i].kind = "fund"
      PROVE  \E m \in 1..Len(rows') : rows'[m].pool = pending'[i].subject
  <2>1. CASE i \in 1..Len(pending) /\ pending'[i] = pending[i]
    <3>1. Named(pending[i].subject) /\ pending[i].subject \in 1..Len(pools)
      BY <1>3, <2>1 DEF SerialInv, CreationInv, PoolsNamed, IsPool
    <3>2. QED
      BY <1>0, <2>1, <3>1
  <2>2. ASSUME Seeding(r), pending'[i].subject = req[r].pool
        PROVE  \E m \in 1..Len(rows') : rows'[m].pool = pending'[i].subject
    <3>1. Named(req[r].pool) /\ req[r].pool \in 1..Len(pools)
      BY <2>2 DEF SerialInv, CreationInv, PoolsNamed, IsPool
    <3>2. QED
      BY <1>0, <2>2, <3>1
  <2>3. CASE UNCHANGED pending
    BY <2>1, <2>3
  <2>4. ASSUME NEW t \in Txs, pending' = Append(pending, t),
               t.kind = "fund" => Seeding(r) /\ t.subject = req[r].pool
        PROVE  \E m \in 1..Len(rows') : rows'[m].pool = pending'[i].subject
    <3>1. mined' = mined
      BY DEF Moves, chain
    <3>2. /\ Len(pending') = Len(pending) + 1 /\ pending'[Len(pending) + 1] = t
          /\ \A j \in 1..Len(pending) : pending'[j] = pending[j]
      BY <2>4, <3>1, AppendFacts DEF CreationInv
    <3>3. Len(pending) \in Nat
      BY DEF CreationInv, Types
    <3>4. i \in 1..Len(pending) \/ i = Len(pending) + 1
      BY <3>2, <3>3
    <3>5. QED
      BY <1>3, <2>1, <2>2, <2>4, <3>2, <3>4
  <2>5. QED
    BY <2>3, <2>4 DEF Moves
<1>4. \A p \in 1..Len(pools') : pools'[p].funding > 0 => \E m \in 1..Len(rows') : rows'[m].pool = p
  BY <1>0 DEF SerialInv
<1>5. QED
  BY <1>1, <1>2, <1>3, <1>4 DEF SerialInv, Named

LEMMA SerialMine ==
    ASSUME CreationInv, CreationInv', SerialInv, serial, OneByOne', Mine, UNCHANGED told
    PROVE  SerialInv'
<1> DEFINE t == Head(pending)
<1>1. Mines(t)
  BY DEF Mine, Mines
<1>2. /\ rows' = rows /\ req' = req /\ t = pending[1] /\ 1 \in 1..Len(pending)
      /\ t \in Txs
      /\ \A i \in 1..Len(pending') : i + 1 \in 1..Len(pending) /\ pending'[i] = pending[i + 1]
  <2>1. 1 \in 1..Len(pending)
    BY <1>1, EmptySeq DEF CreationInv, Types, Mines
  <2>2. QED
    BY <1>1, <2>1, TailFacts DEF CreationInv, Mines
<1>3. ASSUME NEW p \in 1..Len(pools'), pools'[p].funding > 0
      PROVE  \/ p \in 1..Len(pools) /\ pools[p].funding > 0
             \/ t.kind = "fund" /\ p = t.subject
  <2>1. CASE pools' = pools
    BY <1>3, <2>1
  <2>2. CASE CreateTx(t)
    <3> DEFINE new == [tx |-> mined + 1, question |-> t.subject, allowance |-> 0, funding |-> 0]
    <3>1. pools' = Append(pools, new) /\ new.funding = 0
      BY <2>2 DEF CreateTx
    <3> HIDE DEF new
    <3>2. pools \in Seq(Pools) /\ Len(pools) \in Nat /\ Len(pools') \in Nat
      BY DEF CreationInv, Types
    <3>3. Len(pools') = Len(pools) + 1
      BY <3>1, <3>2
    <3>4. p # Len(pools) + 1
      BY <1>3, <3>1, <3>2
    <3>5. p \in 1..Len(pools) /\ pools'[p] = pools[p]
      BY <3>1, <3>2, <3>3, <3>4
    <3>6. QED
      BY <1>3, <3>5
  <2>3. CASE ApproveTx(t)
    <3>1. pools \in Seq(Pools) /\ Len(pools') = Len(pools)
      BY <2>3 DEF ApproveTx, CreationInv, Types
    <3>2. p \in 1..Len(pools) /\ pools[p] \in Pools
      BY <3>1
    <3>3. pools'[p].funding = pools[p].funding
      BY <2>3, <3>1, <3>2 DEF ApproveTx, Pools
    <3>4. QED
      BY <1>3, <3>2, <3>3
  <2>4. CASE t.kind = "fund" /\ FundTx(t) /\ CanFund(t.subject)
    <3>1. pools \in Seq(Pools) /\ Len(pools') = Len(pools)
      BY <2>4 DEF FundTx, CreationInv, Types
    <3>2. p \in 1..Len(pools)
      BY <3>1
    <3>3. p # t.subject => pools'[p] = pools[p]
      BY <2>4, <3>1, <3>2 DEF FundTx
    <3>4. QED
      BY <1>3, <2>4, <3>2, <3>3
  <2>5. QED
    BY <2>1, <2>2, <2>3, <2>4 DEF Mine, PrepareTx, MintTx, FundTx
<1> HIDE DEF t
<1>4. \A p \in 1..Len(pools') : pools'[p].funding > 0 => Named(p)
  BY <1>2, <1>3 DEF SerialInv
<1>5. \A i \in 1..Len(pending') : pending'[i].kind = "fund" => Named(pending'[i].subject)
  BY <1>2 DEF SerialInv
<1>6. QED
  BY <1>2, <1>4, <1>5 DEF SerialInv, Named, Seeding

LEMMA SerialCrash ==
    ASSUME SerialInv, serial, OneByOne', Crash
    PROVE  SerialInv'
<1>1. /\ UNCHANGED <<rows, pending, pools>>
      /\ \A r \in Requests : req'[r].pc = "idle"
  BY DEF Crash, chain, Idle
<1>2. QED
  BY <1>1 DEF SerialInv, Named, Seeding

LEMMA NextSerialInv == CreationInv /\ CreationInv' /\ SerialInv /\ [Next]_vars => SerialInv'
<1> SUFFICES ASSUME CreationInv, CreationInv', SerialInv, [Next]_vars PROVE SerialInv'
  OBVIOUS
<1>1. CASE UNCHANGED vars
  BY <1>1 DEF vars, SerialInv, OneByOne, Named, Seeding
<1>2. CASE Next /\ serial'
  <2>1. serial /\ OneByOne'
    BY <1>2 DEF Next, OneByOne
  <2>2. RowsKeepPools
    BY <1>2, <2>1, RowsKeep
  <2>3. QED
    BY <1>2, <2>1, <2>2, StepKinds, SerialMoves, SerialMine, SerialCrash
<1>3. CASE ~serial'
  BY <1>3 DEF SerialInv
<1>4. QED
  BY <1>1, <1>2, <1>3

LEMMA SerialInvariant == Spec => []SerialInv
<1>1. Init => SerialInv
  <2>1. ASSUME Init PROVE SerialInv
    <3>1. \A r \in Requests : req[r] = Idle
      BY <2>1 DEF Init
    <3>2. OneByOne
      BY <3>1 DEF OneByOne
    <3>3. \A r \in Requests : req[r].pc # "created" /\ ~Seeding(r)
      <4>1. Idle.pc = "idle"
        BY DEF Idle
      <4>2. QED
        BY <3>1, <4>1 DEF Seeding
    <3>4. QED
      BY <2>1, <3>2, <3>3 DEF Init, SerialInv
  <2>2. QED
    BY <2>1
<1>2. QED
  BY <1>1, NextSerialInv, CreationInvariant, PTL DEF Spec

(* As long as requests are served one at a time, whatever fails or restarts, *)
(* seedMarketInternal puts liquidity into no pool that no row names, and no  *)
(* step of it gives a market another pool than the one it has.               *)
THEOREM PoolKeptHolds == Spec => PoolKept
<1>1. CreationInv /\ SerialInv =>
          (serial => \A p \in DOMAIN pools :
               pools[p].funding > 0 => \E m \in DOMAIN rows : rows[m].pool = p)
  BY DEF CreationInv, Types, SerialInv, Named
<1>2. CreationInv /\ SerialInv /\ [Next]_vars =>
          [\A m \in DOMAIN rows :
              serial' /\ rows[m].pool # 0 => rows'[m].pool = rows[m].pool]_vars
  <2> SUFFICES ASSUME CreationInv, SerialInv, Next, serial', NEW m \in DOMAIN rows,
                      rows[m].pool # 0
               PROVE  rows'[m].pool = rows[m].pool
    OBVIOUS
  <2>1. serial
    BY DEF Next
  <2>2. m \in 1..Len(rows)
    BY DEF CreationInv, Types
  <2>3. QED
    BY <2>1, <2>2, RowsKeep DEF RowsKeepPools
<1>3. QED
  BY <1>1, <1>2, CreationInvariant, SerialInvariant, PTL DEF Spec, PoolKept

-----------------------------------------------------------------------------
(* The form that creates a market (CreateForm).                            *)

Paid == [asked : Nat, allowance : Nat, paid : Nat]
Payments == [kind : {"approve", "fund"}, pool : Nat, amount : Nat]
Submissions == [at : {"idle", "upload", "create", "created", "approve", "approving", "fund",
                      "funding"},
                amount : Nat, pool : Nat, tx : Nat]
Endings == {"nothing", "created", "failed", "funded"}
Dialog == [open : BOOLEAN, amount : Nat, file : BOOLEAN,
           says : {"nothing", "error", "created", "funded"},
           uploading : BOOLEAN, pending : BOOLEAN, funding : BOOLEAN]

\* Where a submission waits for a transaction of a kind.
Awaited(kind) == IF kind = "approve" THEN "approving" ELSE "funding"
Awaiting(q) == q.at \in {"approving", "funding"}

\* What the wallet sent and nobody gave up on is awaited by a dialog.
SentOK(i) ==
  /\ sent[i].pool \in 1..Len(own) /\ sent[i].amount = own[sent[i].pool].asked
  /\ \/ sent[i].pool \in excused
     \/ \E f \in Forms : /\ call[f].pool = sent[i].pool /\ call[f].tx = count + i
                         /\ call[f].at = Awaited(sent[i].kind)

\* How far a submission has come with its pool.
PaidSoFar(q) ==
  /\ q.at # "funding" \/ q.tx > count => own[q.pool].paid = 0
  /\ \/ q.at = "fund" \/ (q.at = "funding" /\ q.tx > count)
     \/ (q.at = "approving" /\ q.tx <= count)
     => own[q.pool].allowance = own[q.pool].asked
  /\ q.at = "funding" /\ q.tx <= count => own[q.pool].paid = own[q.pool].asked

DialogOK(q) ==
  /\ q.pool = 0 <=> q.at \in {"idle", "upload", "create"}
  /\ q.at = "idle" => q = Dialogs!Idle
  /\ q.tx <= count + Len(sent)
  /\ Awaiting(q) /\ q.tx > count =>
       sent[q.tx - count].pool = q.pool /\ Awaited(sent[q.tx - count].kind) = q.at
  /\ q.pool # 0 =>
       /\ q.pool <= Len(own) /\ q.amount = own[q.pool].asked /\ says[q.pool] = "nothing"
       /\ q.pool \in excused \/ PaidSoFar(q)

EndOK(p) ==
  p \in excused \/ /\ says[p] = "funded" => own[p].paid = own[p].asked
                   /\ says[p] \in {"created", "failed"} => own[p].paid = 0

PayTypes ==
  /\ call \in [Forms -> Submissions] /\ own \in Seq(Paid) /\ sent \in Seq(Payments)
  /\ count \in Nat /\ says \in Seq(Endings) /\ Len(says) = Len(own)

PayInv ==
  /\ PayTypes
  /\ \A i \in 1..Len(sent) : SentOK(i)
  /\ \A f \in Forms : DialogOK(call[f])
  /\ \A f, g \in Forms : call[f].pool = call[g].pool /\ call[f].pool # 0 => f = g
  /\ \A p \in 1..Len(own) : EndOK(p)

\* A dialog that is open is locked while its submission lasts.
LockOK(x, q) == x.open => ((x.uploading \/ x.pending \/ x.funding) <=> q.at # "idle")
LockInv ==
  /\ form \in [Forms -> Dialog]
  /\ \A f \in Forms : LockOK(form[f], call[f])

LEMMA PayFacts ==
  ASSUME PayTypes
  PROVE  /\ Len(own) \in Nat /\ Len(sent) \in Nat /\ DOMAIN own = 1..Len(own)
         /\ DOMAIN sent = 1..Len(sent)
         /\ \A p \in 1..Len(own) : own[p] \in Paid /\ says[p] \in Endings
         /\ \A i \in 1..Len(sent) : sent[i] \in Payments
         /\ \A f \in Forms : call[f] \in Submissions
BY LenProperties, ElementOfSeq DEF PayTypes

LEMMA FormIsTrue == PayInv /\ LockInv => FormTrue
<1> SUFFICES ASSUME PayInv, LockInv PROVE FormTrue
  OBVIOUS
<1>0. PayTypes
  BY DEF PayInv
<1>1. Dialogs!SaysWhatWasPaid
  <2> SUFFICES ASSUME NEW p \in 1..Len(own), p \notin excused
      PROVE /\ says[p] = "funded" => own[p].paid = own[p].asked
            /\ says[p] \in {"created", "failed"} =>
                 /\ own[p].paid = 0
                 /\ \A i \in 1..Len(sent) : sent[i].pool = p => sent[i].kind # "fund"
    BY <1>0, PayFacts DEF Dialogs!SaysWhatWasPaid
  <2>1. EndOK(p)
    BY DEF PayInv
  <2>2. ASSUME NEW i \in 1..Len(sent), sent[i].pool = p PROVE says[p] = "nothing"
    <3>1. PICK f \in Forms : call[f].pool = p
      BY <2>2 DEF PayInv, SentOK
    <3>2. p # 0
      BY <1>0, PayFacts
    <3>3. QED
      BY <3>1, <3>2 DEF PayInv, DialogOK
  <2>3. QED
    BY <2>1, <2>2 DEF EndOK
<1>2. Dialogs!LockedWhileBusy
  <2> SUFFICES ASSUME NEW f \in Forms, form[f].open
      PROVE Dialogs!Locked(f) <=> call[f] # Dialogs!Idle
    BY DEF Dialogs!LockedWhileBusy
  <2>1. LockOK(form[f], call[f]) /\ DialogOK(call[f])
    BY DEF LockInv, PayInv
  <2>2. call[f].at = "idle" <=> call[f] = Dialogs!Idle
    <3>1. Dialogs!Idle.at = "idle"
      BY DEF Dialogs!Idle
    <3>2. QED
      BY <2>1, <3>1 DEF DialogOK
  <2>3. QED
    BY <2>1, <2>2 DEF LockOK, Dialogs!Locked
<1>3. QED
  BY <1>1, <1>2 DEF FormTrue, Dialogs!FormTrue

LEMMA DialogKeeps ==
  ASSUME NEW f \in Forms, NEW n \in Submissions, PayTypes,
         call' = [call EXCEPT ![f] = n]
  PROVE  /\ call' \in [Forms -> Submissions] /\ call'[f] = n
         /\ \A g \in Forms : g # f => call'[g] = call[g]
BY DEF PayTypes

\* A dialog goes on, or begins, with nothing of it left to be mined.
LEMMA DialogGoesOn ==
  ASSUME PayInv, NEW f \in Forms, NEW q \in Submissions, q = call[f], NEW n \in Submissions,
         call' = [call EXCEPT ![f] = n], UNCHANGED <<own, sent, count, says, excused>>,
         DialogOK(n), n.pool \in {q.pool, 0}, Awaiting(q) => q.tx <= count
  PROVE  PayInv'
<1>1. /\ call' \in [Forms -> Submissions] /\ call'[f] = n
      /\ \A g \in Forms : g # f => call'[g] = call[g]
  BY DialogKeeps DEF PayInv
<1>2. PayTypes'
  BY <1>1 DEF PayInv, PayTypes
<1>3. ASSUME NEW i \in 1..Len(sent) PROVE SentOK(i)'
  <2>1. SentOK(i)
    BY DEF PayInv
  <2>2. ASSUME NEW g \in Forms, call[g].pool = sent[i].pool, call[g].tx = count + i,
               call[g].at = Awaited(sent[i].kind)
        PROVE  g # f
    <3>1. count \in Nat /\ i \in Nat /\ i > 0
      BY PayFacts DEF PayInv, PayTypes
    <3>2. Awaiting(call[g]) /\ call[g].tx > count
      BY <2>2, <3>1 DEF Awaiting, Awaited
    <3>3. QED
      BY <3>1, <3>2 DEF Submissions
  <2>3. QED
    BY <1>1, <2>1, <2>2 DEF SentOK
<1>4. ASSUME NEW g \in Forms PROVE DialogOK(call[g])'
  <2>1. CASE g = f
    BY <1>1, <2>1 DEF DialogOK, PaidSoFar, Awaiting
  <2>2. CASE g # f
    <3>1. DialogOK(call[g]) /\ call'[g] = call[g]
      BY <1>1, <2>2 DEF PayInv
    <3>2. QED
      BY <3>1 DEF DialogOK, PaidSoFar, Awaiting
  <2>3. QED
    BY <2>1, <2>2
<1>5. \A g, h \in Forms : call'[g].pool = call'[h].pool /\ call'[g].pool # 0 => g = h
  BY <1>1 DEF PayInv
<1>6. \A p \in 1..Len(own) : EndOK(p)'
  BY DEF PayInv, EndOK
<1>7. QED
  BY <1>2, <1>3, <1>4, <1>5, <1>6 DEF PayInv

\* A submission ends, and so the message of its pool is its last.
LEMMA DialogEnds ==
  ASSUME PayInv, NEW f \in Forms, NEW q \in Submissions, q = call[f], q.pool # 0,
         call' = [call EXCEPT ![f] = Dialogs!Idle], NEW m \in Endings \ {"nothing"},
         says' = [says EXCEPT ![q.pool] = m], UNCHANGED <<own, sent, count>>,
         \/ excused' = excused \union {q.pool}
         \/ /\ excused' = excused /\ (Awaiting(q) => q.tx <= count)
            /\ q.pool \in excused \/ /\ m = "funded" => own[q.pool].paid = own[q.pool].asked
                                     /\ m # "funded" => own[q.pool].paid = 0
  PROVE  PayInv'
<1>0. PICK n \in Submissions : n = Dialogs!Idle /\ n.at = "idle" /\ n.pool = 0 /\ n.tx = 0
  <2>1. Dialogs!Idle \in Submissions
    BY DEF Dialogs!Idle, Submissions
  <2>2. QED
    BY <2>1 DEF Dialogs!Idle
<1>1. /\ call' \in [Forms -> Submissions] /\ call'[f] = n
      /\ \A g \in Forms : g # f => call'[g] = call[g]
  BY <1>0, DialogKeeps DEF PayInv
<1>2. DialogOK(q) /\ q.pool \in 1..Len(own) /\ excused \subseteq excused'
  BY PayFacts DEF PayInv, DialogOK, Submissions
<1>3. /\ says' \in Seq(Endings) /\ Len(says') = Len(says)
      /\ \A p \in 1..Len(own) : says'[p] = IF p = q.pool THEN m ELSE says[p]
  <2>1. says \in Seq(Endings) /\ q.pool \in 1..Len(says) /\ m \in Endings /\ Len(says) = Len(own)
    BY <1>2 DEF PayInv, PayTypes
  <2>2. QED
    BY <2>1, ExceptSeq
<1>4. PayTypes'
  BY <1>1, <1>3 DEF PayInv, PayTypes
<1>5. ASSUME NEW i \in 1..Len(sent) PROVE SentOK(i)'
  <2>1. SentOK(i)
    BY DEF PayInv
  <2>2. ASSUME NEW g \in Forms, call[g].pool = sent[i].pool, call[g].tx = count + i,
               call[g].at = Awaited(sent[i].kind), sent[i].pool \notin excused'
        PROVE  g # f
    <3>1. count \in Nat /\ i \in Nat /\ i > 0
      BY PayFacts DEF PayInv, PayTypes
    <3>2. Awaiting(call[g]) /\ call[g].tx > count
      BY <2>2, <3>1 DEF Awaiting, Awaited
    <3>3. QED
      BY <2>2, <3>1, <3>2 DEF Submissions
  <2>3. CASE sent[i].pool \in excused'
    BY <2>1, <2>3 DEF SentOK
  <2>4. CASE sent[i].pool \notin excused'
    BY <1>1, <1>2, <2>1, <2>2, <2>4 DEF SentOK
  <2>5. QED
    BY <2>3, <2>4
<1>6. ASSUME NEW g \in Forms PROVE DialogOK(call[g])'
  <2>1. CASE g = f
    <3>1. call'[g] = n /\ 0 <= count + Len(sent)
      BY <1>1, <2>1, PayFacts DEF PayInv, PayTypes
    <3>2. DialogOK(n)'
      BY <1>0, <3>1 DEF DialogOK, Awaiting, Dialogs!Idle
    <3>3. QED
      BY <3>1, <3>2 DEF DialogOK, PaidSoFar, Awaiting
  <2>2. CASE g # f
    <3>1. PICK o \in Submissions : o = call[g]
      BY PayFacts DEF PayInv
    <3>2. DialogOK(o) /\ o = call'[g] /\ (o.pool # 0 => o.pool # q.pool)
      BY <1>1, <2>2, <3>1 DEF PayInv
    <3>3. o.pool # 0 => o.pool \in 1..Len(own)
      BY <3>2, PayFacts DEF DialogOK, Submissions, PayInv
    <3>4. o.pool # 0 => says'[o.pool] = says[o.pool]
      BY <1>3, <3>2, <3>3
    <3>5. DialogOK(o)'
      BY <1>2, <3>2, <3>4 DEF DialogOK, PaidSoFar, Awaiting
    <3>6. QED
      BY <3>2, <3>5 DEF DialogOK, PaidSoFar, Awaiting
  <2>3. QED
    BY <2>1, <2>2
<1>7. \A g, h \in Forms : call'[g].pool = call'[h].pool /\ call'[g].pool # 0 => g = h
  BY <1>0, <1>1 DEF PayInv
<1>8. ASSUME NEW p \in 1..Len(own) PROVE EndOK(p)'
  <2>1. EndOK(p) /\ says'[p] = IF p = q.pool THEN m ELSE says[p]
    BY <1>3 DEF PayInv
  <2>2. CASE p # q.pool
    BY <1>2, <2>1, <2>2 DEF EndOK
  <2>3. CASE p = q.pool
    BY <1>2, <2>1, <2>3 DEF EndOK
  <2>4. QED
    BY <2>2, <2>3
<1>9. QED
  BY <1>4, <1>5, <1>6, <1>7, <1>8 DEF PayInv

\* The API has made a market for a submission.
LEMMA DialogGetsMarket ==
  ASSUME PayInv, NEW f \in Forms, NEW q \in Submissions, q = call[f], q.at = "create",
         NEW e \in Paid, e = [asked |-> q.amount, allowance |-> 0, paid |-> 0],
         own' = Append(own, e), says' = Append(says, "nothing"), NEW n \in Submissions,
         n = [q EXCEPT !.at = "created", !.pool = Len(own) + 1],
         call' = [call EXCEPT ![f] = n], UNCHANGED <<sent, count, excused>>
  PROVE  PayInv'
<1>0. PayTypes /\ Len(own) \in Nat /\ Len(sent) \in Nat /\ count \in Nat
  BY PayFacts DEF PayInv, PayTypes
<1>1. /\ call' \in [Forms -> Submissions] /\ call'[f] = n
      /\ \A g \in Forms : g # f => call'[g] = call[g]
  BY <1>0, DialogKeeps
<1>2. /\ own' \in Seq(Paid) /\ Len(own') = Len(own) + 1 /\ own'[Len(own) + 1] = e
      /\ \A p \in 1..Len(own) : own'[p] = own[p]
  BY <1>0, AppendProperties DEF PayTypes
<1>3. /\ says' \in Seq(Endings) /\ Len(says') = Len(own) + 1 /\ says'[Len(own) + 1] = "nothing"
      /\ \A p \in 1..Len(own) : says'[p] = says[p]
  <2>1. "nothing" \in Endings /\ says \in Seq(Endings) /\ Len(says) = Len(own)
    BY <1>0 DEF Endings, PayTypes
  <2>2. QED
    BY <2>1, AppendProperties
<1>4. n.at = "created" /\ n.pool = Len(own) + 1 /\ n.amount = q.amount /\ n.tx = q.tx
  BY DEF Submissions
<1>5. e.asked = q.amount /\ e.allowance = 0 /\ e.paid = 0
  OBVIOUS
<1>6. PayTypes'
  BY <1>0, <1>1, <1>2, <1>3 DEF PayTypes
<1>7. ASSUME NEW i \in 1..Len(sent) PROVE SentOK(i)'
  <2>1. SentOK(i)
    BY DEF PayInv
  <2>2. own'[sent[i].pool] = own[sent[i].pool] /\ sent[i].pool \in 1..Len(own')
    BY <1>0, <1>2, <2>1 DEF SentOK
  <2>3. ASSUME NEW g \in Forms, call[g].at = Awaited(sent[i].kind) PROVE g # f
    BY <2>3 DEF Awaited
  <2>4. QED
    BY <1>1, <2>1, <2>2, <2>3 DEF SentOK
<1>8. ASSUME NEW g \in Forms PROVE DialogOK(call[g])'
  <2>1. CASE g = f
    <3>1. q.tx <= count + Len(sent)
      BY DEF PayInv, DialogOK
    <3>2. n.pool # 0 /\ n.pool <= Len(own')
      BY <1>0, <1>2, <1>4
    <3>3. n.amount = own'[n.pool].asked /\ says'[n.pool] = "nothing" /\ own'[n.pool].paid = 0
      BY <1>2, <1>3, <1>4, <1>5
    <3>4. PaidSoFar(n)'
      BY <1>4, <3>3 DEF PaidSoFar
    <3>5. DialogOK(n)'
      BY <1>4, <3>1, <3>2, <3>3, <3>4 DEF DialogOK, Awaiting
    <3>6. QED
      BY <1>1, <2>1, <3>5 DEF DialogOK, PaidSoFar, Awaiting
  <2>2. CASE g # f
    <3>1. PICK o \in Submissions : o = call[g]
      BY <1>0, PayFacts
    <3>2. DialogOK(o) /\ o = call'[g]
      BY <1>1, <2>2, <3>1 DEF PayInv
    <3>3. o.pool # 0 => o.pool \in 1..Len(own) /\ o.pool <= Len(own')
      BY <1>0, <1>2, <3>2, SMTT(20) DEF DialogOK, Submissions
    <3>4. o.pool # 0 => says'[o.pool] = says[o.pool] /\ own'[o.pool] = own[o.pool]
      BY <1>2, <1>3, <3>3
    <3>5. DialogOK(o)'
      BY <3>2, <3>3, <3>4 DEF DialogOK, PaidSoFar, Awaiting
    <3>6. QED
      BY <3>2, <3>5 DEF DialogOK, PaidSoFar, Awaiting
  <2>3. QED
    BY <2>1, <2>2
<1>9. \A g, h \in Forms : call'[g].pool = call'[h].pool /\ call'[g].pool # 0 => g = h
  <2>1. \A g \in Forms : call[g].pool # Len(own) + 1
    <3> SUFFICES ASSUME NEW g \in Forms, call[g].pool = Len(own) + 1 PROVE FALSE
      OBVIOUS
    <3>1. DialogOK(call[g])
      BY DEF PayInv
    <3>2. QED
      BY <1>0, <3>1 DEF DialogOK
  <2>2. QED
    BY <1>1, <1>4, <2>1 DEF PayInv
<1>10. ASSUME NEW p \in 1..Len(own') PROVE EndOK(p)'
  <2>1. CASE p \in 1..Len(own)
    <3>1. EndOK(p) /\ own'[p] = own[p] /\ says'[p] = says[p]
      BY <1>2, <1>3, <2>1 DEF PayInv
    <3>2. QED
      BY <3>1 DEF EndOK
  <2>2. CASE p = Len(own) + 1
    <3>1. says'[p] = "nothing"
      BY <1>3, <2>2
    <3>2. QED
      BY <3>1 DEF EndOK
  <2>3. QED
    BY <1>0, <1>2, <2>1, <2>2
<1>11. QED
  BY <1>6, <1>7, <1>8, <1>9, <1>10 DEF PayInv

\* The visitor confirms an approval or a payment.
LEMMA DialogSends ==
  ASSUME PayInv, NEW f \in Forms, NEW q \in Submissions, q = call[f],
         NEW k \in {"approve", "fund"}, q.at = k,
         NEW t \in Payments, t = [kind |-> k, pool |-> q.pool, amount |-> q.amount],
         sent' = Append(sent, t), NEW n \in Submissions,
         n = [q EXCEPT !.at = Awaited(k), !.tx = count + Len(sent) + 1],
         call' = [call EXCEPT ![f] = n], UNCHANGED <<own, count, says, excused>>
  PROVE  PayInv'
<1>0. PayTypes /\ Len(own) \in Nat /\ Len(sent) \in Nat /\ count \in Nat
  BY PayFacts DEF PayInv, PayTypes
<1>1. /\ call' \in [Forms -> Submissions] /\ call'[f] = n
      /\ \A g \in Forms : g # f => call'[g] = call[g]
  BY <1>0, DialogKeeps
<1>2. /\ sent' \in Seq(Payments) /\ Len(sent') = Len(sent) + 1 /\ sent'[Len(sent) + 1] = t
      /\ \A i \in 1..Len(sent) : sent'[i] = sent[i]
  BY <1>0, AppendProperties DEF PayTypes
<1>3. /\ n.at = Awaited(k) /\ n.pool = q.pool /\ n.amount = q.amount
      /\ n.tx = count + Len(sent) + 1
  BY DEF Submissions
<1>4. t.kind = k /\ t.pool = q.pool /\ t.amount = q.amount
  OBVIOUS
<1>5. /\ q.pool \in 1..Len(own) /\ q.amount = own[q.pool].asked /\ says[q.pool] = "nothing"
      /\ q.pool \in excused \/ PaidSoFar(q)
  <2>1. DialogOK(q)
    BY DEF PayInv
  <2>2. QED
    BY <1>0, <2>1 DEF DialogOK, Submissions
<1>6. PayTypes'
  BY <1>0, <1>1, <1>2 DEF PayTypes
<1>7. ASSUME NEW i \in 1..Len(sent') PROVE SentOK(i)'
  <2>1. CASE i \in 1..Len(sent)
    <3>1. SentOK(i) /\ sent'[i] = sent[i]
      BY <1>2, <2>1 DEF PayInv
    <3>2. ASSUME NEW g \in Forms, call[g].at = Awaited(sent[i].kind) PROVE g # f
      BY <3>2 DEF Awaited
    <3>3. QED
      BY <1>1, <3>1, <3>2 DEF SentOK
  <2>2. CASE i = Len(sent) + 1
    <3>1. sent'[i] = t /\ count + i = n.tx
      BY <1>0, <1>2, <1>3, <2>2
    <3>2. QED
      BY <1>1, <1>3, <1>4, <1>5, <3>1 DEF SentOK
  <2>3. QED
    BY <1>0, <1>2, <2>1, <2>2
<1>8. ASSUME NEW g \in Forms PROVE DialogOK(call[g])'
  <2>1. CASE g = f
    <3>1. n.tx > count /\ n.tx <= count + Len(sent') /\ n.tx - count = Len(sent) + 1
      BY <1>0, <1>2, <1>3
    <3>2. n.at \in {"approving", "funding"} /\ (n.at = "funding" => k = "fund")
      BY <1>3 DEF Awaited
    <3>3. q.pool \in excused \/ PaidSoFar(n)'
      <4> SUFFICES ASSUME q.pool \notin excused PROVE PaidSoFar(n)'
        OBVIOUS
      <4>1. PaidSoFar(q) /\ q.at # "funding"
        BY <1>5
      <4>2. own[n.pool].paid = 0
        BY <1>3, <4>1 DEF PaidSoFar
      <4>3. ~(n.tx <= count)
        BY <1>0, <1>3
      <4>4. n.at = "funding" => own[n.pool].allowance = own[n.pool].asked
        BY <1>3, <3>2, <4>1 DEF PaidSoFar
      <4>5. QED
        BY <3>2, <4>2, <4>3, <4>4 DEF PaidSoFar
    <3>4. sent'[n.tx - count] = t
      BY <1>2, <3>1
    <3>5. DialogOK(n)'
      BY <1>3, <1>4, <1>5, <3>1, <3>2, <3>3, <3>4 DEF DialogOK, Awaiting
    <3>6. QED
      BY <1>1, <2>1, <3>5 DEF DialogOK, PaidSoFar, Awaiting
  <2>2. CASE g # f
    <3>1. PICK o \in Submissions : o = call[g]
      BY <1>0, PayFacts
    <3>2. DialogOK(o) /\ o = call'[g]
      BY <1>1, <2>2, <3>1 DEF PayInv
    <3>3. o.tx <= count + Len(sent) /\ o.tx <= count + Len(sent')
      BY <1>0, <1>2, <3>2 DEF DialogOK, Submissions
    <3>4. o.tx > count => sent'[o.tx - count] = sent[o.tx - count]
      BY <1>0, <1>2, <3>3, SMTT(20) DEF Submissions
    <3>5. DialogOK(o)'
      BY <3>2, <3>3, <3>4 DEF DialogOK, PaidSoFar, Awaiting
    <3>6. QED
      BY <3>2, <3>5 DEF DialogOK, PaidSoFar, Awaiting
  <2>3. QED
    BY <2>1, <2>2
<1>9. \A g, h \in Forms : call'[g].pool = call'[h].pool /\ call'[g].pool # 0 => g = h
  BY <1>1, <1>3 DEF PayInv
<1>10. \A p \in 1..Len(own) : EndOK(p)'
  BY DEF PayInv, EndOK
<1>11. QED
  BY <1>6, <1>7, <1>8, <1>9, <1>10 DEF PayInv

\* The next transaction is mined: one of a dialog that awaits it, unless it
\* is excused.
LEMMA PaymentMined ==
  ASSUME PayInv, sent # <<>>, sent' = Tail(sent), count' = count + 1,
         NEW t \in Payments, t = sent[1], NEW e \in Paid, e = own[t.pool], NEW o \in Paid,
         own' = [own EXCEPT ![t.pool] = o], o.asked = e.asked, UNCHANGED <<call, says>>,
         \/ /\ t.kind = "approve" /\ o.allowance = t.amount /\ o.paid = e.paid
            /\ excused' = excused
         \/ /\ t.kind = "fund" /\ o.paid = e.paid + t.amount /\ excused' = excused
         \/ t.kind = "fund" /\ excused' = excused \union {t.pool}
  PROVE  PayInv'
<1>0. PayTypes /\ Len(own) \in Nat /\ Len(sent) \in Nat /\ count \in Nat
  BY PayFacts DEF PayInv, PayTypes
<1>1. /\ sent' \in Seq(Payments) /\ Len(sent') = Len(sent) - 1 /\ Len(sent) > 0
      /\ \A i \in 1..Len(sent') : sent'[i] = sent[i + 1]
  <2>1. sent \in Seq(Payments) /\ Len(sent) > 0
    BY <1>0, EmptySeq DEF PayTypes
  <2>2. QED
    BY <2>1, HeadTailProperties
<1>2. SentOK(1) /\ t.pool \in 1..Len(own) /\ t.amount = e.asked
  <2>1. 1 \in 1..Len(sent)
    BY <1>0, <1>1
  <2>2. QED
    BY <2>1 DEF PayInv, SentOK
<1>3. /\ own' \in Seq(Paid) /\ Len(own') = Len(own)
      /\ \A p \in 1..Len(own) : own'[p] = IF p = t.pool THEN o ELSE own[p]
  BY <1>0, <1>2, ExceptSeq DEF PayTypes
<1>4. PayTypes' /\ excused \subseteq excused'
  BY <1>0, <1>1, <1>3 DEF PayTypes
<1>5. \A p \in 1..Len(own) : own'[p].asked = own[p].asked
  BY <1>2, <1>3
<1>6. ASSUME NEW i \in 1..Len(sent') PROVE SentOK(i)'
  <2>1. SentOK(i + 1) /\ sent'[i] = sent[i + 1] /\ count + (i + 1) = count' + i
    <3>1. i + 1 \in 1..Len(sent)
      BY <1>0, <1>1
    <3>2. QED
      BY <1>0, <1>1, <3>1 DEF PayInv
  <2>2. sent[i + 1].pool \in 1..Len(own)
    BY <2>1 DEF SentOK
  <2>3. QED
    BY <1>3, <1>4, <1>5, <2>1, <2>2 DEF SentOK
<1>7. ASSUME NEW g \in Forms PROVE DialogOK(call[g])'
  <2>1. PICK q \in Submissions : q = call[g] /\ DialogOK(q)
    BY <1>0, PayFacts DEF PayInv
  <2>2. q.tx <= count' + Len(sent')
    BY <1>0, <1>1, <2>1 DEF DialogOK, Submissions
  <2>3. Awaiting(q) /\ q.tx > count' =>
          sent'[q.tx - count'].pool = q.pool /\ Awaited(sent'[q.tx - count'].kind) = q.at
    <3> SUFFICES ASSUME Awaiting(q), q.tx > count'
        PROVE sent'[q.tx - count'].pool = q.pool /\ Awaited(sent'[q.tx - count'].kind) = q.at
      OBVIOUS
    <3>1. q.tx > count /\ q.tx - count' \in 1..Len(sent') /\ (q.tx - count') + 1 = q.tx - count
      BY <1>0, <1>1, <2>2 DEF Submissions
    <3>2. sent'[q.tx - count'] = sent[q.tx - count]
      BY <1>1, <3>1
    <3>3. QED
      BY <2>1, <3>1, <3>2 DEF DialogOK
  <2>4. q.pool # 0 => q.pool \in 1..Len(own)
    BY <1>0, <2>1 DEF DialogOK, Submissions
  <2>5. ASSUME q.pool # 0, q.pool \notin excused' PROVE PaidSoFar(q)'
    <3>1. PaidSoFar(q) /\ q.pool \notin excused /\ q.amount = own[q.pool].asked
      BY <1>4, <2>1, <2>5 DEF DialogOK
    <3>2. CASE q.pool = t.pool
      <4>1. PICK f \in Forms : call[f].pool = t.pool /\ call[f].tx = count + 1
                               /\ call[f].at = Awaited(t.kind)
        BY <1>2, <3>1, <3>2 DEF SentOK
      <4>2. f = g
        BY <2>1, <2>5, <3>2, <4>1 DEF PayInv
      <4>3. q.tx = count + 1 /\ q.at = Awaited(t.kind)
        BY <2>1, <4>1, <4>2
      <4>4. own'[q.pool] = o /\ own[q.pool] = e
        BY <1>2, <1>3, <3>2
      <4>5. q.tx <= count' /\ ~(q.tx > count') /\ q.tx > count
        BY <1>0, <4>3
      <4>6. CASE t.kind = "approve"
        <5>1. q.at = "approving" /\ o.allowance = o.asked /\ o.paid = e.paid
          BY <1>2, <4>3, <4>6 DEF Awaited
        <5>2. QED
          BY <3>1, <4>4, <4>5, <5>1 DEF PaidSoFar
      <4>7. CASE t.kind = "fund"
        <5>1. q.at = "funding" /\ o.paid = e.paid + t.amount
          BY <2>5, <3>2, <4>3, <4>7 DEF Awaited
        <5>2. e.paid = 0
          BY <3>1, <4>4, <4>5, <5>1 DEF PaidSoFar
        <5>3. o.paid = o.asked
          BY <1>2, <5>1, <5>2 DEF Paid
        <5>4. QED
          BY <4>4, <4>5, <5>1, <5>3 DEF PaidSoFar
      <4>8. QED
        BY <4>6, <4>7 DEF Payments
    <3>3. CASE q.pool # t.pool
      <4>1. own'[q.pool] = own[q.pool]
        BY <1>3, <2>4, <2>5, <3>3
      <4>2. Awaiting(q) => q.tx # count + 1
        <5> SUFFICES ASSUME Awaiting(q), q.tx = count + 1 PROVE FALSE
          OBVIOUS
        <5>1. q.tx > count /\ q.tx - count = 1
          BY <1>0
        <5>2. QED
          BY <2>1, <3>3, <5>1 DEF DialogOK
      <4>3. Awaiting(q) => (q.tx > count <=> q.tx > count') /\ (q.tx <= count <=> q.tx <= count')
        BY <1>0, <4>2 DEF Submissions
      <4>4. QED
        BY <3>1, <4>1, <4>3 DEF PaidSoFar, Awaiting
    <3>4. QED
      BY <3>2, <3>3
  <2>6. DialogOK(q)'
    BY <1>3, <1>5, <2>1, <2>2, <2>3, <2>4, <2>5 DEF DialogOK, Awaiting
  <2>7. QED
    BY <2>1, <2>6 DEF DialogOK, PaidSoFar, Awaiting
<1>8. ASSUME NEW p \in 1..Len(own) PROVE EndOK(p)'
  <2>1. EndOK(p)
    BY DEF PayInv
  <2>2. CASE p # t.pool
    BY <1>3, <1>4, <2>1, <2>2 DEF EndOK
  <2>3. CASE p = t.pool
    <3>1. CASE p \in excused'
      BY <3>1 DEF EndOK
    <3>2. CASE p \notin excused'
      <4>1. PICK f \in Forms : call[f].pool = p
        BY <1>2, <1>4, <2>3, <3>2 DEF SentOK
      <4>2. says[p] = "nothing"
        BY <1>0, <4>1 DEF PayInv, DialogOK
      <4>3. QED
        BY <4>2 DEF EndOK
    <3>3. QED
      BY <3>1, <3>2
  <2>4. QED
    BY <2>2, <2>3
<1>9. \A g, h \in Forms : call'[g].pool = call'[h].pool /\ call'[g].pool # 0 => g = h
  BY DEF PayInv
<1>10. QED
  BY <1>3, <1>4, <1>6, <1>7, <1>8, <1>9 DEF PayInv

LEMMA LockKeeps ==
  ASSUME LockInv, PayTypes, NEW f \in Forms, NEW x \in Dialog, NEW n \in Submissions,
         form' = [form EXCEPT ![f] = x], call' = [call EXCEPT ![f] = n], LockOK(x, n)
  PROVE  LockInv'
<1>1. /\ form' \in [Forms -> Dialog] /\ form'[f] = x
      /\ \A g \in Forms : g # f => form'[g] = form[g]
  BY DEF LockInv
<1>2. /\ call'[f] = n
      /\ \A g \in Forms : g # f => call'[g] = call[g]
  BY DialogKeeps
<1>3. ASSUME NEW g \in Forms PROVE LockOK(form[g], call[g])'
  <2>1. CASE g = f
    BY <1>1, <1>2, <2>1 DEF LockOK
  <2>2. CASE g # f
    BY <1>1, <1>2, <2>2 DEF LockOK, LockInv
  <2>3. QED
    BY <2>1, <2>2
<1>4. QED
  BY <1>1, <1>3 DEF LockInv

\* What a dialog shows of a submission's step.
LEMMA ShowsKeeps ==
  ASSUME LockInv, PayTypes, NEW f \in Forms, NEW n \in Submissions,
         call' = [call EXCEPT ![f] = n], NEW x \in Dialog, Dialogs!Shows(f, x),
         (x.uploading \/ x.pending \/ x.funding) <=> n.at # "idle"
  PROVE  LockInv'
<1>1. PICK o \in Dialog : o = form[f]
  BY DEF LockInv
<1>2. CASE o.open
  <2>1. form' = [form EXCEPT ![f] = x]
    BY <1>1, <1>2 DEF Dialogs!Shows
  <2>2. LockOK(x, n)
    BY DEF LockOK
  <2>3. QED
    BY <2>1, <2>2, LockKeeps
<1>3. CASE ~o.open
  <2>1. form' = [form EXCEPT ![f] = o]
    BY <1>1, <1>3 DEF Dialogs!Shows
  <2>2. LockOK(o, n)
    BY <1>3 DEF LockOK
  <2>3. QED
    BY <2>1, <2>2, LockKeeps
<1>4. QED
  BY <1>2, <1>3

FormInv == PayInv /\ LockInv

\* A step that nobody's submission takes.
LEMMA FormRests ==
  ASSUME FormInv, UNCHANGED <<call, own, sent, count, says, excused>>, LockInv'
  PROVE  FormInv'
BY DEF FormInv, PayInv, PayTypes, SentOK, DialogOK, EndOK, PaidSoFar, Awaiting

LEMMA VisitorKeeps ==
  ASSUME FormInv, NEW f \in Forms, Dialogs!Open(f) \/ Dialogs!Close(f) \/ Dialogs!Type(f)
  PROVE  FormInv'
<1>0. PayTypes /\ LockInv /\ Amounts \subseteq Nat
  BY MarketsAssumption DEF FormInv, PayInv, Dialogs!FormAssumption
<1>1. PICK o \in Dialog : o = form[f]
  BY <1>0 DEF LockInv
<1>2. PICK q \in Submissions : q = call[f]
  BY <1>0, PayFacts
<1>3. UNCHANGED <<call, own, sent, count, says, excused>>
  BY DEF Dialogs!Open, Dialogs!Close, Dialogs!Type, Dialogs!chain
<1>4. \E x \in Dialog : form' = [form EXCEPT ![f] = x] /\ LockOK(x, q)
  <2>1. CASE Dialogs!Open(f)
    <3> DEFINE x == [Dialogs!Closed EXCEPT !.open = TRUE]
    <3>1. form' = [form EXCEPT ![f] = x] /\ q.at = "idle"
      BY <1>2, <2>1 DEF Dialogs!Open, Dialogs!Idle
    <3>2. x \in Dialog /\ ~x.uploading /\ ~x.pending /\ ~x.funding
      BY DEF Dialogs!Closed, Dialog
    <3>3. QED
      BY <3>1, <3>2 DEF LockOK
  <2>2. CASE Dialogs!Close(f)
    <3>1. form' = [form EXCEPT ![f] = Dialogs!Closed]
      BY <2>2 DEF Dialogs!Close
    <3>2. Dialogs!Closed \in Dialog /\ ~Dialogs!Closed.open
      BY DEF Dialogs!Closed, Dialog
    <3>3. QED
      BY <3>1, <3>2 DEF LockOK
  <2>3. CASE Dialogs!Type(f)
    <3>1. PICK a \in Nat, b \in BOOLEAN :
            form' = [form EXCEPT ![f] = [o EXCEPT !.says = "nothing", !.amount = a, !.file = b]]
      <4>1. CASE \E a \in Amounts :
                   form' = [form EXCEPT ![f] = [Dialogs!resetStatus(f) EXCEPT !.amount = a]]
        <5>1. PICK a \in Nat :
                form' = [form EXCEPT ![f] = [Dialogs!resetStatus(f) EXCEPT !.amount = a]]
          BY <1>0, <4>1
        <5>2. [Dialogs!resetStatus(f) EXCEPT !.amount = a]
                = [o EXCEPT !.says = "nothing", !.amount = a, !.file = o.file]
          BY <1>1 DEF Dialogs!resetStatus, Dialog
        <5>3. o.file \in BOOLEAN
          BY DEF Dialog
        <5>4. QED
          BY <5>1, <5>2, <5>3
      <4>2. CASE form' = [form EXCEPT ![f] = [Dialogs!resetStatus(f) EXCEPT !.file = ~@]]
        <5>1. PICK b \in BOOLEAN : b = ~o.file
          OBVIOUS
        <5>2. [Dialogs!resetStatus(f) EXCEPT !.file = ~@]
                = [o EXCEPT !.says = "nothing", !.amount = o.amount, !.file = b]
          BY <1>1, <5>1 DEF Dialogs!resetStatus, Dialog
        <5>3. o.amount \in Nat
          BY DEF Dialog
        <5>4. QED
          BY <4>2, <5>2, <5>3
      <4>3. QED
        BY <2>3, <4>1, <4>2 DEF Dialogs!Type
    <3> DEFINE x == [o EXCEPT !.says = "nothing", !.amount = a, !.file = b]
    <3>2. /\ x \in Dialog /\ x.open = o.open /\ x.uploading = o.uploading
          /\ x.pending = o.pending /\ x.funding = o.funding
      BY DEF Dialog
    <3>3. LockOK(o, q)
      BY <1>0, <1>1, <1>2 DEF LockInv
    <3> HIDE DEF x
    <3>4. LockOK(x, q)
      BY <3>2, <3>3 DEF LockOK
    <3>5. QED
      BY <3>1, <3>2, <3>4 DEF x
  <2>4. QED
    BY <2>1, <2>2, <2>3
<1>5. PICK x \in Dialog : form' = [form EXCEPT ![f] = x] /\ LockOK(x, q)
  BY <1>4
<1>6. call' = [call EXCEPT ![f] = q]
  BY <1>0, <1>2, <1>3 DEF PayTypes
<1>7. LockInv'
  BY <1>0, <1>5, <1>6, LockKeeps
<1>8. QED
  BY <1>3, <1>7, FormRests

LEMMA SubmitKeeps ==
  ASSUME FormInv, NEW f \in Forms, Dialogs!Submit(f)
  PROVE  FormInv'
<1>0. PayInv /\ PayTypes /\ LockInv
  BY DEF FormInv, PayInv
<1>1. PICK o \in Dialog : o = form[f]
  BY <1>0 DEF LockInv
<1>2. PICK q \in Submissions : q = call[f] /\ DialogOK(q)
  BY <1>0, PayFacts DEF PayInv
<1>3. UNCHANGED <<own, sent, count, says, excused>>
  BY DEF Dialogs!Submit, Dialogs!chain
<1>4. q.at = "idle" /\ q = Dialogs!Idle
  <2>1. LockOK(o, q) /\ o.open /\ ~(o.uploading \/ o.pending \/ o.funding)
    BY <1>0, <1>1, <1>2 DEF LockInv, Dialogs!Submit, Dialogs!Locked
  <2>2. q.at = "idle"
    BY <2>1 DEF LockOK
  <2>3. QED
    BY <1>2, <2>2 DEF DialogOK
<1>5. PICK w \in {"upload", "create"} :
        /\ call' = [call EXCEPT ![f] = [Dialogs!Idle EXCEPT !.at = w, !.amount = o.amount]]
        /\ form' = [form EXCEPT ![f] = [Dialogs!resetStatus(f) EXCEPT
                      !.uploading = (w = "upload"), !.pending = (w = "create")]]
  BY <1>1 DEF Dialogs!Submit
<1> DEFINE n == [q EXCEPT !.at = w, !.amount = o.amount]
           x == [o EXCEPT !.says = "nothing", !.uploading = (w = "upload"),
                          !.pending = (w = "create")]
<1>6. n \in Submissions /\ n.at = w /\ n.pool = q.pool /\ n.tx = q.tx
  BY DEF Submissions, Dialog
<1>7. x \in Dialog /\ (x.uploading <=> w = "upload") /\ (x.pending <=> w = "create")
  BY DEF Dialog
<1>8. call' = [call EXCEPT ![f] = n]
  BY <1>4, <1>5
<1>9. form' = [form EXCEPT ![f] = x]
  BY <1>1, <1>5 DEF Dialogs!resetStatus
<1> HIDE DEF n, x
<1>10. LockInv'
  <2>1. LockOK(x, n)
    BY <1>6, <1>7 DEF LockOK
  <2>2. QED
    BY <1>0, <1>6, <1>7, <1>8, <1>9, <2>1, LockKeeps
<1>11. DialogOK(n) /\ n.pool = 0 /\ ~Awaiting(q)
  BY <1>2, <1>4, <1>6 DEF DialogOK, Awaiting
<1>12. PayInv'
  BY <1>0, <1>2, <1>3, <1>6, <1>8, <1>11, DialogGoesOn
<1>13. QED
  BY <1>10, <1>12 DEF FormInv

LEMMA EndsKeeps ==
  ASSUME FormInv, NEW f \in Forms, NEW q \in Submissions, q = call[f], q.at # "idle",
         Dialogs!Ends(f), UNCHANGED <<own, sent, count>>,
         \/ q.pool # 0 /\ excused' = excused \union {q.pool}
         \/ /\ excused' = excused /\ ~Awaiting(q)
            /\ q.pool # 0 => q.pool \in excused \/ own[q.pool].paid = 0
  PROVE  FormInv'
<1>0. PayInv /\ PayTypes /\ LockInv
  BY DEF FormInv, PayInv
<1>1. PICK o \in Dialog : o = form[f]
  BY <1>0 DEF LockInv
<1>2. PICK n \in Submissions : n = Dialogs!Idle /\ n.at = "idle" /\ n.pool = 0 /\ n.tx = 0
  <2>1. Dialogs!Idle \in Submissions
    BY DEF Dialogs!Idle, Submissions
  <2>2. QED
    BY <2>1 DEF Dialogs!Idle
<1>3. call' = [call EXCEPT ![f] = n]
  BY <1>2 DEF Dialogs!Ends
<1>4. LockInv'
  <2> DEFINE x == [o EXCEPT !.uploading = FALSE, !.pending = FALSE, !.funding = FALSE,
                            !.says = "error"]
  <2>1. Dialogs!Shows(f, x)
    BY <1>1 DEF Dialogs!Ends, Dialogs!Unlocked
  <2>2. x \in Dialog /\ ~x.uploading /\ ~x.pending /\ ~x.funding
    BY DEF Dialog
  <2> HIDE DEF x
  <2>3. QED
    BY <1>0, <1>2, <1>3, <2>1, <2>2, ShowsKeeps
<1>5. PayInv'
  <2>1. CASE q.pool = 0
    <3>1. UNCHANGED <<own, sent, count, says, excused>>
      BY <2>1 DEF Dialogs!Ends
    <3>2. DialogOK(n)
      <4>1. 0 <= count + Len(sent)
        BY <1>0, PayFacts DEF PayTypes
      <4>2. QED
        BY <1>2, <4>1 DEF DialogOK, Awaiting, Dialogs!Idle
    <3>3. ~Awaiting(q)
      BY <2>1
    <3>4. QED
      BY <1>0, <1>2, <1>3, <2>1, <3>1, <3>2, <3>3, DialogGoesOn
  <2>2. CASE q.pool # 0
    <3>1. says' = [says EXCEPT ![q.pool] = "failed"]
      BY <2>2 DEF Dialogs!Ends
    <3>2. call' = [call EXCEPT ![f] = Dialogs!Idle]
      BY DEF Dialogs!Ends
    <3>3. "failed" \in Endings \ {"nothing"}
      BY DEF Endings
    <3>4. CASE excused' = excused \union {q.pool}
      BY <1>0, <2>2, <3>1, <3>2, <3>3, <3>4, DialogEnds
    <3>5. CASE excused' = excused /\ ~Awaiting(q) /\ (q.pool \in excused \/ own[q.pool].paid = 0)
      BY <1>0, <2>2, <3>1, <3>2, <3>3, <3>5, DialogEnds
    <3>6. QED
      BY <2>2, <3>4, <3>5
  <2>3. QED
    BY <2>1, <2>2
<1>6. QED
  BY <1>4, <1>5 DEF FormInv

LEMMA SucceedsKeeps ==
  ASSUME FormInv, NEW f \in Forms, NEW q \in Submissions, q = call[f], q.pool # 0,
         NEW m \in {"created", "funded"}, Dialogs!Succeeds(f, m),
         UNCHANGED <<own, sent, count, excused>>, Awaiting(q) => q.tx <= count,
         q.pool \in excused \/ /\ m = "funded" => own[q.pool].paid = own[q.pool].asked
                               /\ m # "funded" => own[q.pool].paid = 0
  PROVE  FormInv'
<1>0. PayInv /\ PayTypes /\ LockInv
  BY DEF FormInv, PayInv
<1>1. PICK o \in Dialog : o = form[f]
  BY <1>0 DEF LockInv
<1>2. Dialogs!Idle \in Submissions /\ Dialogs!Idle.at = "idle"
  BY DEF Dialogs!Idle, Submissions
<1>3. call' = [call EXCEPT ![f] = Dialogs!Idle] /\ says' = [says EXCEPT ![q.pool] = m]
  BY DEF Dialogs!Succeeds
<1>4. LockInv'
  <2> DEFINE x == [o EXCEPT !.uploading = FALSE, !.pending = FALSE, !.funding = FALSE,
                            !.says = m, !.amount = 0, !.file = FALSE]
  <2>1. Dialogs!Shows(f, x)
    BY <1>1 DEF Dialogs!Succeeds, Dialogs!Unlocked
  <2>2. x \in Dialog /\ ~x.uploading /\ ~x.pending /\ ~x.funding
    BY DEF Dialog
  <2> HIDE DEF x
  <2>3. QED
    BY <1>0, <1>2, <1>3, <2>1, <2>2, ShowsKeeps
<1>5. PayInv'
  <2>1. m \in Endings \ {"nothing"}
    BY DEF Endings
  <2>2. QED
    BY <1>0, <1>3, <2>1, DialogEnds
<1>6. QED
  BY <1>4, <1>5 DEF FormInv

\* A submission goes on and the dialog stays locked.
LEMMA GoesOnKeeps ==
  ASSUME FormInv, NEW f \in Forms, NEW q \in Submissions, q = call[f], q.at # "idle",
         NEW w \in {"create", "approve", "fund"},
         call' = [call EXCEPT ![f].at = w], UNCHANGED <<own, sent, count, says, excused>>,
         w = "create" <=> q.pool = 0, Awaiting(q) => q.tx <= count,
         w = "approve" => q.at = "created", w = "fund" => q.at = "approving",
         \/ form' = form
         \/ Dialogs!Shows(f, [form[f] EXCEPT !.uploading = FALSE, !.pending = TRUE])
         \/ Dialogs!Shows(f, [form[f] EXCEPT !.pending = FALSE, !.funding = TRUE])
  PROVE  FormInv'
<1>0. PayInv /\ PayTypes /\ LockInv /\ DialogOK(q)
  BY DEF FormInv, PayInv
<1>1. PICK o \in Dialog : o = form[f]
  BY <1>0 DEF LockInv
<1> DEFINE n == [q EXCEPT !.at = w]
<1>2. /\ n \in Submissions /\ n.at = w /\ n.pool = q.pool /\ n.tx = q.tx
      /\ n.amount = q.amount
  BY DEF Submissions
<1>3. call' = [call EXCEPT ![f] = n]
  BY <1>0 DEF PayTypes
<1> HIDE DEF n
<1>4. LockInv'
  <2>1. CASE form' = form
    <3>1. form' = [form EXCEPT ![f] = o]
      BY <1>0, <1>1, <2>1 DEF LockInv
    <3>2. LockOK(o, n)
      BY <1>0, <1>1, <1>2 DEF LockOK, LockInv
    <3>3. QED
      BY <1>0, <1>2, <1>3, <3>1, <3>2, LockKeeps
  <2>2. CASE Dialogs!Shows(f, [form[f] EXCEPT !.uploading = FALSE, !.pending = TRUE])
    <3> DEFINE x == [o EXCEPT !.uploading = FALSE, !.pending = TRUE]
    <3>1. x \in Dialog /\ x.pending /\ Dialogs!Shows(f, x)
      BY <1>1, <2>2 DEF Dialog
    <3> HIDE DEF x
    <3>2. QED
      BY <1>0, <1>2, <1>3, <3>1, ShowsKeeps
  <2>3. CASE Dialogs!Shows(f, [form[f] EXCEPT !.pending = FALSE, !.funding = TRUE])
    <3> DEFINE x == [o EXCEPT !.pending = FALSE, !.funding = TRUE]
    <3>1. x \in Dialog /\ x.funding /\ Dialogs!Shows(f, x)
      BY <1>1, <2>3 DEF Dialog
    <3> HIDE DEF x
    <3>2. QED
      BY <1>0, <1>2, <1>3, <3>1, ShowsKeeps
  <2>4. QED
    BY <2>1, <2>2, <2>3
<1>5. DialogOK(n)
  <2>1. q.pool # 0 => q.pool \in excused \/ PaidSoFar(n)
    <3> SUFFICES ASSUME q.pool # 0, q.pool \notin excused PROVE PaidSoFar(n)
      OBVIOUS
    <3>1. PaidSoFar(q) /\ q.at # "funding" /\ w # "create"
      BY <1>0 DEF DialogOK
    <3>2. w = "fund" => q.tx <= count
      BY DEF Awaiting
    <3>3. QED
      BY <1>2, <3>1, <3>2 DEF PaidSoFar
  <2>2. QED
    BY <1>0, <1>2, <2>1 DEF DialogOK, Awaiting
<1>6. PayInv'
  BY <1>0, <1>2, <1>3, <1>5, DialogGoesOn
<1>7. QED
  BY <1>4, <1>6 DEF FormInv

LEMMA UploadKeeps ==
  ASSUME FormInv, NEW f \in Forms, Dialogs!Upload(f)
  PROVE  FormInv'
<1>1. PICK q \in Submissions : q = call[f] /\ DialogOK(q) /\ q.at = "upload" /\ q.pool = 0
  BY PayFacts DEF FormInv, PayInv, Dialogs!Upload, DialogOK
<1>2. UNCHANGED <<own, sent, count, excused>>
  BY DEF Dialogs!Upload, Dialogs!chain
<1>3. CASE Dialogs!Ends(f)
  BY <1>1, <1>2, <1>3, EndsKeeps DEF Awaiting
<1>4. CASE /\ call' = [call EXCEPT ![f].at = "create"] /\ UNCHANGED says
           /\ Dialogs!Shows(f, [form[f] EXCEPT !.uploading = FALSE, !.pending = TRUE])
  BY <1>1, <1>2, <1>4, GoesOnKeeps DEF Awaiting
<1>5. QED
  BY <1>3, <1>4 DEF Dialogs!Upload

LEMMA CreateMarketKeeps ==
  ASSUME FormInv, NEW f \in Forms, Dialogs!CreateMarket(f)
  PROVE  FormInv'
<1>0. PayInv /\ PayTypes /\ LockInv
  BY DEF FormInv, PayInv
<1>1. PICK q \in Submissions : q = call[f] /\ DialogOK(q) /\ q.at = "create" /\ q.pool = 0
  BY PayFacts DEF FormInv, PayInv, Dialogs!CreateMarket, DialogOK
<1>2. UNCHANGED <<sent, count, excused>>
  BY DEF Dialogs!CreateMarket
<1>3. CASE Dialogs!Ends(f) /\ UNCHANGED own
  BY <1>1, <1>2, <1>3, EndsKeeps DEF Awaiting
<1>4. CASE /\ own' = Append(own, [asked |-> call[f].amount, allowance |-> 0, paid |-> 0])
           /\ says' = Append(says, "nothing") /\ UNCHANGED form
           /\ call' = [call EXCEPT ![f].at = "created", ![f].pool = Len(own')]
  <2>1. Len(own) \in Nat /\ Len(own') = Len(own) + 1
    <3>1. q.amount \in Nat
      BY DEF Submissions
    <3>2. PICK e \in Paid : e = [asked |-> q.amount, allowance |-> 0, paid |-> 0]
      BY <3>1 DEF Paid
    <3>3. QED
      BY <1>0, <1>1, <1>4, <3>2, PayFacts, AppendProperties DEF PayTypes
  <2>2. PICK e \in Paid : e = [asked |-> q.amount, allowance |-> 0, paid |-> 0]
    BY DEF Submissions, Paid
  <2>3. PICK k \in Nat : k = Len(own) + 1
    BY <2>1
  <2>4. PICK n \in Submissions : n = [q EXCEPT !.at = "created", !.pool = k]
    <3>1. [q EXCEPT !.at = "created", !.pool = k] \in Submissions
      BY DEF Submissions
    <3>2. QED
      BY <3>1
  <2>5. call' = [call EXCEPT ![f] = n]
    BY <1>0, <1>1, <1>4, <2>1, <2>3, <2>4 DEF PayTypes
  <2>6. own' = Append(own, e) /\ n = [q EXCEPT !.at = "created", !.pool = Len(own) + 1]
    BY <1>1, <1>4, <2>2, <2>3, <2>4
  <2>7. PayInv'
    BY <1>0, <1>1, <1>2, <1>4, <2>2, <2>5, <2>6, DialogGetsMarket
  <2>8. LockInv'
    <3>1. PICK o \in Dialog : o = form[f] /\ LockOK(o, q)
      BY <1>0, <1>1 DEF LockInv
    <3>2. form' = [form EXCEPT ![f] = o]
      BY <1>0, <1>4, <3>1 DEF LockInv
    <3>3. n.at = "created"
      BY <2>4 DEF Submissions
    <3>4. LockOK(o, n)
      BY <1>1, <3>1, <3>3 DEF LockOK
    <3>5. QED
      BY <1>0, <2>5, <3>2, <3>4, LockKeeps
  <2>9. QED
    BY <2>7, <2>8 DEF FormInv
<1>5. QED
  BY <1>3, <1>4 DEF Dialogs!CreateMarket

LEMMA CreatedKeeps ==
  ASSUME FormInv, NEW f \in Forms, Dialogs!Created(f)
  PROVE  FormInv'
<1>1. PICK q \in Submissions : q = call[f] /\ DialogOK(q) /\ q.at = "created" /\ q.pool # 0
  BY PayFacts DEF FormInv, PayInv, Dialogs!Created, DialogOK
<1>2. UNCHANGED <<own, sent, count, excused>>
  BY DEF Dialogs!Created, Dialogs!chain
<1>3. CASE Dialogs!Succeeds(f, "created")
  <2>1. q.pool \in excused \/ own[q.pool].paid = 0
    BY <1>1 DEF DialogOK, PaidSoFar
  <2>2. QED
    BY <1>1, <1>2, <1>3, <2>1, SucceedsKeeps DEF Awaiting
<1>4. CASE /\ call' = [call EXCEPT ![f].at = "approve"] /\ UNCHANGED says
           /\ Dialogs!Shows(f, [form[f] EXCEPT !.pending = FALSE, !.funding = TRUE])
  BY <1>1, <1>2, <1>4, GoesOnKeeps DEF Awaiting
<1>5. QED
  BY <1>3, <1>4 DEF Dialogs!Created

LEMMA ConfirmKeeps ==
  ASSUME FormInv, NEW f \in Forms, Dialogs!Approve(f) \/ Dialogs!AddFunding(f)
  PROVE  FormInv'
<1>0. PayInv /\ PayTypes /\ LockInv
  BY DEF FormInv, PayInv
<1>1. PICK k \in {"approve", "fund"} : Dialogs!Confirm(f, k, Awaited(k), Dialogs!Amount(f))
  BY DEF Dialogs!Approve, Dialogs!AddFunding, Awaited
<1>2. PICK q \in Submissions : q = call[f] /\ q.at = k
  BY <1>0, <1>1, PayFacts DEF Dialogs!Confirm
<1>3. UNCHANGED <<form, own, count, says, excused>>
  BY <1>1 DEF Dialogs!Confirm
<1>4. count \in Nat /\ Len(sent) \in Nat
  BY <1>0, PayFacts DEF PayTypes
<1>5. PICK t \in Payments : t = [kind |-> k, pool |-> q.pool, amount |-> q.amount]
  BY DEF Payments, Submissions
<1>6. sent' = Append(sent, t)
  BY <1>1, <1>2, <1>5 DEF Dialogs!Confirm, Dialogs!Amount
<1>7. PICK m \in Nat : m = count + Len(sent) + 1
  BY <1>4
<1>8. PICK n \in Submissions : n = [q EXCEPT !.at = Awaited(k), !.tx = m] /\ n.at = Awaited(k)
  <2>1. PICK w \in {"approving", "funding"} : w = Awaited(k)
    BY DEF Awaited
  <2>2. [q EXCEPT !.at = w, !.tx = m] \in Submissions
    BY DEF Submissions
  <2>3. [q EXCEPT !.at = w, !.tx = m].at = w
    BY DEF Submissions
  <2>4. QED
    BY <2>1, <2>2, <2>3
<1>9. call' = [call EXCEPT ![f] = n]
  BY <1>0, <1>1, <1>2, <1>7, <1>8 DEF Dialogs!Confirm, Dialogs!NextTx, PayTypes
<1>10. PayInv'
  BY <1>0, <1>2, <1>3, <1>5, <1>6, <1>7, <1>8, <1>9, DialogSends
<1>11. LockInv'
  <2>1. PICK o \in Dialog : o = form[f] /\ LockOK(o, q)
    BY <1>0, <1>2 DEF LockInv
  <2>2. form' = [form EXCEPT ![f] = o]
    BY <1>0, <1>3, <2>1 DEF LockInv
  <2>3. LockOK(o, n)
    BY <1>2, <1>8, <2>1 DEF LockOK, Awaited
  <2>4. QED
    BY <1>0, <1>9, <2>2, <2>3, LockKeeps
<1>12. QED
  BY <1>10, <1>11 DEF FormInv

LEMMA ReceiptKeeps ==
  ASSUME FormInv, NEW f \in Forms, Dialogs!Approved(f) \/ Dialogs!Funded(f)
  PROVE  FormInv'
<1>1. PICK q \in Submissions :
        q = call[f] /\ DialogOK(q) /\ Awaiting(q) /\ q.tx <= count /\ q.pool # 0
  BY PayFacts DEF FormInv, PayInv, Dialogs!Approved, Dialogs!Funded, Dialogs!Receipt, DialogOK,
     Awaiting
<1>2. UNCHANGED <<own, sent, count, excused>>
  BY DEF Dialogs!Approved, Dialogs!Funded, Dialogs!chain
<1>3. CASE Dialogs!Approved(f)
  <2>1. /\ call' = [call EXCEPT ![f].at = "fund"] /\ UNCHANGED <<form, says>>
        /\ q.at = "approving"
    BY <1>1, <1>3 DEF Dialogs!Approved, Dialogs!Receipt
  <2>2. QED
    BY <1>1, <1>2, <2>1, GoesOnKeeps
<1>4. CASE Dialogs!Funded(f)
  <2>1. Dialogs!Succeeds(f, "funded") /\ q.at = "funding"
    BY <1>1, <1>4 DEF Dialogs!Funded, Dialogs!Receipt
  <2>2. q.pool \in excused \/ own[q.pool].paid = own[q.pool].asked
    BY <1>1, <2>1 DEF DialogOK, PaidSoFar
  <2>3. QED
    BY <1>1, <1>2, <2>1, <2>2, SucceedsKeeps
<1>5. QED
  BY <1>3, <1>4

LEMMA GivenUpKeeps ==
  ASSUME FormInv, NEW f \in Forms, Dialogs!Refused(f) \/ Dialogs!GivesUp(f)
  PROVE  FormInv'
<1>1. PICK q \in Submissions : q = call[f] /\ DialogOK(q)
  BY PayFacts DEF FormInv, PayInv
<1>2. UNCHANGED <<own, sent, count>> /\ Dialogs!Ends(f)
  BY DEF Dialogs!Refused, Dialogs!GivesUp, Dialogs!chain
<1>3. CASE Dialogs!Refused(f)
  <2>1. q.at \in {"approve", "fund"} /\ excused' = excused
    BY <1>1, <1>3 DEF Dialogs!Refused
  <2>2. q.pool # 0 => q.pool \in excused \/ own[q.pool].paid = 0
    BY <1>1, <2>1 DEF DialogOK, PaidSoFar
  <2>3. QED
    BY <1>1, <1>2, <2>1, <2>2, EndsKeeps DEF Awaiting
<1>4. CASE Dialogs!GivesUp(f)
  <2>1. q.at \in {"approving", "funding"} /\ excused' = excused \union {q.pool}
    BY <1>1, <1>4 DEF Dialogs!GivesUp
  <2>2. q.pool # 0
    BY <1>1, <2>1 DEF DialogOK
  <2>3. QED
    BY <1>1, <1>2, <2>1, <2>2, EndsKeeps
<1>5. QED
  BY <1>3, <1>4

LEMMA PaymentKeeps ==
  ASSUME FormInv, Dialogs!Mine
  PROVE  FormInv'
<1>0. PayInv /\ PayTypes /\ LockInv
  BY DEF FormInv, PayInv
<1>1. /\ sent # <<>> /\ sent' = Tail(sent) /\ count' = count + 1
      /\ UNCHANGED <<form, call, says>>
  BY DEF Dialogs!Mine
<1>2. 1 \in 1..Len(sent)
  BY <1>0, <1>1, EmptySeq DEF PayTypes
<1>3. PICK t \in Payments : t = sent[1] /\ t = Head(sent) /\ SentOK(1)
  <2>1. sent[1] \in Payments /\ SentOK(1)
    BY <1>0, <1>2, PayFacts DEF PayInv
  <2>2. Head(sent) = sent[1]
    BY <1>0, <1>1 DEF PayTypes
  <2>3. QED
    BY <2>1, <2>2
<1>4. t.pool \in 1..Len(own) /\ t.amount \in Nat
  BY <1>3 DEF SentOK, Payments
<1>5. PICK e \in Paid : e = own[t.pool]
  BY <1>0, <1>4, PayFacts
<1>6. own \in [DOMAIN own -> Paid] /\ t.pool \in DOMAIN own
  BY <1>0, <1>4, LenProperties DEF PayTypes
<1>7. CASE t.kind = "approve" /\ own' = [own EXCEPT ![t.pool].allowance = t.amount]
           /\ UNCHANGED excused
  <2>1. PICK o \in Paid : o = [e EXCEPT !.allowance = t.amount]
    <3>1. [e EXCEPT !.allowance = t.amount] \in Paid
      BY <1>4 DEF Paid
    <3>2. QED
      BY <3>1
  <2>2. o.asked = e.asked /\ o.allowance = t.amount /\ o.paid = e.paid
    BY <2>1 DEF Paid
  <2>3. own' = [own EXCEPT ![t.pool] = o]
    BY <1>5, <1>7, <2>1
  <2>4. PayInv'
    BY <1>0, <1>1, <1>3, <1>5, <1>7, <2>2, <2>3, PaymentMined
  <2>5. QED
    BY <1>0, <1>1, <2>4 DEF FormInv, LockInv, LockOK
<1>8. CASE t.kind = "fund" /\ Dialogs!Pays(t) /\ UNCHANGED excused
           /\ own' = [own EXCEPT ![t.pool].allowance = @ - t.amount, ![t.pool].paid = @ + t.amount]
  <2>1. PICK a \in Nat, b \in Nat : a = e.allowance - t.amount /\ b = e.paid + t.amount
    <3>1. e.allowance >= t.amount
      BY <1>5, <1>8 DEF Dialogs!Pays
    <3>2. e.allowance \in Nat /\ e.paid \in Nat
      BY DEF Paid
    <3>3. e.allowance - t.amount \in Nat /\ e.paid + t.amount \in Nat
      BY <1>4, <3>1, <3>2
    <3>4. QED
      BY <3>3
  <2>2. PICK o \in Paid : o = [e EXCEPT !.allowance = a, !.paid = b]
    <3>1. [e EXCEPT !.allowance = a, !.paid = b] \in Paid
      BY DEF Paid
    <3>2. QED
      BY <3>1
  <2>3. o.asked = e.asked /\ o.paid = e.paid + t.amount
    BY <2>1, <2>2 DEF Paid
  <2>4. own' = [own EXCEPT ![t.pool] = o]
    BY <1>5, <1>6, <1>8, <2>1, <2>2 DEF Paid
  <2>5. PayInv'
    BY <1>0, <1>1, <1>3, <1>5, <1>8, <2>3, <2>4, PaymentMined
  <2>6. QED
    BY <1>0, <1>1, <2>5 DEF FormInv, LockInv, LockOK
<1>9. CASE t.kind = "fund" /\ excused' = excused \cup {t.pool} /\ UNCHANGED own
  <2>1. own' = [own EXCEPT ![t.pool] = e]
    BY <1>5, <1>6, <1>9
  <2>2. PayInv'
    BY <1>0, <1>1, <1>3, <1>5, <1>9, <2>1, PaymentMined
  <2>3. QED
    BY <1>0, <1>1, <2>2 DEF FormInv, LockInv, LockOK
<1>10. QED
  BY <1>3, <1>7, <1>8, <1>9 DEF Dialogs!Mine

LEMMA FormInitially == MarketsInit => FormInv
<1> SUFFICES ASSUME MarketsInit PROVE FormInv
  OBVIOUS
<1>1. /\ form = [f \in Forms |-> Dialogs!Closed] /\ call = [f \in Forms |-> Dialogs!Idle]
      /\ own = <<>> /\ sent = <<>> /\ count = 0 /\ says = <<>>
  BY DEF MarketsInit, Dialogs!Init
<1>2. Dialogs!Idle \in Submissions /\ Dialogs!Idle.at = "idle" /\ Dialogs!Idle.pool = 0
      /\ Dialogs!Idle.tx = 0
  BY DEF Dialogs!Idle, Submissions
<1>3. Dialogs!Closed \in Dialog /\ ~Dialogs!Closed.open
  BY DEF Dialogs!Closed, Dialog
<1>4. Len(own) = 0 /\ Len(sent) = 0 /\ Len(says) = 0
  BY <1>1
<1>5. PayTypes
  <2>1. call \in [Forms -> Submissions]
    BY <1>1, <1>2
  <2>2. own \in Seq(Paid) /\ sent \in Seq(Payments) /\ says \in Seq(Endings)
    BY <1>1, EmptySeq
  <2>3. QED
    BY <1>1, <1>4, <2>1, <2>2 DEF PayTypes
<1>6. ASSUME NEW f \in Forms PROVE DialogOK(call[f])
  <2>1. call[f] = Dialogs!Idle
    BY <1>1
  <2>2. QED
    BY <1>1, <1>2, <1>4, <2>1 DEF DialogOK, Awaiting
<1>7. PayInv
  BY <1>1, <1>2, <1>4, <1>5, <1>6 DEF PayInv
<1>8. LockInv
  BY <1>1, <1>3 DEF LockInv, LockOK
<1>9. QED
  BY <1>7, <1>8 DEF FormInv

LEMMA FormStep == FormInv /\ [MarketsNext]_markets => FormInv'
<1> SUFFICES ASSUME FormInv, [MarketsNext]_markets PROVE FormInv'
  OBVIOUS
<1>1. CASE UNCHANGED formVars
  <2>1. LockInv'
    BY <1>1 DEF formVars, FormInv, LockInv, LockOK
  <2>2. QED
    BY <1>1, <2>1, FormRests DEF formVars
<1>2. CASE Form
  <2>1. ASSUME NEW f \in Forms, Dialogs!Dialog(f) PROVE FormInv'
    BY <2>1, VisitorKeeps, SubmitKeeps, UploadKeeps, CreateMarketKeeps, CreatedKeeps,
       ConfirmKeeps, ReceiptKeeps, GivenUpKeeps DEF Dialogs!Dialog
  <2>2. CASE Dialogs!ReadBalance \/ Dialogs!SpentElsewhere
    <3>1. UNCHANGED <<form, call, own, sent, count, says, excused>>
      BY <2>2 DEF Dialogs!ReadBalance, Dialogs!SpentElsewhere, Dialogs!chain
    <3>2. LockInv'
      BY <3>1 DEF FormInv, LockInv, LockOK
    <3>3. QED
      BY <3>1, <3>2, FormRests
  <2>3. CASE Dialogs!Mine
    BY <2>3, PaymentKeeps
  <2>4. QED
    BY <1>2, <2>1, <2>2, <2>3 DEF Form, Dialogs!Next
<1>3. QED
  BY <1>1, <1>2 DEF MarketsNext, Creation, Making, Listing, HomePage, markets

\* For any number of dialogs that share a wallet, any amounts and any failure:
\* a dialog ends with what happened to its market, a payment that reverted or
\* was given up excepted, and it is locked exactly while its submission lasts.
THEOREM FormStaysTrue == MarketsSpec => []FormTrue
<1>1. MarketsSpec => []FormInv
  BY FormInitially, FormStep, PTL DEF MarketsSpec
<1>2. FormInv => FormTrue
  BY FormIsTrue DEF FormInv
<1>3. QED
  BY <1>1, <1>2, PTL

-----------------------------------------------------------------------------
(* What a visitor sees of the markets (MarketList, HomeCard). *)

(* A set of numbers that is not empty has a least one.                       *)
LEMMA LeastOf ==
  ASSUME NEW S \in SUBSET Nat, S # {}
  PROVE  \E n \in S : \A m \in S : n <= m
<1> DEFINE R == OpToRel(<, Nat)
<1>1. \E x \in S : \A y \in S : ~(<<y, x>> \in R)
  BY NatLessThanWellFounded, WFMin
<1>2. \A x, y \in Nat : <<y, x>> \in R <=> y < x
  BY DEF OpToRel
<1>3. PICK x \in S : \A y \in S : ~(y < x)
  BY <1>1, <1>2
<1>4. \A y \in S : x <= y
  BY <1>3
<1>5. QED
  BY <1>4

-----------------------------------------------------------------------------
(* Lists of markets, the newest first. *)

Descends(s, S) ==
  /\ s \in [1..Cardinality(S) -> S]
  /\ \A i, j \in 1..Cardinality(S) : i < j => s[i] > s[j]

LEMMA DescentExists ==
  ASSUME NEW M \in SUBSET Nat, IsFiniteSet(M)
  PROVE  \A S \in SUBSET M : \E s : Descends(s, S)
<1> DEFINE Bad == {n \in Nat : \E S \in SUBSET M : Cardinality(S) = n /\ ~\E s : Descends(s, S)}
<1>0. \A S \in SUBSET M : IsFiniteSet(S) /\ Cardinality(S) \in Nat
  BY FS_Subset, FS_CardinalityType
<1> SUFFICES ASSUME Bad # {} PROVE FALSE
  BY <1>0
<1>1. PICK n \in Bad : \A m \in Bad : n <= m
  BY LeastOf
<1>2. PICK S \in SUBSET M : Cardinality(S) = n /\ ~\E s : Descends(s, S)
  BY <1>1
<1>3. n # 0
  <2> SUFFICES ASSUME n = 0 PROVE FALSE
    OBVIOUS
  <2>1. Descends([i \in 1..0 |-> i], S)
    BY <1>2 DEF Descends
  <2>2. QED
    BY <1>2, <2>1
<1>4. PICK x \in S : \A y \in S : x <= y
  <2>1. S # {} /\ S \in SUBSET Nat
    BY <1>0, <1>2, <1>3, FS_EmptySet
  <2>2. QED
    BY <2>1, LeastOf
<1>5. S \ {x} \in SUBSET M /\ Cardinality(S \ {x}) = n - 1 /\ n - 1 \in Nat
  BY <1>0, <1>1, <1>2, <1>3, <1>4, FS_RemoveElement
<1>6. n - 1 \notin Bad
  BY <1>1, <1>5
<1>7. PICK t : Descends(t, S \ {x})
  BY <1>5, <1>6
<1> DEFINE s == [i \in 1..n |-> IF i = n THEN x ELSE t[i]]
<1>8. t \in [1..(n - 1) -> S \ {x}] /\ \A i, j \in 1..(n - 1) : i < j => t[i] > t[j]
  BY <1>5, <1>7 DEF Descends
<1>9. \A i \in 1..n : i # n => i \in 1..(n - 1)
  BY <1>5
<1>10. s \in [1..n -> S]
  BY <1>4, <1>8, <1>9
<1>11. ASSUME NEW i \in 1..n, NEW j \in 1..n, i < j PROVE s[i] > s[j]
  <2>1. i \in 1..(n - 1) /\ s[i] = t[i] /\ t[i] \in S \ {x}
    BY <1>8, <1>9, <1>11
  <2>2. S \subseteq Nat
    OBVIOUS
  <2>3. CASE j = n
    <3>1. s[j] = x /\ x <= t[i] /\ t[i] # x /\ x \in Nat /\ t[i] \in Nat
      BY <1>4, <2>1, <2>2, <2>3
    <3>2. QED
      BY <2>1, <3>1
  <2>4. CASE j # n
    BY <1>8, <1>9, <1>11, <2>1, <2>4
  <2>5. QED
    BY <2>3, <2>4
<1> HIDE DEF s
<1>12. Descends(s, S)
  BY <1>2, <1>10, <1>11 DEF Descends
<1>13. QED
  BY <1>2, <1>12

LEMMA DescentCovers ==
  ASSUME NEW S \in SUBSET Nat, IsFiniteSet(S), NEW s, Descends(s, S)
  PROVE  s \in Seq(S) /\ {s[i] : i \in DOMAIN s} = S
<1> DEFINE n == Cardinality(S)
<1>1. n \in Nat /\ IsFiniteSet(1..n) /\ Cardinality(1..n) = n
  BY FS_CardinalityType, FS_Interval
<1>2. s \in [1..n -> S] /\ \A i, j \in 1..n : i < j => s[i] > s[j]
  BY DEF Descends
<1> HIDE DEF n
<1>3. \A i, j \in 1..n : s[i] = s[j] => i = j
  <2> SUFFICES ASSUME NEW i \in 1..n, NEW j \in 1..n, s[i] = s[j], i # j PROVE FALSE
    OBVIOUS
  <2>1. s[i] \in S /\ s[j] \in S
    BY <1>2
  <2>2. s[i] \in Nat /\ s[j] \in Nat
    BY <2>1
  <2>3. i < j \/ j < i
    BY <1>1
  <2>4. QED
    BY <1>2, <2>2, <2>3
<1>4. s \in Injection(1..n, S)
  BY <1>2, <1>3 DEF Injection, IsInjective
<1>5. s \in Surjection(1..n, S)
  BY <1>1, <1>4, FS_Injection DEF n
<1>6. \A x \in S : \E i \in 1..n : s[i] = x
  BY <1>5 DEF Surjection
<1>7. DOMAIN s = 1..n /\ s \in Seq(S)
  BY <1>1, <1>2
<1>8. {s[i] : i \in 1..n} = S
  BY <1>2, <1>6
<1>9. QED
  BY <1>7, <1>8

\* A market's list is a list of exactly its markets.
LEMMA NewestFirstIs ==
  ASSUME NEW M \in SUBSET Nat, IsFiniteSet(M), NEW S \in SUBSET M
  PROVE  /\ Page!NewestFirst(S) \in Seq(S) /\ Page!Range(Page!NewestFirst(S)) = S
         /\ Home!NewestFirst(S) \in Seq(S) /\ Home!Range(Home!NewestFirst(S)) = S
<1>1. \E s : Descends(s, S)
  BY DescentExists
<1>2. Page!Cardinality(S) = Cardinality(S) /\ Home!Cardinality(S) = Cardinality(S)
  BY DEF Cardinality, Page!Cardinality, Home!Cardinality
<1>3. /\ Page!NewestFirst(S) = CHOOSE s : Descends(s, S)
      /\ Home!NewestFirst(S) = CHOOSE s : Descends(s, S)
  BY <1>2 DEF Descends, Page!NewestFirst, Home!NewestFirst
<1>4. Descends(Page!NewestFirst(S), S) /\ Descends(Home!NewestFirst(S), S)
  BY <1>1, <1>3
<1>5. S \in SUBSET Nat /\ IsFiniteSet(S)
  BY FS_Subset
<1> DEFINE s == Page!NewestFirst(S)
           t == Home!NewestFirst(S)
<1>6. /\ s \in Seq(S) /\ {s[i] : i \in DOMAIN s} = S
      /\ t \in Seq(S) /\ {t[i] : i \in DOMAIN t} = S
  BY <1>4, <1>5, DescentCovers
<1>7. QED
  BY <1>6 DEF Page!Range, Home!Range
LEMMA PageConstants ==
  /\ Markets \in SUBSET Nat /\ IsFiniteSet(Markets)
  /\ CONCURRENCY \in Nat \ {0} /\ MaxStats \in Nat /\ MaxHeard \in Nat
<1>1. \A S : Page!IsFiniteSet(S) = IsFiniteSet(S)
  BY DEF Page!IsFiniteSet, IsFiniteSet
<1>2. QED
  BY <1>1, MarketsAssumption DEF Page!ListAssumption

-----------------------------------------------------------------------------
(* The page of all markets (MarketList). *)

Loads == [kind : {"initial", "refresh"}, at : {"sent", "read", "over"},
          got : SUBSET Markets, when : Nat]
Batches == UNION {[D -> Nat \union {-1}] : D \in SUBSET Markets}
Runs == [todo : Seq(Markets), batch : Batches, missed : SUBSET Markets]
Summaries == [data : Nat, fresh : BOOLEAN]

PageTypes ==
  /\ listed \subseteq Markets /\ heard \subseteq listed /\ list \subseteq Markets
  /\ stats \in [Markets -> Nat] /\ metric \in [Markets -> Nat]
  /\ cache \in [Markets -> Summaries]
  /\ loads \in Seq(Loads) /\ runs \in Seq(Runs)
  /\ top \in Nat /\ read \in Nat /\ calm \in BOOLEAN

\* What is shown is what was cached, no newer than what there is.
ShownOK(m) ==
  /\ metric[m] = cache[m].data /\ cache[m].data <= stats[m]
  /\ cache[m].fresh => cache[m].data > 0

\* The last run has or had every market of the list that shows nothing, and it
\* has fetched nothing older than what is shown.
LastRun == runs[Len(runs)]
RunCovers ==
  /\ \A m \in list : \/ metric[m] > 0 \/ m \in LastRun.missed
                     \/ m \in Page!Range(LastRun.todo) \/ m \in DOMAIN LastRun.batch
  /\ \A m \in DOMAIN LastRun.batch : LastRun.batch[m] > 0 =>
       LastRun.batch[m] >= cache[m].data /\ LastRun.batch[m] <= stats[m]

\* The last request.  An answer read no earlier than its own has every market
\* that was announced, and so has the list if it comes from such an answer.
Latest == loads[Len(loads)]
AnswersCover ==
  /\ Len(loads) > 0 /\ top <= read
  /\ \A n \in DOMAIN loads : loads[n].when <= read
  /\ Latest.at = "sent" => Latest.when = 0
  /\ calm /\ Latest.at # "sent" =>
       /\ \A n \in DOMAIN loads : loads[n].at = "read" /\ loads[n].when >= Latest.when
            => heard \subseteq loads[n].got
       /\ top >= Latest.when => heard \subseteq list
       /\ Latest.at = "over" => top >= Latest.when

PageInv ==
  /\ PageTypes /\ AnswersCover
  /\ \A m \in Markets : ShownOK(m)
  /\ IF runs = <<>> THEN list = {} ELSE RunCovers

LEMMA PageInitially == MarketsInit => PageInv
<1> SUFFICES ASSUME MarketsInit PROVE PageInv
  OBVIOUS
<1>1. /\ listed \subseteq Markets /\ stats = [m \in Markets |-> 1]
      /\ loads = <<Page!Load("initial")>> /\ list = {} /\ runs = <<>>
      /\ cache = [m \in Markets |-> [data |-> 0, fresh |-> FALSE]]
      /\ metric = [m \in Markets |-> 0]
      /\ heard = {} /\ top = 0 /\ calm = TRUE /\ read = 0
  BY DEF MarketsInit, Page!Init
<1> DEFINE l == Page!Load("initial")
<1>2. l \in Loads /\ l.at = "sent" /\ l.when = 0
  BY DEF Page!Load, Loads
<1> HIDE DEF l
<1>3. loads \in Seq(Loads) /\ Len(loads) = 1 /\ loads[1] = l /\ DOMAIN loads = {1}
  BY <1>1, <1>2 DEF l
<1>4. runs \in Seq(Runs)
  BY <1>1
<1>5. [data |-> 0, fresh |-> FALSE] \in Summaries
  BY DEF Summaries
<1>6. PageTypes
  BY <1>1, <1>3, <1>4, <1>5 DEF PageTypes
<1>7. AnswersCover
  BY <1>1, <1>2, <1>3 DEF AnswersCover, Latest
<1>8. \A m \in Markets : ShownOK(m)
  BY <1>1 DEF ShownOK
<1>9. QED
  BY <1>1, <1>6, <1>7, <1>8 DEF PageInv

LEMMA PageRests ==
  ASSUME PageInv,
         UNCHANGED <<listed, stats, loads, list, cache, metric, runs, heard, top, calm, read>>
  PROVE  PageInv'
BY DEF PageInv, PageTypes, AnswersCover, Latest, ShownOK, RunCovers, LastRun

LEMMA PageFacts ==
  ASSUME PageTypes
  PROVE  /\ Len(loads) \in Nat /\ DOMAIN loads = 1..Len(loads)
         /\ \A n \in 1..Len(loads) : loads[n] \in Loads
         /\ Len(runs) \in Nat /\ DOMAIN runs = 1..Len(runs)
         /\ \A r \in 1..Len(runs) : runs[r] \in Runs
         /\ runs # <<>> => Len(runs) \in 1..Len(runs)
         /\ \A m \in Markets : stats[m] \in Nat /\ metric[m] \in Nat /\ cache[m] \in Summaries
         /\ \A m \in Markets : cache[m].data \in Nat
<1>1. \A s \in Summaries : s.data \in Nat
  BY DEF Summaries
<1>2. loads \in Seq(Loads) /\ runs \in Seq(Runs)
  BY DEF PageTypes
<1>3. runs # <<>> => Len(runs) # 0
  BY <1>2
<1>4. QED
  BY <1>1, <1>2, <1>3, LenProperties, ElementOfSeq DEF PageTypes

-----------------------------------------------------------------------------
(* The list. *)

\* One request is replaced, what the page shows is not.
LEMMA LoadChanges ==
  ASSUME PageTypes, NEW n \in DOMAIN loads, NEW l \in Loads, loads' = [loads EXCEPT ![n] = l]
  PROVE  /\ loads' \in Seq(Loads) /\ Len(loads') = Len(loads) /\ DOMAIN loads' = DOMAIN loads
         /\ \A k \in DOMAIN loads : loads'[k] = IF k = n THEN l ELSE loads[k]
         /\ Latest' = IF n = Len(loads) THEN l ELSE Latest
<1>1. loads \in Seq(Loads)
  BY DEF PageTypes
<1>2. /\ loads' \in Seq(Loads) /\ Len(loads') = Len(loads) /\ DOMAIN loads' = DOMAIN loads
      /\ \A k \in DOMAIN loads : loads'[k] = IF k = n THEN l ELSE loads[k]
  BY <1>1
<1>3. Len(loads) \in DOMAIN loads
  BY <1>1
<1>4. QED
  BY <1>2, <1>3 DEF Latest

LEMMA ReadRowsKeeps ==
  ASSUME PageInv, NEW n \in DOMAIN loads, Page!ReadRows(n)
  PROVE  PageInv'
<1>0. PageTypes /\ AnswersCover
  BY DEF PageInv
<1>1. /\ loads[n].at = "sent" /\ read' = read + 1
      /\ loads' = [loads EXCEPT ![n] = [@ EXCEPT !.at = "read", !.got = listed, !.when = read']]
      /\ UNCHANGED <<listed, stats, list, cache, metric, runs, heard, top, calm>>
  BY DEF Page!ReadRows, Page!shown
<1>2. loads[n] \in Loads /\ read \in Nat /\ listed \subseteq Markets /\ heard \subseteq listed
  BY <1>0, PageFacts DEF PageTypes
<1>3. PICK l \in Loads : /\ l = [loads[n] EXCEPT !.at = "read", !.got = listed, !.when = read']
                         /\ l.at = "read" /\ l.got = listed /\ l.when = read + 1
  <2> DEFINE l == [loads[n] EXCEPT !.at = "read", !.got = listed, !.when = read']
  <2>1. read + 1 \in Nat /\ read' = read + 1 /\ listed \in SUBSET Markets
    BY <1>1, <1>2
  <2>2. l \in Loads /\ l.at = "read" /\ l.got = listed /\ l.when = read + 1
    BY <1>2, <2>1 DEF Loads
  <2>3. QED
    BY <2>2
<1>4. loads' = [loads EXCEPT ![n] = l]
  BY <1>1, <1>3
<1>5. /\ loads' \in Seq(Loads) /\ Len(loads') = Len(loads) /\ DOMAIN loads' = DOMAIN loads
      /\ \A k \in DOMAIN loads : loads'[k] = IF k = n THEN l ELSE loads[k]
      /\ Latest' = IF n = Len(loads) THEN l ELSE Latest
  BY <1>0, <1>4, LoadChanges
<1>6. PageTypes'
  BY <1>0, <1>1, <1>2, <1>5 DEF PageTypes
<1>7. \A k \in DOMAIN loads : loads[k].when \in Nat /\ loads[k].when <= read
  BY <1>0, PageFacts DEF AnswersCover, Loads
<1>8. top \in Nat /\ top <= read
  BY <1>0 DEF PageTypes, AnswersCover
<1>9. AnswersCover'
  BY <1>0, <1>1, <1>2, <1>3, <1>5, <1>7, <1>8 DEF AnswersCover
<1>10. QED
  BY <1>1, <1>6, <1>9 DEF PageInv, ShownOK, RunCovers, LastRun

\* Every market of a new list shows what the cache has, or is to be fetched.
LEMMA EffectCovers ==
  ASSUME PageInv, NEW l \in SUBSET Markets, Page!Effect(l), UNCHANGED stats
  PROVE  /\ list' = l /\ UNCHANGED cache
         /\ metric' = metric /\ runs' \in Seq(Runs)
         /\ \A m \in Markets : ShownOK(m)'
         /\ runs' # <<>> /\ RunCovers'
<1>0. PageTypes /\ \A m \in Markets : ShownOK(m)
  BY DEF PageInv
<1> DEFINE todo == {m \in l : ~cache[m].fresh}
           s == Page!NewestFirst(todo)
           R == [todo |-> s, batch |-> <<>>, missed |-> {}]
<1>1. /\ list' = l /\ UNCHANGED cache /\ runs' = Append(runs, R)
      /\ metric' = [m \in Markets |-> IF m \in l /\ cache[m].data # 0 THEN cache[m].data
                                      ELSE metric[m]]
  BY DEF Page!Effect
<1>2. metric' = metric
  BY <1>0, <1>1 DEF PageTypes, ShownOK
<1>3. s \in Seq(todo) /\ Page!Range(s) = todo
  BY PageConstants, NewestFirstIs
<1>4. s \in Seq(Markets)
  BY <1>3
<1>5. <<>> \in Batches /\ DOMAIN <<>> = {}
  <2>1. <<>> \in [{} -> Nat \union {-1}] /\ {} \in SUBSET Markets
    OBVIOUS
  <2>2. QED
    BY <2>1 DEF Batches
<1>6. R \in Runs /\ R.todo = s /\ R.batch = <<>> /\ R.missed = {}
  BY <1>4, <1>5 DEF Runs
<1> HIDE DEF R, s
<1>7. runs' \in Seq(Runs) /\ runs' # <<>> /\ runs'[Len(runs')] = R
  BY <1>0, <1>1, <1>6, AppendProperties DEF PageTypes
<1>8. \A m \in Markets : ShownOK(m)'
  BY <1>0, <1>1, <1>2 DEF ShownOK
<1>9. \A m \in l : metric'[m] > 0 \/ m \in todo
  BY <1>0, <1>2 DEF ShownOK
<1>10. RunCovers'
  <2>1. LastRun' = R
    BY <1>7 DEF LastRun
  <2>2. QED
    BY <1>1, <1>3, <1>5, <1>6, <1>9, <2>1 DEF RunCovers
<1>11. QED
  BY <1>1, <1>2, <1>7, <1>8, <1>10

\* A request comes to its end, with its answer or without.
LEMMA LoadEnds ==
  ASSUME PageTypes, NEW n \in DOMAIN loads, loads' = [loads EXCEPT ![n].at = "over"]
  PROVE  /\ loads' \in Seq(Loads) /\ Len(loads') = Len(loads) /\ DOMAIN loads' = DOMAIN loads
         /\ \A k \in DOMAIN loads : /\ loads'[k].when = loads[k].when
                                    /\ loads'[k].got = loads[k].got
                                    /\ loads'[k].at = IF k = n THEN "over" ELSE loads[k].at
         /\ Latest'.when = Latest.when
         /\ Latest'.at = IF n = Len(loads) THEN "over" ELSE Latest.at
<1>1. PICK l \in Loads : l = [loads[n] EXCEPT !.at = "over"] /\ l.at = "over"
                         /\ l.when = loads[n].when /\ l.got = loads[n].got
  <2> DEFINE l == [loads[n] EXCEPT !.at = "over"]
  <2>1. loads[n] \in Loads
    BY PageFacts
  <2>2. l \in Loads /\ l.at = "over" /\ l.when = loads[n].when /\ l.got = loads[n].got
    BY <2>1 DEF Loads
  <2>3. QED
    BY <2>2
<1>2. loads' = [loads EXCEPT ![n] = l]
  BY <1>1
<1>3. /\ loads' \in Seq(Loads) /\ Len(loads') = Len(loads) /\ DOMAIN loads' = DOMAIN loads
      /\ \A k \in DOMAIN loads : loads'[k] = IF k = n THEN l ELSE loads[k]
      /\ Latest' = IF n = Len(loads) THEN l ELSE Latest
  BY <1>2, LoadChanges
<1>4. QED
  BY <1>1, <1>3 DEF Latest

LEMMA TakeListKeeps ==
  ASSUME PageInv, NEW n \in DOMAIN loads, Page!TakeList(n)
  PROVE  PageInv'
<1>0. PageTypes /\ AnswersCover
  BY DEF PageInv
<1>1. /\ loads[n].at = "read" /\ loads' = [loads EXCEPT ![n].at = "over"]
      /\ Page!Effect(loads[n].got) /\ top' = loads[n].when
      /\ calm' = (calm /\ loads[n].when > top)
      /\ UNCHANGED <<listed, stats, heard, read>>
  BY DEF Page!TakeList
<1>2. loads[n].got \in SUBSET Markets /\ loads[n].when \in Nat
  BY <1>0, PageFacts DEF Loads
<1>3. /\ list' = loads[n].got /\ UNCHANGED cache /\ metric' = metric /\ runs' \in Seq(Runs)
      /\ \A m \in Markets : ShownOK(m)'
      /\ runs' # <<>> /\ RunCovers'
  BY <1>1, <1>2, EffectCovers
<1>4. /\ loads' \in Seq(Loads) /\ Len(loads') = Len(loads) /\ DOMAIN loads' = DOMAIN loads
      /\ \A k \in DOMAIN loads : /\ loads'[k].when = loads[k].when
                                 /\ loads'[k].got = loads[k].got
                                 /\ loads'[k].at = IF k = n THEN "over" ELSE loads[k].at
      /\ Latest'.when = Latest.when
      /\ Latest'.at = IF n = Len(loads) THEN "over" ELSE Latest.at
  BY <1>0, <1>1, LoadEnds
<1>5. PageTypes'
  BY <1>0, <1>1, <1>2, <1>3, <1>4 DEF PageTypes
<1>6. /\ Latest.when \in Nat /\ top \in Nat /\ loads[n].when <= read
      /\ n = Len(loads) => Latest = loads[n]
  BY <1>0, PageFacts DEF PageTypes, AnswersCover, Loads, Latest
<1>7. AnswersCover'
  <2>1. Len(loads') > 0 /\ top' <= read'
    BY <1>0, <1>1, <1>4, <1>6 DEF AnswersCover
  <2>2. /\ \A k \in DOMAIN loads' : loads'[k].when <= read'
        /\ Latest'.at = "sent" => Latest'.when = 0
    BY <1>0, <1>1, <1>4 DEF AnswersCover
  <2>3. ASSUME calm', Latest'.at # "sent"
        PROVE  /\ \A k \in DOMAIN loads' : loads'[k].at = "read" /\ loads'[k].when >= Latest'.when
                    => heard' \subseteq loads'[k].got
               /\ top' >= Latest'.when => heard' \subseteq list'
               /\ Latest'.at = "over" => top' >= Latest'.when
    <3>1. calm /\ loads[n].when > top /\ Latest.at # "sent"
      BY <1>1, <1>4, <1>6, <2>3
    <3>2. /\ \A k \in DOMAIN loads : loads[k].at = "read" /\ loads[k].when >= Latest.when
               => heard \subseteq loads[k].got
          /\ Latest.at = "over" => top >= Latest.when
      BY <1>0, <3>1 DEF AnswersCover
    <3>3. ASSUME NEW k \in DOMAIN loads', loads'[k].at = "read", loads'[k].when >= Latest'.when
          PROVE  heard' \subseteq loads'[k].got
      BY <1>1, <1>4, <3>2, <3>3
    <3>4. top' >= Latest'.when => heard' \subseteq list'
      BY <1>1, <1>3, <1>4, <3>2
    <3>5. Latest'.at = "over" => top' >= Latest'.when
      BY <1>1, <1>2, <1>4, <1>6, <3>1, <3>2
    <3>6. QED
      BY <3>3, <3>4, <3>5
  <2>4. QED
    BY <2>1, <2>2, <2>3 DEF AnswersCover
<1>8. QED
  BY <1>3, <1>5, <1>7 DEF PageInv

LEMMA LoadFailsKeeps ==
  ASSUME PageInv, NEW n \in DOMAIN loads, Page!LoadFails(n)
  PROVE  PageInv'
<1>0. PageTypes /\ AnswersCover
  BY DEF PageInv
<1>1. /\ loads[n].at \in {"sent", "read"} /\ loads' = [loads EXCEPT ![n].at = "over"]
      /\ calm' = FALSE /\ UNCHANGED <<listed, stats, heard, top, read>>
      /\ \/ Page!Effect({})
         \/ UNCHANGED <<list, cache, metric, runs>>
  BY DEF Page!LoadFails, Page!shown
<1>2. /\ loads' \in Seq(Loads) /\ Len(loads') = Len(loads) /\ DOMAIN loads' = DOMAIN loads
      /\ \A k \in DOMAIN loads : /\ loads'[k].when = loads[k].when
                                 /\ loads'[k].got = loads[k].got
                                 /\ loads'[k].at = IF k = n THEN "over" ELSE loads[k].at
      /\ Latest'.when = Latest.when
      /\ Latest'.at = IF n = Len(loads) THEN "over" ELSE Latest.at
  BY <1>0, <1>1, LoadEnds
<1>3. AnswersCover'
  BY <1>0, <1>1, <1>2 DEF AnswersCover
<1>4. CASE Page!Effect({})
  <2>1. /\ list' = {} /\ UNCHANGED cache /\ metric' = metric /\ runs' \in Seq(Runs)
        /\ \A m \in Markets : ShownOK(m)'
        /\ runs' # <<>> /\ RunCovers'
    BY <1>1, <1>4, EffectCovers
  <2>2. PageTypes'
    BY <1>0, <1>1, <1>2, <2>1 DEF PageTypes
  <2>3. QED
    BY <1>3, <2>1, <2>2 DEF PageInv
<1>5. CASE UNCHANGED <<list, cache, metric, runs>>
  <2>1. PageTypes'
    BY <1>0, <1>1, <1>2, <1>5 DEF PageTypes
  <2>2. QED
    BY <1>1, <1>3, <1>5, <2>1 DEF PageInv, ShownOK, RunCovers, LastRun
<1>6. QED
  BY <1>1, <1>4, <1>5

LEMMA AnnouncedKeeps ==
  ASSUME PageInv, Page!MarketCreated
  PROVE  PageInv'
<1>0. PageTypes /\ AnswersCover
  BY DEF PageInv
<1> DEFINE l == Page!Load("refresh")
<1>1. /\ loads' = Append(loads, l) /\ heard' = listed
      /\ UNCHANGED <<listed, stats, list, cache, metric, runs, top, calm, read>>
  BY DEF Page!MarketCreated, Page!shown
<1>2. l \in Loads /\ l.at = "sent" /\ l.when = 0
  BY DEF Page!Load, Loads
<1> HIDE DEF l
<1>3. /\ loads' \in Seq(Loads) /\ Len(loads') = Len(loads) + 1 /\ Latest' = l
      /\ \A k \in DOMAIN loads' : loads'[k] = l \/ (k \in DOMAIN loads /\ loads'[k] = loads[k])
  BY <1>0, <1>1, <1>2 DEF PageTypes, Latest
<1>4. PageTypes'
  BY <1>0, <1>1, <1>3 DEF PageTypes
<1>5. AnswersCover'
  BY <1>0, <1>1, <1>2, <1>3, PageFacts DEF AnswersCover, PageTypes
<1>6. QED
  BY <1>1, <1>4, <1>5 DEF PageInv, ShownOK, RunCovers, LastRun

-----------------------------------------------------------------------------
(* The summaries. *)

LEMMA RunChanges ==
  ASSUME PageTypes, NEW r \in DOMAIN runs, NEW R \in Runs, runs' = [runs EXCEPT ![r] = R]
  PROVE  /\ runs' \in Seq(Runs) /\ runs # <<>> /\ runs' # <<>>
         /\ LastRun' = IF r = Len(runs) THEN R ELSE LastRun
<1>1. runs \in Seq(Runs) /\ r \in 1..Len(runs) /\ Len(runs) \in Nat
  BY PageFacts DEF PageTypes
<1>2. runs' \in Seq(Runs) /\ Len(runs') = Len(runs)
  BY <1>1
<1>3. Len(runs) \in 1..Len(runs)
  BY <1>1
<1>4. QED
  BY <1>1, <1>2, <1>3 DEF LastRun

LEMMA NextBatchKeeps ==
  ASSUME PageInv, NEW r \in DOMAIN runs, Page!NextBatch(r)
  PROVE  PageInv'
<1>0. PageTypes /\ CONCURRENCY \in Nat \ {0}
  BY PageConstants DEF PageInv
<1> DEFINE todo == runs[r].todo
           size == IF Len(todo) < CONCURRENCY THEN Len(todo) ELSE CONCURRENCY
           first == SubSeq(todo, 1, size)
           rest == SubSeq(todo, size + 1, Len(todo))
           batch == [m \in Page!Range(first) |-> -1]
           R == [runs[r] EXCEPT !.todo = rest, !.batch = batch]
<1>1. /\ r = Len(runs) /\ runs[r].batch = <<>> /\ todo # <<>>
      /\ runs' = [runs EXCEPT ![r] = R]
      /\ UNCHANGED <<listed, stats, loads, list, cache, metric, heard, top, calm, read>>
  BY DEF Page!NextBatch, Page!Current
<1>2. runs[r] \in Runs /\ todo \in Seq(Markets)
  BY <1>0, PageFacts DEF Runs
<1> HIDE DEF todo
<1>3. size \in Nat /\ size <= Len(todo) /\ Len(todo) \in Nat
  BY <1>0, <1>2
<1> HIDE DEF size
<1>4. /\ first \in Seq(Markets) /\ Len(first) = size /\ \A i \in 1..size : first[i] = todo[i]
      /\ rest \in Seq(Markets) /\ Len(rest) = Len(todo) - size
      /\ \A i \in 1..Len(rest) : rest[i] = todo[size + i]
  BY <1>2, <1>3
<1> HIDE DEF first, rest
<1>5. Page!Range(first) \subseteq Markets
      /\ \A m \in Page!Range(todo) : m \in Page!Range(first) \/ m \in Page!Range(rest)
  <2>1. DOMAIN todo = 1..Len(todo) /\ DOMAIN first = 1..size /\ DOMAIN rest = 1..Len(rest)
    BY <1>2, <1>3, <1>4
  <2>2. \A i \in 1..size : first[i] \in Markets
    BY <1>4
  <2>3. ASSUME NEW i \in 1..Len(todo)
        PROVE  todo[i] \in Page!Range(first) \/ todo[i] \in Page!Range(rest)
    <3>1. CASE i <= size
      BY <1>3, <1>4, <2>1, <3>1 DEF Page!Range
    <3>2. CASE i > size
      <4>1. i - size \in 1..Len(rest) /\ rest[i - size] = todo[i]
        BY <1>3, <1>4, <3>2
      <4>2. QED
        BY <2>1, <4>1 DEF Page!Range
    <3>3. QED
      BY <1>3, <3>1, <3>2
  <2>4. QED
    BY <2>1, <2>2, <2>3 DEF Page!Range
<1>6. batch \in Batches /\ DOMAIN batch = Page!Range(first) /\ \A m \in DOMAIN batch : batch[m] = -1
  <2>1. batch \in [Page!Range(first) -> Nat \union {-1}] /\ Page!Range(first) \in SUBSET Markets
    BY <1>5
  <2>2. QED
    BY <2>1 DEF Batches
<1> HIDE DEF batch
<1>7. R \in Runs /\ R.todo = rest /\ R.batch = batch /\ R.missed = runs[r].missed
  BY <1>2, <1>4, <1>6 DEF Runs
<1> HIDE DEF R
<1>8. /\ runs' \in Seq(Runs) /\ runs # <<>> /\ runs' # <<>>
      /\ LastRun' = IF r = Len(runs) THEN R ELSE LastRun
  BY <1>0, <1>1, <1>7, RunChanges
<1>9. LastRun = runs[r] /\ LastRun' = R /\ DOMAIN runs[r].batch = {} /\ RunCovers
  BY <1>1, <1>8 DEF LastRun, PageInv
<1>10. RunCovers'
  <2>1. \A m \in list : \/ metric[m] > 0 \/ m \in R.missed
                        \/ m \in Page!Range(R.todo) \/ m \in DOMAIN R.batch
    BY <1>5, <1>6, <1>7, <1>9 DEF RunCovers, todo
  <2>2. \A m \in DOMAIN R.batch : ~(R.batch[m] > 0)
    BY <1>6, <1>7
  <2>3. QED
    BY <1>1, <1>9, <2>1, <2>2 DEF RunCovers
<1>11. PageTypes'
  BY <1>0, <1>1, <1>8 DEF PageTypes
<1>12. QED
  BY <1>1, <1>8, <1>10, <1>11 DEF PageInv, AnswersCover, Latest, ShownOK

LEMMA ReadSummaryKeeps ==
  ASSUME PageInv, NEW r \in DOMAIN runs, NEW m \in Markets, Page!ReadSummary(r, m)
  PROVE  PageInv'
<1>0. PageTypes /\ ShownOK(m) /\ stats[m] \in Nat /\ cache[m].data \in Nat
  BY PageFacts DEF PageInv
<1>1. /\ m \in DOMAIN runs[r].batch
      /\ UNCHANGED <<listed, stats, loads, list, cache, metric, heard, top, calm, read>>
  BY DEF Page!ReadSummary
<1>2. PICK v \in {0, stats[m]} : runs' = [runs EXCEPT ![r].batch[m] = v]
  BY DEF Page!ReadSummary, Page!ResolveMarket
<1>3. runs[r] \in Runs /\ runs[r].batch \in Batches
  BY <1>0, PageFacts DEF Runs
<1> DEFINE batch == [runs[r].batch EXCEPT ![m] = v]
           R == [runs[r] EXCEPT !.batch = batch]
<1>4. /\ batch \in Batches /\ DOMAIN batch = DOMAIN runs[r].batch
      /\ \A k \in DOMAIN batch : batch[k] = IF k = m THEN v ELSE runs[r].batch[k]
  <2>1. PICK D \in SUBSET Markets : runs[r].batch \in [D -> Nat \union {-1}]
    BY <1>3 DEF Batches
  <2>2. v \in Nat
    BY <1>0, <1>2
  <2>3. batch \in [D -> Nat \union {-1}]
    BY <2>1, <2>2
  <2>4. QED
    BY <1>1, <2>1, <2>3 DEF Batches
<1> HIDE DEF batch
<1>5. R \in Runs /\ R.todo = runs[r].todo /\ R.batch = batch /\ R.missed = runs[r].missed
  BY <1>3, <1>4 DEF Runs
<1>6. runs' = [runs EXCEPT ![r] = R]
  BY <1>0, <1>2, <1>3 DEF batch, Runs
<1> HIDE DEF R
<1>7. /\ runs' \in Seq(Runs) /\ runs # <<>> /\ runs' # <<>>
      /\ LastRun' = IF r = Len(runs) THEN R ELSE LastRun
  BY <1>0, <1>5, <1>6, RunChanges
<1>8. RunCovers
  BY <1>7 DEF PageInv
<1>9. RunCovers'
  <2>1. CASE r # Len(runs)
    BY <1>1, <1>7, <1>8, <2>1 DEF RunCovers
  <2>2. CASE r = Len(runs)
    <3>1. LastRun = runs[r] /\ LastRun' = R
      BY <1>7, <2>2 DEF LastRun
    <3>2. v > 0 => v >= cache[m].data /\ v <= stats[m]
      BY <1>0, <1>2 DEF ShownOK
    <3>3. QED
      BY <1>1, <1>4, <1>5, <1>8, <3>1, <3>2 DEF RunCovers
  <2>3. QED
    BY <2>1, <2>2
<1>10. PageTypes'
  BY <1>0, <1>1, <1>7 DEF PageTypes
<1>11. QED
  BY <1>1, <1>7, <1>9, <1>10 DEF PageInv, AnswersCover, Latest, ShownOK

\* The batch of a run is over: it is shown unless the run was cancelled.
LEMMA SettleKeeps ==
  ASSUME PageInv, NEW r \in DOMAIN runs, Page!Settle(r)
  PROVE  PageInv' /\ \A m \in Markets : metric'[m] >= metric[m]
<1>0. PageTypes /\ \A m \in Markets : ShownOK(m)
  BY DEF PageInv
<1> DEFINE batch == runs[r].batch
           came == {m \in DOMAIN batch : batch[m] > 0}
           R == [runs[r] EXCEPT !.batch = <<>>,
                                !.missed = runs[r].missed \union (DOMAIN batch \ came)]
<1>a. runs' = [runs EXCEPT ![r] = R]
  BY DEF Page!Settle
<1>b. /\ IF r = Len(runs)
         THEN /\ cache' = [m \in Markets |-> IF m \in came THEN [data |-> batch[m], fresh |-> TRUE]
                                            ELSE cache[m]]
              /\ metric' = [m \in Markets |-> IF m \in came THEN batch[m] ELSE metric[m]]
         ELSE UNCHANGED <<cache, metric>>
      /\ UNCHANGED <<listed, stats, loads, list, heard, top, calm, read>>
  BY DEF Page!Settle, Page!Current
<1> HIDE DEF batch, came, R
<1>1. /\ runs' = [runs EXCEPT ![r] = R]
      /\ \/ /\ r = Len(runs)
            /\ cache' = [m \in Markets |-> IF m \in came THEN [data |-> batch[m], fresh |-> TRUE]
                                           ELSE cache[m]]
            /\ metric' = [m \in Markets |-> IF m \in came THEN batch[m] ELSE metric[m]]
         \/ r # Len(runs) /\ UNCHANGED <<cache, metric>>
      /\ UNCHANGED <<listed, stats, loads, list, heard, top, calm, read>>
  BY <1>b, <1>a
<1>2. PICK D \in SUBSET Markets : batch \in [D -> Nat \union {-1}] /\ runs[r] \in Runs
  <2>1. runs[r] \in Runs
    BY <1>0, PageFacts
  <2>2. batch \in Batches
    BY <2>1 DEF Runs, batch
  <2>3. QED
    BY <2>1, <2>2 DEF Batches
<1>3. DOMAIN batch = D /\ came \subseteq D /\ \A m \in came : batch[m] \in Nat /\ batch[m] > 0
  BY <1>2 DEF came
<1>4. <<>> \in Batches /\ DOMAIN <<>> = {}
  <2>1. <<>> \in [{} -> Nat \union {-1}] /\ {} \in SUBSET Markets
    OBVIOUS
  <2>2. QED
    BY <2>1 DEF Batches
<1>5. /\ R \in Runs /\ R.todo = runs[r].todo /\ R.batch = <<>>
      /\ R.missed = runs[r].missed \union (D \ came)
  <2>1. (D \ came) \subseteq Markets
    OBVIOUS
  <2>2. QED
    BY <1>2, <1>3, <1>4, <2>1 DEF Runs, R
<1>6. /\ runs' \in Seq(Runs) /\ runs # <<>> /\ runs' # <<>>
      /\ LastRun' = IF r = Len(runs) THEN R ELSE LastRun
  BY <1>0, <1>1, <1>5, RunChanges
<1>7. RunCovers
  BY <1>6 DEF PageInv
<1>8. CASE r # Len(runs)
  <2>1. UNCHANGED <<cache, metric>>
    BY <1>1, <1>8
  <2>2. PageTypes' /\ RunCovers'
    BY <1>0, <1>1, <1>6, <1>7, <1>8, <2>1 DEF PageTypes, RunCovers
  <2>3. \A m \in Markets : metric'[m] >= metric[m]
    BY <1>0, <2>1, PageFacts
  <2>4. QED
    BY <1>1, <1>6, <2>1, <2>2, <2>3 DEF PageInv, AnswersCover, Latest, ShownOK
<1>9. CASE r = Len(runs)
  <2>1. /\ cache' = [m \in Markets |-> IF m \in came THEN [data |-> batch[m], fresh |-> TRUE]
                                       ELSE cache[m]]
        /\ metric' = [m \in Markets |-> IF m \in came THEN batch[m] ELSE metric[m]]
    BY <1>1, <1>9
  <2>2. LastRun = runs[r] /\ LastRun' = R
    BY <1>6, <1>9 DEF LastRun
  <2>3. \A m \in came : batch[m] >= cache[m].data /\ batch[m] <= stats[m]
    BY <1>3, <1>7, <2>2 DEF RunCovers, batch
  <2>4. ASSUME NEW m \in Markets PROVE ShownOK(m)' /\ metric'[m] >= metric[m]
    <3>1. ShownOK(m) /\ metric[m] \in Nat /\ cache[m] \in Summaries
      BY <1>0, PageFacts
    <3>2. CASE m \in came
      <4>1. cache'[m] = [data |-> batch[m], fresh |-> TRUE] /\ metric'[m] = batch[m]
        BY <2>1, <3>2
      <4>2. QED
        BY <1>1, <1>3, <2>3, <3>1, <3>2, <4>1 DEF ShownOK
    <3>3. CASE m \notin came
      BY <1>1, <2>1, <3>1, <3>3 DEF ShownOK
    <3>4. QED
      BY <3>2, <3>3
  <2>5. cache' \in [Markets -> Summaries] /\ metric' \in [Markets -> Nat]
    <3>1. \A m \in came : [data |-> batch[m], fresh |-> TRUE] \in Summaries
      BY <1>3 DEF Summaries
    <3>2. QED
      BY <1>0, <1>3, <2>1, <3>1 DEF PageTypes
  <2>6. PageTypes'
    BY <1>0, <1>1, <1>6, <2>5 DEF PageTypes
  <2>7. RunCovers'
    <3>1. ASSUME NEW m \in list
          PROVE  metric'[m] > 0 \/ m \in R.missed \/ m \in Page!Range(R.todo)
      <4>1. m \in Markets /\ metric[m] \in Nat /\ metric'[m] \in Nat /\ metric'[m] >= metric[m]
        BY <1>0, <2>4, <2>5 DEF PageTypes
      <4>2. \/ metric[m] > 0 \/ m \in runs[r].missed \/ m \in Page!Range(runs[r].todo)
            \/ m \in D
        BY <1>3, <1>7, <2>2 DEF RunCovers, batch
      <4>3. m \in came => metric'[m] > 0
        BY <1>3, <2>1, <4>1
      <4>4. QED
        BY <1>5, <4>1, <4>2, <4>3
    <3>2. QED
      BY <1>1, <1>4, <1>5, <2>2, <3>1 DEF RunCovers
  <2>8. QED
    BY <1>1, <1>6, <2>4, <2>6, <2>7 DEF PageInv, AnswersCover, Latest
<1>10. QED
  BY <1>8, <1>9

-----------------------------------------------------------------------------
(* The world. *)

LEMMA PageWorldKeeps ==
  ASSUME PageInv, NEW m \in Markets, Page!Row(m) \/ Page!Traded(m) \/ Page!Aged
  PROVE  PageInv'
<1>0. PageTypes /\ AnswersCover
  BY DEF PageInv
<1>1. CASE Page!Row(m)
  <2>1. /\ listed' = (IF m \in listed THEN listed \ {m} ELSE listed \union {m})
        /\ heard' = heard \ {m}
        /\ UNCHANGED <<stats, loads, list, cache, metric, runs, top, calm, read>>
    BY <1>1 DEF Page!Row, Page!shown
  <2>2. PageTypes'
    BY <1>0, <2>1 DEF PageTypes
  <2>3. AnswersCover'
    BY <1>0, <2>1 DEF AnswersCover, Latest
  <2>4. QED
    BY <2>1, <2>2, <2>3 DEF PageInv, ShownOK, RunCovers, LastRun
<1>2. CASE Page!Traded(m)
  <2>1. /\ stats' = [stats EXCEPT ![m] = @ + 1]
        /\ UNCHANGED <<listed, loads, list, cache, metric, runs, heard, top, calm, read>>
    BY <1>2 DEF Page!Traded, Page!shown
  <2>2. \A k \in Markets : stats[k] \in Nat /\ stats'[k] \in Nat /\ stats'[k] >= stats[k]
    BY <1>0, <2>1 DEF PageTypes
  <2>3. PageTypes'
    BY <1>0, <2>1 DEF PageTypes
  <2>4. ASSUME NEW k \in Markets PROVE ShownOK(k)'
    BY <2>1, <2>2, PageFacts, <1>0 DEF PageInv, ShownOK
  <2>5. ASSUME runs # <<>> PROVE RunCovers'
    <3>1. PICK D \in SUBSET Markets : LastRun.batch \in [D -> Nat \union {-1}]
      BY <1>0, <2>5, PageFacts DEF LastRun, Runs, Batches
    <3>2. \A k \in D : k \in Markets /\ LastRun.batch[k] \in Int
      BY <3>1
    <3>3. RunCovers /\ DOMAIN LastRun.batch = D
      BY <2>5, <3>1 DEF PageInv
    <3>4. QED
      BY <2>1, <2>2, <3>2, <3>3 DEF RunCovers, LastRun
  <2>6. QED
    BY <2>1, <2>3, <2>4, <2>5 DEF PageInv, AnswersCover, Latest
<1>3. CASE Page!Aged
  <2>1. /\ cache' = [k \in Markets |-> [cache[k] EXCEPT !.fresh = FALSE]]
        /\ UNCHANGED <<listed, stats, loads, list, metric, runs, heard, top, calm, read>>
    BY <1>3 DEF Page!Aged
  <2>2. ASSUME NEW k \in Markets
        PROVE  cache'[k] \in Summaries /\ cache'[k].data = cache[k].data /\ ~cache'[k].fresh
    <3>1. cache[k] \in Summaries
      BY <1>0, PageFacts
    <3>2. QED
      BY <2>1, <3>1 DEF Summaries
  <2>3. PageTypes'
    BY <1>0, <2>1, <2>2 DEF PageTypes
  <2>4. \A k \in Markets : ShownOK(k)'
    BY <2>1, <2>2 DEF PageInv, ShownOK
  <2>5. ASSUME runs # <<>> PROVE RunCovers'
    <3>1. PICK D \in SUBSET Markets : LastRun.batch \in [D -> Nat \union {-1}]
      BY <1>0, <2>5, PageFacts DEF LastRun, Runs, Batches
    <3>2. DOMAIN LastRun.batch \subseteq Markets
      BY <3>1
    <3>3. QED
      BY <2>1, <2>2, <2>5, <3>2 DEF PageInv, RunCovers, LastRun
  <2>6. QED
    BY <2>1, <2>3, <2>4, <2>5 DEF PageInv, AnswersCover, Latest
<1>4. QED
  BY <1>1, <1>2, <1>3

\* A step of the page keeps the invariant, and shows nothing older.
LEMMA PageStep ==
  ASSUME PageInv, [MarketsNext]_markets
  PROVE  PageInv' /\ \A m \in Markets : metric'[m] >= metric[m]
<1>0. \A m \in Markets : metric[m] \in Nat
  BY PageFacts DEF PageInv
<1>1. CASE UNCHANGED listVars
  BY <1>0, <1>1, PageRests DEF listVars
<1>2. CASE Listing
  <2>1. \A n \in DOMAIN loads : \A l \in SUBSET Markets :
          PageInv /\ Page!Effect(l) /\ UNCHANGED stats => metric' = metric
    BY EffectCovers
  <2>2. ASSUME NEW n \in DOMAIN loads, Page!ReadRows(n) \/ Page!TakeList(n) \/ Page!LoadFails(n)
        PROVE  PageInv' /\ metric' = metric
    <3>1. loads[n].got \in SUBSET Markets
      BY PageFacts DEF PageInv, Loads
    <3>2. metric' = metric
      BY <2>1, <2>2, <3>1 DEF Page!ReadRows, Page!TakeList, Page!LoadFails, Page!shown
    <3>3. QED
      BY <2>2, <3>2, ReadRowsKeeps, TakeListKeeps, LoadFailsKeeps
  <2>3. CASE Page!MarketCreated
    BY <1>0, <2>3, AnnouncedKeeps DEF Page!MarketCreated, Page!shown
  <2>4. ASSUME NEW m \in Markets, Page!Row(m) \/ Page!Traded(m) \/ Page!Aged
        PROVE  PageInv' /\ metric' = metric
    BY <2>4, PageWorldKeeps DEF Page!Row, Page!Traded, Page!Aged, Page!shown
  <2>5. CASE Page!Aged
    BY <1>0, <2>4, <2>5 DEF Page!Aged
  <2>6. ASSUME NEW r \in DOMAIN runs, NEW m \in Markets, Page!ReadSummary(r, m)
        PROVE  PageInv' /\ metric' = metric
    BY <2>6, ReadSummaryKeeps DEF Page!ReadSummary
  <2>7. ASSUME NEW r \in DOMAIN runs, Page!NextBatch(r)
        PROVE  PageInv' /\ metric' = metric
    BY <2>7, NextBatchKeeps DEF Page!NextBatch
  <2>8. QED
    BY <1>0, <1>2, <2>2, <2>3, <2>4, <2>5, <2>6, <2>7, SettleKeeps DEF Listing, Page!Next
<1>3. QED
  BY <1>1, <1>2 DEF MarketsNext, Creation, Making, Form, HomePage, markets

LEMMA PageIsTrue ==
  ASSUME PageInv
  PROVE  Page!NewestListed /\ Page!SummariesShown
<1>1. PageTypes /\ AnswersCover
  BY DEF PageInv
<1>2. ASSUME Page!Loaded, calm PROVE heard \subseteq list
  <2>1. Len(loads) \in DOMAIN loads
    BY <1>1, PageFacts DEF AnswersCover
  <2>2. Latest.at = "over"
    BY <1>2, <2>1 DEF Page!Loaded, Latest
  <2>3. QED
    BY <1>1, <1>2, <2>2 DEF AnswersCover
<1>3. ASSUME Page!RunOver, NEW m \in list
      PROVE  metric[m] > 0 \/ m \in runs[Len(runs)].missed
  <2>1. /\ runs # <<>> /\ LastRun.todo = <<>> /\ LastRun.batch = <<>>
    BY <1>3 DEF Page!RunOver, LastRun
  <2>2. Page!Range(LastRun.todo) = {} /\ DOMAIN LastRun.batch = {}
    BY <2>1 DEF Page!Range
  <2>3. QED
    BY <2>1, <2>2 DEF PageInv, RunCovers, LastRun
<1>4. QED
  BY <1>2, <1>3 DEF Page!NewestListed, Page!SummariesShown

\* For any number of markets, announcements and failures, and any size of a
\* batch: a page at rest lists what was announced, a run that is over leaves a
\* summary of every market it could fetch, and none is replaced by an older one.
THEOREM ListStaysTrue == MarketsSpec => Page!ListTrue
<1>1. MarketsSpec => []PageInv
  BY PageInitially, PageStep, PTL DEF MarketsSpec
<1>2. PageInv => Page!NewestListed /\ Page!SummariesShown
  BY PageIsTrue
<1>3. PageInv /\ [MarketsNext]_markets => [\A m \in Markets : metric'[m] >= metric[m]]_(Page!vars)
  BY PageStep
<1>4. MarketsSpec => [][\A m \in Markets : metric'[m] >= metric[m]]_(Page!vars)
  BY <1>1, <1>3, PTL DEF MarketsSpec
<1>5. QED
  BY <1>1, <1>2, <1>4, PTL DEF Page!ListTrue, Page!SummaryNotOlder

-----------------------------------------------------------------------------
(* The card of the home page (HomeCard). *)

Points == [of : Nat, price : Nat]
Asks == [kind : {"series", "spot"}, of : Markets, visit : Nat, base : Nat, read : Nat \union {-1}]

\* A point shown or kept is its market's, and no older than any that was shown.
PointOK(m, p) ==
  p # Home!NoPoint => p.of = m /\ (m \notin crossed => p.price >= known[m])

\* A call brings no price from before it was sent.  A series is asked for while
\* nothing of its market was shown.
AskOK(a) ==
  /\ a.base <= known[a.of] /\ a.read <= traded[a.of]
  /\ a.of \notin crossed =>
       /\ a.kind = "series" => a.base = 0
       /\ a.read = -1 \/ a.read >= a.base

CardTypes ==
  /\ traded \in [Markets -> Nat] /\ recorded \in [Markets -> Nat \union {-1}]
  /\ known \in [Markets -> Nat] /\ card \in [Markets -> Points] /\ kept \in [Markets -> Points]
  /\ visit \in Nat /\ deck \in Seq(Markets) /\ turned \in Nat \ {0}

CardOK(m) ==
  /\ PointOK(m, card[m]) /\ PointOK(m, kept[m])
  /\ known[m] <= traded[m] /\ recorded[m] <= traded[m]
  /\ m \notin crossed /\ known[m] > 0 => kept[m] # Home!NoPoint

CardInv ==
  /\ CardTypes /\ DOMAIN asks \subseteq Asks /\ (deck = <<>> => DOMAIN asks = {})
  /\ \A m \in Markets : CardOK(m)
  /\ \A a \in DOMAIN asks : AskOK(a)

LEMMA CardInitially == MarketsInit => CardInv
<1> SUFFICES ASSUME MarketsInit PROVE CardInv
  OBVIOUS
<1>1. /\ traded = [m \in Markets |-> 0]
      /\ recorded \in {[m \in Markets |-> r] : r \in {-1, 0}}
      /\ visit = 1 /\ deck = <<>> /\ turned = 1
      /\ card = [m \in Markets |-> Home!NoPoint]
      /\ kept = [m \in Markets |-> Home!NoPoint]
      /\ asks = Home!EmptyBag /\ crossed = {}
      /\ known = [m \in Markets |-> 0]
  BY DEF MarketsInit, Home!Init
<1>2. Home!NoPoint \in Points
  BY DEF Home!NoPoint, Points
<1>3. recorded \in [Markets -> Nat \union {-1}] /\ \A m \in Markets : recorded[m] <= 0
  BY <1>1
<1>4. DOMAIN asks = {}
  BY <1>1 DEF Home!EmptyBag, Home!SetToBag
<1>5. CardTypes
  BY <1>1, <1>2, <1>3 DEF CardTypes
<1>6. QED
  BY <1>1, <1>3, <1>4, <1>5 DEF CardInv, CardOK, PointOK

LEMMA CardRests ==
  ASSUME CardInv, UNCHANGED cardVars
  PROVE  CardInv'
BY DEF cardVars, CardInv, CardTypes, CardOK, PointOK, AskOK

-----------------------------------------------------------------------------
(* Bags of calls. *)

LEMMA BagFacts ==
  /\ \A B, C : DOMAIN Home!(+)(B, C) = DOMAIN B \union DOMAIN C
  /\ \A B, C : DOMAIN Home!(-)(B, C) \subseteq DOMAIN B
  /\ \A S : DOMAIN Home!SetToBag(S) = S
BY DEF Home!(+), Home!(-), Home!SetToBag

LEMMA CardFacts ==
  ASSUME CardTypes
  PROVE  /\ \A m \in Markets : /\ traded[m] \in Nat /\ known[m] \in Nat
                               /\ recorded[m] \in Nat \union {-1}
                               /\ card[m] \in Points /\ kept[m] \in Points
         /\ Home!NoPoint \in Points
         /\ \A p \in Points : p.of \in Nat /\ p.price \in Nat
         /\ \A a \in Asks : /\ a.kind \in {"series", "spot"} /\ a.of \in Markets
                             /\ a.visit \in Nat /\ a.base \in Nat /\ a.read \in Nat \union {-1}
         /\ \A m \in Home!Range(deck) : m \in Markets
<1>1. Home!NoPoint \in Points
  BY DEF Home!NoPoint, Points
<1>2. \A p \in Points : p.of \in Nat /\ p.price \in Nat
  BY DEF Points
<1>3. \A a \in Asks : /\ a.kind \in {"series", "spot"} /\ a.of \in Markets
                      /\ a.visit \in Nat /\ a.base \in Nat /\ a.read \in Nat \union {-1}
  BY DEF Asks
<1>4. \A m \in Home!Range(deck) : m \in Markets
  BY DEF Home!Range, CardTypes
<1>5. QED
  BY <1>1, <1>2, <1>3, <1>4 DEF CardTypes

\* The market that is seen is one of the list.
LEMMA SeenIsListed ==
  ASSUME CardTypes, NEW l \in Seq(Markets), l # <<>>, NEW i \in Nat \ {0}
  PROVE  Home!Visible(l, i) \in Markets /\ l[1] \in Markets
<1>1. Len(l) \in Nat \ {0} /\ \A j \in 1..Len(l) : l[j] \in Markets
  BY EmptySeq, ElementOfSeq
<1>2. QED
  BY <1>1 DEF Home!Visible

\* What the effect asks for, and what was under way.
LEMMA EffectAsks ==
  ASSUME CardTypes, NEW m \in Markets, NEW v \in Nat, NEW points, NEW times, NEW others,
         Home!Effect(m, points, times, others, v)
  PROVE  \A a \in DOMAIN asks' :
           \/ a \in DOMAIN others
           \/ /\ a \in Asks /\ a.of = m /\ a.base = known[m] /\ a.read = -1
              /\ a.kind = "series" => points[m] = Home!NoPoint
<1> DEFINE series == {Home!Ask("series", m, v) : x \in {y \in {m} : Home!LoadSeries(y, points)}}
           spot == {Home!Ask("spot", m, v) : x \in {y \in {m} : Home!RefreshSpot(y, times)}}
<1>1. asks' = Home!(+)(others, Home!SetToBag(series \union spot))
  BY DEF Home!Effect
<1>2. DOMAIN asks' = DOMAIN others \union (series \union spot)
  <2> DEFINE new == series \union spot
  <2> HIDE DEF new
  <2>1. asks' = Home!(+)(others, Home!SetToBag(new))
    BY <1>1 DEF new
  <2>2. DOMAIN asks' = DOMAIN others \union new
    BY <2>1, BagFacts
  <2>3. QED
    BY <2>2 DEF new
<1>3. \A a \in series : a = Home!Ask("series", m, v) /\ points[m] = Home!NoPoint
  BY DEF Home!LoadSeries
<1>4. \A a \in spot : a = Home!Ask("spot", m, v)
  OBVIOUS
<1> HIDE DEF series, spot
<1>5. known[m] \in Nat
  BY CardFacts
<1>6. \A k \in {"series", "spot"} :
        LET a == Home!Ask(k, m, v) IN
        a \in Asks /\ a.of = m /\ a.base = known[m] /\ a.read = -1 /\ a.kind = k
  BY <1>5 DEF Home!Ask, Asks
<1>7. QED
  BY <1>2, <1>3, <1>4, <1>6

\* A call that was sent before or is sent now.
LEMMA AsksKeep ==
  ASSUME CardInv, CardTypes', \A m \in Markets : CardOK(m)', UNCHANGED traded,
         \A m \in Markets : known'[m] >= known[m], crossed \subseteq crossed',
         NEW m \in Markets, NEW v \in Nat, NEW times, NEW others,
         DOMAIN others \subseteq DOMAIN asks,
         Home!Effect(m, kept', times, others, v)
  PROVE  DOMAIN asks' \subseteq Asks /\ \A a \in DOMAIN asks' : AskOK(a)'
<1>0. CardTypes
  BY DEF CardInv
<1>1. ASSUME NEW a \in DOMAIN asks' PROVE a \in Asks /\ AskOK(a)'
  <2>1. CASE a \in DOMAIN others
    <3>1. a \in Asks /\ AskOK(a) /\ a.of \in Markets /\ a.base \in Nat
          /\ known[a.of] \in Nat /\ known'[a.of] \in Nat /\ known'[a.of] >= known[a.of]
      BY <1>0, <2>1, CardFacts DEF CardInv, CardTypes
    <3>2. QED
      BY <3>1 DEF AskOK
  <2>2. CASE a \in Asks /\ a.of = m /\ a.base = known[m] /\ a.read = -1
             /\ (a.kind = "series" => kept'[m] = Home!NoPoint)
    <3>1. known[m] \in Nat /\ known'[m] \in Nat /\ known'[m] >= known[m] /\ traded[m] \in Nat
      BY <1>0, CardFacts DEF CardTypes
    <3>2. a.kind = "series" /\ m \notin crossed' => known'[m] = 0
      BY <2>2, <3>1 DEF CardOK
    <3>3. QED
      BY <2>2, <3>1, <3>2 DEF AskOK
  <2>3. QED
    BY <1>0, <2>1, <2>2, EffectAsks
<1>2. QED
  BY <1>1

-----------------------------------------------------------------------------
(* The page. *)

\* What the cards show on a list, from the cache or from before.
LEMMA MappedKeeps ==
  ASSUME CardInv, NEW l, NEW prior, card' = Home!Mapped(l, prior),
         \A m \in Markets : prior[m] \in {Home!NoPoint, card[m]},
         UNCHANGED <<traded, recorded, kept, known, crossed>>
  PROVE  card' \in [Markets -> Points] /\ \A m \in Markets : CardOK(m)'
<1>0. CardTypes
  BY DEF CardInv
<1>1. ASSUME NEW m \in Markets PROVE card'[m] \in {Home!NoPoint, kept[m], card[m]}
  BY DEF Home!Mapped
<1>2. card' = [m \in Markets |-> card'[m]]
  BY DEF Home!Mapped
<1>3. \A m \in Markets : card'[m] \in Points
  BY <1>0, <1>1, CardFacts
<1>4. ASSUME NEW m \in Markets PROVE CardOK(m)'
  <2>1. CardOK(m)
    BY DEF CardInv
  <2>2. QED
    BY <1>1, <2>1 DEF CardOK, PointOK
<1>5. QED
  BY <1>2, <1>3, <1>4

LEMMA CardPageKeeps ==
  ASSUME CardInv,
         (\E l \in Home!Listings : Home!TakeList(l)) \/ Home!Turn \/ Home!Revisit
  PROVE  CardInv'
<1>0. CardTypes /\ \A m \in Markets : known[m] \in Nat
  BY CardFacts DEF CardInv
<1>1. ASSUME NEW l \in Home!Listings, Home!TakeList(l) PROVE CardInv'
  <2>1. /\ deck' = l /\ card' = Home!Mapped(l, card)
        /\ Home!Effect(Home!Visible(l, turned), kept, fetched, asks, visit)
        /\ UNCHANGED <<traded, recorded, visit, turned, kept, known, crossed>>
    BY <1>1 DEF Home!TakeList, Home!world
  <2>2. l \in Seq(Markets) /\ l # <<>>
    <3>1. PICK S \in SUBSET Markets : S # {} /\ l = Home!NewestFirst(S)
      <4>1. \E S \in (SUBSET Markets) \ {{}} : l = Home!NewestFirst(S)
      BY DEF Home!Listings
    <4>2. QED
      BY <4>1
    <3>2. l \in Seq(S) /\ Home!Range(l) = S
      BY <3>1, PageConstants, NewestFirstIs
    <3>3. l # <<>>
      BY <3>1, <3>2 DEF Home!Range
    <3>4. QED
      BY <3>2, <3>3
  <2>3. card' \in [Markets -> Points] /\ \A m \in Markets : CardOK(m)'
    BY <2>1, MappedKeeps
  <2>4. CardTypes'
    BY <1>0, <2>1, <2>2, <2>3 DEF CardTypes
  <2>5. Home!Visible(l, turned) \in Markets /\ visit \in Nat
    BY <1>0, <2>2, SeenIsListed DEF CardTypes
  <2>6. DOMAIN asks' \subseteq Asks /\ \A a \in DOMAIN asks' : AskOK(a)'
    BY <1>0, <2>1, <2>3, <2>4, <2>5, AsksKeep
  <2>7. QED
    BY <2>1, <2>2, <2>3, <2>4, <2>6 DEF CardInv
<1>2. CASE Home!Turn
  <2>1. /\ Len(deck) > 1 /\ turned' = (IF turned >= Len(deck) THEN 1 ELSE turned + 1)
        /\ Home!Effect(Home!Visible(deck, turned'), kept, fetched, asks, visit)
        /\ UNCHANGED <<traded, recorded, visit, deck, card, kept, known, crossed>>
    BY <1>2 DEF Home!Turn, Home!world
  <2>2. deck # <<>> /\ turned' \in Nat \ {0}
    BY <1>0, <2>1 DEF CardTypes
  <2>3. CardTypes' /\ \A m \in Markets : CardOK(m)'
    BY <1>0, <2>1, <2>2 DEF CardTypes, CardInv, CardOK, PointOK
  <2>4. Home!Visible(deck, turned') \in Markets /\ visit \in Nat
    BY <1>0, <2>2, SeenIsListed DEF CardTypes
  <2>5. DOMAIN asks' \subseteq Asks /\ \A a \in DOMAIN asks' : AskOK(a)'
    BY <1>0, <2>1, <2>3, <2>4, AsksKeep
  <2>6. QED
    BY <2>1, <2>2, <2>3, <2>5 DEF CardInv
<1>3. CASE Home!Revisit
  <2>1. /\ deck # <<>> /\ visit' = visit + 1 /\ turned' = 1
        /\ card' = Home!Mapped(deck, [m \in Markets |-> Home!NoPoint])
        /\ Home!Effect(deck[1], kept, [m \in Markets |-> 0], asks, visit + 1)
        /\ UNCHANGED <<traded, recorded, deck, kept, known, crossed>>
    BY <1>3 DEF Home!Revisit, Home!world
  <2>2. card' \in [Markets -> Points] /\ \A m \in Markets : CardOK(m)'
    BY <2>1, MappedKeeps
  <2>3. CardTypes'
    <3>1. visit' \in Nat /\ turned' \in Nat \ {0}
      BY <1>0, <2>1 DEF CardTypes
    <3>2. QED
      BY <1>0, <2>1, <2>2, <3>1 DEF CardTypes
  <2>4. deck[1] \in Markets /\ visit + 1 \in Nat
    BY <1>0, <2>1, SeenIsListed DEF CardTypes
  <2>5. DOMAIN asks' \subseteq Asks /\ \A a \in DOMAIN asks' : AskOK(a)'
    <3>1. Home!Effect(deck[1], kept', [m \in Markets |-> 0], asks, visit + 1)
      BY <2>1
    <3>2. QED
      BY <1>0, <2>1, <2>2, <2>3, <2>4, <3>1, AsksKeep
  <2>6. QED
    BY <2>1, <2>2, <2>3, <2>5 DEF CardInv
<1>4. QED
  BY <1>1, <1>2, <1>3

\* A trade of the seen market asks for its price once more.
LEMMA TradeSeenKeeps ==
  ASSUME CardInv, NEW m \in Markets, Home!TradeSeen(m)
  PROVE  CardInv'
<1> DEFINE a == Home!Ask("spot", m, visit)
<1>1. /\ deck # <<>> /\ asks' = Home!(+)(asks, Home!SetToBag({a}))
      /\ UNCHANGED <<traded, recorded, visit, deck, turned, card, kept, known, crossed>>
  BY DEF Home!TradeSeen, Home!world, Home!page
<1>2. CardTypes /\ visit \in Nat /\ known[m] \in Nat /\ traded[m] \in Nat /\ CardOK(m)
  BY CardFacts DEF CardInv, CardTypes
<1>3. a \in Asks /\ a.kind = "spot" /\ a.of = m /\ a.base = known[m] /\ a.read = -1
  BY <1>2 DEF Home!Ask, Asks
<1> HIDE DEF a
<1>4. AskOK(a)
  BY <1>2, <1>3 DEF AskOK, CardOK
<1>5. DOMAIN asks' = DOMAIN asks \union {a}
  <2> DEFINE one == {a}
  <2> HIDE DEF one
  <2>1. asks' = Home!(+)(asks, Home!SetToBag(one))
    BY <1>1 DEF one
  <2>2. DOMAIN asks' = DOMAIN asks \union one
    BY <2>1, BagFacts
  <2>3. QED
    BY <2>2 DEF one
<1>6. DOMAIN asks' \subseteq Asks /\ \A c \in DOMAIN asks' : AskOK(c)
  BY <1>3, <1>4, <1>5 DEF CardInv
<1>7. QED
  BY <1>1, <1>6 DEF CardInv, CardTypes, CardOK, PointOK, AskOK

-----------------------------------------------------------------------------
(* The calls. *)

\* A call reads a price: the pool's, which is none older than any shown, or the
\* recorded one, while none was shown when it was sent.
LEMMA CardReadKeeps ==
  ASSUME CardInv, NEW a \in DOMAIN asks, Home!ReadBalances(a) \/ Home!ReadPoints(a)
  PROVE  CardInv'
<1>0. /\ CardTypes /\ a \in Asks /\ AskOK(a) /\ a.of \in Markets /\ CardOK(a.of)
      /\ a.base \in Nat /\ known[a.of] \in Nat /\ traded[a.of] \in Nat
      /\ recorded[a.of] \in Nat \union {-1}
  BY CardFacts DEF CardInv
<1>1. PICK p \in {traded[a.of], recorded[a.of]} :
        /\ Home!Read(a, p) /\ p >= 0
        /\ \/ p = traded[a.of]
           \/ a.kind = "series"
  BY <1>0 DEF Home!ReadBalances, Home!ReadPoints
<1> DEFINE b == [a EXCEPT !.read = p]
<1>2. /\ asks' = Home!(+)(Home!Without(a), Home!SetToBag({b}))
      /\ UNCHANGED <<traded, recorded, visit, deck, turned, card, kept, known, crossed>>
  BY <1>1 DEF Home!Read, Home!world, Home!page
<1>3. p \in Nat /\ p <= traded[a.of]
  BY <1>0, <1>1 DEF CardOK
<1>4. /\ b \in Asks /\ b.kind = a.kind /\ b.of = a.of /\ b.base = a.base /\ b.read = p
  BY <1>0, <1>3 DEF Asks
<1> HIDE DEF b
<1>5. AskOK(b)
  BY <1>0, <1>1, <1>3, <1>4 DEF AskOK, CardOK
<1>6. DOMAIN asks' \subseteq DOMAIN asks \union {b}
  <2>1. DOMAIN Home!Without(a) \subseteq DOMAIN asks
    BY BagFacts DEF Home!Without
  <2> DEFINE one == {b}
             rest == Home!Without(a)
  <2> HIDE DEF one, rest
  <2>2. asks' = Home!(+)(rest, Home!SetToBag(one))
    BY <1>2 DEF one, rest
  <2>3. DOMAIN asks' = DOMAIN rest \union one
    BY <2>2, BagFacts
  <2>4. QED
    BY <2>1, <2>3 DEF one, rest
<1>7. DOMAIN asks' \subseteq Asks /\ \A c \in DOMAIN asks' : AskOK(c)
  BY <1>4, <1>5, <1>6 DEF CardInv
<1>8. deck # <<>>
  BY DEF CardInv
<1>9. QED
  BY <1>2, <1>7, <1>8 DEF CardInv, CardTypes, CardOK, PointOK, AskOK

LEMMA NothingKeeps ==
  ASSUME CardInv, NEW a \in DOMAIN asks, Home!Nothing(a) \/ Home!Dropped(a)
  PROVE  CardInv'
<1>1. /\ asks' = Home!Without(a)
      /\ UNCHANGED <<traded, recorded, visit, deck, turned, card, kept, known, crossed>>
  BY DEF Home!Nothing, Home!Dropped, Home!world, Home!page
<1>2. DOMAIN asks' \subseteq DOMAIN asks
  BY <1>1, BagFacts DEF Home!Without
<1>3. QED
  BY <1>1, <1>2 DEF CardInv, CardTypes, CardOK, PointOK, AskOK

\* The answer of the call a is shown or kept: no newer one was, unless the
\* market is exempt from now on.
LEMMA LandKeeps ==
  ASSUME CardInv, NEW a \in DOMAIN asks, Home!Land(a)
  PROVE  CardInv'
<1> DEFINE m == a.of
           p == [of |-> m, price |-> a.read]
           cached == Home!Here(a) \/ a.kind = "series"
<1>1. /\ a.read >= 0
      /\ card' = (IF Home!Here(a) THEN [card EXCEPT ![m] = p] ELSE card)
      /\ kept' = (IF cached THEN [kept EXCEPT ![m] = p] ELSE kept)
      /\ \/ Home!Effect(Home!Visible(deck, turned), kept', fetched, Home!Without(a), visit)
         \/ asks' = Home!Without(a)
      /\ known' = [known EXCEPT ![m] = IF Home!Here(a) /\ a.read > @ THEN a.read ELSE @]
      /\ crossed' = (IF cached /\ Home!Overtaken(a) THEN crossed \union {m} ELSE crossed)
      /\ UNCHANGED <<traded, recorded, visit, deck, turned>>
  BY DEF Home!Land, Home!world, Home!page
<1>2. /\ CardTypes /\ a \in Asks /\ AskOK(a) /\ m \in Markets /\ CardOK(m)
      /\ a.base \in Nat /\ known[m] \in Nat /\ traded[m] \in Nat /\ a.read \in Nat
      /\ a.read <= traded[m] /\ deck # <<>>
  BY <1>1, CardFacts DEF CardInv, AskOK
<1>3. p \in Points /\ p.of = m /\ p.price = a.read
  BY <1>2, CardFacts, PageConstants DEF Points
<1> HIDE DEF p
<1>4. known' \in [Markets -> Nat] /\ \A k \in Markets : known'[k] >= known[k]
  <2>1. \A k \in Markets : known[k] \in Nat
    BY <1>2, CardFacts
  <2>2. QED
    BY <1>1, <1>2, <2>1 DEF CardTypes
<1>5. CardTypes'
  <2>1. card' \in [Markets -> Points] /\ kept' \in [Markets -> Points]
    BY <1>1, <1>2, <1>3 DEF CardTypes
  <2>2. QED
    BY <1>1, <1>2, <1>4, <2>1 DEF CardTypes
<1>6. m \notin crossed' /\ cached => a.read >= known[m]
  BY <1>1, <1>2 DEF AskOK, Home!Overtaken
<1>7. ASSUME NEW k \in Markets PROVE CardOK(k)'
  <2>1. CardOK(k) /\ known[k] \in Nat
    BY <1>2, CardFacts DEF CardInv
  <2>2. CASE k # m
    <3>1. card'[k] = card[k] /\ kept'[k] = kept[k] /\ known'[k] = known[k]
      BY <1>1, <1>2, <2>2 DEF CardTypes
    <3>2. QED
      BY <1>1, <2>1, <2>2, <3>1 DEF CardOK, PointOK
  <2>3. CASE k = m
    <3>1. known'[m] = IF Home!Here(a) /\ a.read > known[m] THEN a.read ELSE known[m]
      BY <1>1, <1>2 DEF CardTypes
    <3>2. /\ card'[m] = (IF Home!Here(a) THEN p ELSE card[m])
          /\ kept'[m] = (IF cached THEN p ELSE kept[m])
      BY <1>1, <1>2 DEF CardTypes
    <3>3. PointOK(m, p)' \/ ~cached
      BY <1>2, <1>3, <1>6, <3>1 DEF PointOK
    <3>4. known'[m] <= traded[m]
      BY <1>2, <3>1 DEF CardOK
    <3>5. QED
      BY <1>1, <1>2, <1>3, <1>6, <3>1, <3>2, <3>3, <3>4, <2>3 DEF CardOK, PointOK, Home!NoPoint
  <2>4. QED
    BY <2>2, <2>3
<1>8. DOMAIN Home!Without(a) \subseteq DOMAIN asks
  BY BagFacts DEF Home!Without
<1>9. DOMAIN asks' \subseteq Asks /\ \A c \in DOMAIN asks' : AskOK(c)'
  <2>1. CASE Home!Effect(Home!Visible(deck, turned), kept', fetched, Home!Without(a), visit)
    <3>1. Home!Visible(deck, turned) \in Markets /\ visit \in Nat
      BY <1>2, SeenIsListed DEF CardTypes
    <3>2. crossed \subseteq crossed'
      BY <1>1
    <3>3. QED
      BY <1>1, <1>4, <1>5, <1>7, <1>8, <2>1, <3>1, <3>2, AsksKeep
  <2>2. CASE asks' = Home!Without(a)
    <3>1. ASSUME NEW c \in DOMAIN asks' PROVE c \in Asks /\ AskOK(c)'
      <4>1. c \in Asks /\ AskOK(c) /\ c.of \in Markets /\ c.base \in Nat
            /\ known[c.of] \in Nat /\ known'[c.of] \in Nat /\ known'[c.of] >= known[c.of]
        BY <1>2, <1>4, <1>8, <2>2, CardFacts DEF CardInv
      <4>2. crossed \subseteq crossed'
        BY <1>1
      <4>3. QED
        BY <1>1, <4>1, <4>2 DEF AskOK
    <3>2. QED
      BY <3>1
  <2>3. QED
    BY <1>1, <2>1, <2>2
<1>10. QED
  BY <1>1, <1>2, <1>5, <1>7, <1>9 DEF CardInv

-----------------------------------------------------------------------------
(* The world. *)

LEMMA CardWorldKeeps ==
  ASSUME CardInv, NEW m \in Live, Home!Trade(m) \/ Home!Record(m) \/ Home!Tick
  PROVE  CardInv'
<1>0. /\ CardTypes /\ m \in Markets /\ CardOK(m)
      /\ known[m] \in Nat /\ traded[m] \in Nat
  BY CardFacts, MarketsAssumption DEF CardInv, Home!CardAssumption
<1>1. /\ UNCHANGED <<visit, deck, turned, card, kept, asks, known, crossed>>
      /\ \/ traded' = [traded EXCEPT ![m] = @ + 1] /\ UNCHANGED recorded
         \/ recorded' = [recorded EXCEPT ![m] = traded[m]] /\ UNCHANGED traded
         \/ UNCHANGED <<traded, recorded>>
  BY DEF Home!Trade, Home!Record, Home!Tick, Home!page
<1>2. traded' \in [Markets -> Nat] /\ recorded' \in [Markets -> Nat \union {-1}]
  <2>1. traded \in [Markets -> Nat] /\ recorded \in [Markets -> Nat \union {-1}]
    BY <1>0 DEF CardTypes
  <2>2. [traded EXCEPT ![m] = @ + 1] \in [Markets -> Nat]
    BY <1>0, <2>1
  <2>3. [recorded EXCEPT ![m] = traded[m]] \in [Markets -> Nat \union {-1}]
    BY <1>0, <2>1
  <2>4. QED
    BY <1>1, <2>1, <2>2, <2>3
<1>3. ASSUME NEW k \in Markets
      PROVE  /\ traded[k] \in Nat /\ traded'[k] >= traded[k]
             /\ recorded'[k] <= traded'[k] /\ known[k] <= traded'[k]
  <2>1. traded[k] \in Nat /\ known[k] \in Nat /\ recorded[k] \in Nat \union {-1} /\ CardOK(k)
    BY <1>0, CardFacts DEF CardInv
  <2>2. known[k] <= traded[k] /\ recorded[k] <= traded[k]
    BY <2>1 DEF CardOK
  <2>3. traded \in [Markets -> Nat] /\ recorded \in [Markets -> Nat \union {-1}]
    BY <1>0 DEF CardTypes
  <2>4. CASE traded' = [traded EXCEPT ![m] = @ + 1] /\ UNCHANGED recorded
    <3>1. traded'[k] \in {traded[k], traded[k] + 1} /\ recorded'[k] = recorded[k]
      BY <2>3, <2>4
    <3>2. QED
      BY <2>1, <2>2, <3>1
  <2>5. CASE recorded' = [recorded EXCEPT ![m] = traded[m]] /\ UNCHANGED traded
    <3>1. traded'[k] = traded[k] /\ recorded'[k] \in {recorded[k], traded[k]}
      BY <2>3, <2>5
    <3>2. QED
      BY <2>1, <2>2, <3>1
  <2>6. QED
    BY <1>1, <2>1, <2>2, <2>4, <2>5
<1>4. CardTypes'
  BY <1>0, <1>1, <1>2 DEF CardTypes
<1>5. \A k \in Markets : CardOK(k)'
  BY <1>1, <1>3 DEF CardInv, CardOK, PointOK
<1>6. ASSUME NEW a \in DOMAIN asks PROVE AskOK(a)'
  <2>1. a \in Asks /\ AskOK(a)
    BY DEF CardInv
  <2>2. a.of \in Markets /\ a.read \in Nat \union {-1}
    BY <1>0, <2>1, CardFacts
  <2>3. traded'[a.of] \in Nat /\ traded[a.of] \in Nat
    BY <1>2, <1>3, <2>2
  <2>4. QED
    BY <1>1, <1>3, <2>1, <2>2, <2>3 DEF AskOK
<1>7. QED
  BY <1>1, <1>4, <1>5, <1>6 DEF CardInv

LEMMA CardStep == CardInv /\ [MarketsNext]_markets => CardInv'
<1> SUFFICES ASSUME CardInv, [MarketsNext]_markets PROVE CardInv'
  OBVIOUS
<1>1. CASE UNCHANGED cardVars
  BY <1>1, CardRests
<1>2. CASE HomePage
  <2>1. CASE Home!Tick
    BY <2>1 DEF Home!Tick, Home!page, CardInv, CardTypes, CardOK, PointOK, AskOK
  <2>2. ASSUME NEW m \in Live, Home!Trade(m) \/ Home!Record(m) PROVE CardInv'
    BY <2>2, CardWorldKeeps
  <2>3. ASSUME NEW a \in DOMAIN asks,
               Home!ReadBalances(a) \/ Home!ReadPoints(a) \/ Home!Nothing(a)
               \/ Home!Dropped(a) \/ Home!Land(a)
        PROVE  CardInv'
    BY <2>3, CardReadKeeps, NothingKeeps, LandKeeps
  <2>4. ASSUME NEW m \in Live, Home!TradeSeen(m) PROVE CardInv'
    BY <2>4, TradeSeenKeeps, MarketsAssumption DEF Home!CardAssumption
  <2>5. QED
    BY <1>2, <2>1, <2>2, <2>3, <2>4, CardPageKeeps DEF HomePage, Home!Next
<1>3. QED
  BY <1>1, <1>2 DEF MarketsNext, Creation, Making, Form, Listing, markets

\* For any number of markets, trades, visits and calls under way: a card shows a
\* price of its own market, and no older one than it has shown, markets excepted
\* for which an answer came that a later call's answer had overtaken.
THEOREM CardStaysTrue == MarketsSpec => []Home!CardTrue
<1>1. MarketsSpec => []CardInv
  BY CardInitially, CardStep, PTL DEF MarketsSpec
<1>2. CardInv => Home!CardTrue
  BY DEF CardInv, CardOK, PointOK, Home!CardTrue
<1>3. QED
  BY <1>1, <1>2, PTL

-----------------------------------------------------------------------------
(* The factory of market makers (Factory).  First sequences put together:     *)
(* their elements, and that none comes twice.                                 *)

Elements(s) == {s[i] : i \in 1..Len(s)}
OnceEach(s) == \A i, j \in 1..Len(s) : s[i] = s[j] => i = j

LEMMA ConcatElements ==
  ASSUME NEW X, NEW s \in Seq(X), NEW t \in Seq(X)
  PROVE  /\ s \o t \in Seq(X) /\ Elements(s \o t) = Elements(s) \union Elements(t)
         /\ OnceEach(s) /\ OnceEach(t) /\ Elements(s) \intersect Elements(t) = {}
              => OnceEach(s \o t)
<1> DEFINE u == s \o t
           m == Len(s)
           n == Len(t)
<1>1. /\ u \in Seq(X) /\ Len(u) = m + n /\ m \in Nat /\ n \in Nat
      /\ \A i \in 1..(m + n) : u[i] = IF i <= m THEN s[i] ELSE t[i - m]
  BY ConcatProperties, LenProperties
<1> HIDE DEF u
<1>2. ASSUME NEW i \in 1..(m + n)
      PROVE  (i <= m /\ i \in 1..m) \/ (i > m /\ i - m \in 1..n)
  <2> HIDE DEF m, n
  <2>1. m \in Nat /\ n \in Nat
    BY <1>1
  <2>2. QED
    BY <2>1
<1>3. \A i \in 1..m : i \in 1..(m + n) /\ i <= m
  BY <1>1
<1>4. \A i \in 1..n : i + m \in 1..(m + n) /\ i + m > m /\ (i + m) - m = i
  BY <1>1
<1>5. Elements(u) = Elements(s) \union Elements(t)
  <2>1. \A i \in 1..(m + n) : u[i] \in Elements(s) \union Elements(t)
    BY <1>1, <1>2 DEF Elements
  <2>2. \A i \in 1..m : s[i] \in Elements(u)
    BY <1>1, <1>3 DEF Elements
  <2>3. \A i \in 1..n : t[i] \in Elements(u)
    <3>1. ASSUME NEW i \in 1..n PROVE t[i] \in Elements(u)
      <4>1. u[i + m] = t[i] /\ i + m \in 1..Len(u)
        BY <1>1, <1>4
      <4>2. QED
        BY <4>1 DEF Elements
    <3>2. QED
      BY <3>1
  <2>4. Elements(u) \subseteq Elements(s) \union Elements(t)
    BY <1>1, <2>1 DEF Elements
  <2>5. Elements(s) \subseteq Elements(u) /\ Elements(t) \subseteq Elements(u)
    BY <2>2, <2>3 DEF Elements
  <2>6. QED
    BY <2>4, <2>5
<1>6. ASSUME OnceEach(s), OnceEach(t), Elements(s) \intersect Elements(t) = {}
      PROVE  OnceEach(u)
  <2> SUFFICES ASSUME NEW i \in 1..(m + n), NEW j \in 1..(m + n), u[i] = u[j] PROVE i = j
    BY <1>1 DEF OnceEach
  <2>1. i <= m => i \in 1..m /\ u[i] = s[i] /\ u[i] \in Elements(s)
    BY <1>1, <1>2 DEF Elements
  <2>2. i > m => i - m \in 1..n /\ u[i] = t[i - m] /\ u[i] \in Elements(t)
    BY <1>1, <1>2 DEF Elements
  <2>3. j <= m => j \in 1..m /\ u[j] = s[j] /\ u[j] \in Elements(s)
    BY <1>1, <1>2 DEF Elements
  <2>4. j > m => j - m \in 1..n /\ u[j] = t[j - m] /\ u[j] \in Elements(t)
    BY <1>1, <1>2 DEF Elements
  <2>5. (i <= m /\ j <= m) \/ (i > m /\ j > m)
    BY <1>1, <1>6, <2>1, <2>2, <2>3, <2>4
  <2>6. CASE i <= m /\ j <= m
    BY <1>6, <2>1, <2>3, <2>6 DEF OnceEach
  <2>7. CASE i > m /\ j > m
    <3>1. i - m = j - m
      BY <1>6, <2>2, <2>4, <2>7 DEF OnceEach
    <3>2. QED
      BY <1>1, <3>1
  <2>8. QED
    BY <2>5, <2>6, <2>7
<1>7. QED
  BY <1>1, <1>5, <1>6 DEF u

\* The first i sequences of s as one.
FlatStep(s, f, i) == IF i = 1 THEN s[i] ELSE f[i - 1] \o s[i]
IsFlat(s, f) == f = [i \in 1..Len(s) |-> FlatStep(s, f, i)]
FlatTable(s) == CHOOSE f : IsFlat(s, f)

LEMMA FlattenIs ==
  ASSUME NEW s, Len(s) # 0
  PROVE  Makers!FlattenSeq(s) = FlatTable(s)[Len(s)]
BY DEF Makers!FlattenSeq, FlatTable, IsFlat, FlatStep

LEMMA FlatExists ==
  ASSUME NEW s, Len(s) \in Nat
  PROVE  IsFlat(s, FlatTable(s))
<1> DEFINE Upto(n) == \E f : f = [i \in 1..n |-> FlatStep(s, f, i)]
           Bad == {n \in Nat : ~Upto(n)}
<1>1. Bad = {}
  <2> SUFFICES ASSUME Bad # {} PROVE FALSE
    OBVIOUS
  <2>1. PICK n \in Bad : \A k \in Bad : n <= k
    BY LeastOf
  <2>2. n # 0
    <3> SUFFICES ASSUME n = 0 PROVE FALSE
      OBVIOUS
    <3> DEFINE f == [i \in 1..0 |-> i]
    <3>1. f = [i \in 1..0 |-> FlatStep(s, f, i)]
      OBVIOUS
    <3>2. QED
      BY <2>1, <3>1
  <2>3. n - 1 \in Nat /\ n - 1 \notin Bad
    BY <2>1, <2>2
  <2>4. PICK f : f = [i \in 1..(n - 1) |-> FlatStep(s, f, i)]
    BY <2>3
  <2> DEFINE g == [i \in 1..n |-> IF i < n THEN f[i] ELSE FlatStep(s, f, n)]
  <2>5. ASSUME NEW i \in 1..n PROVE g[i] = FlatStep(s, g, i)
    <3>1. i # 1 => i - 1 \in 1..n /\ i - 1 < n /\ g[i - 1] = f[i - 1]
      BY <2>3
    <3>2. FlatStep(s, g, i) = FlatStep(s, f, i)
      <4> HIDE DEF g
      <4>1. QED
        BY <3>1 DEF FlatStep
    <3>3. i < n => i \in 1..(n - 1) /\ f[i] = FlatStep(s, f, i)
      <4>1. i < n => i \in 1..(n - 1)
        BY <2>3
      <4>2. \A k \in 1..(n - 1) : f[k] = FlatStep(s, f, k)
        BY <2>4
      <4>3. QED
        BY <4>1, <4>2
    <3>4. ~(i < n) => i = n
      BY <2>3
    <3>5. QED
      BY <3>2, <3>3, <3>4
  <2>6. g = [i \in 1..n |-> FlatStep(s, g, i)]
    <3>1. g = [i \in 1..n |-> g[i]]
      OBVIOUS
    <3> HIDE DEF g
    <3>2. QED
      BY <2>5, <3>1
  <2> HIDE DEF g
  <2>7. QED
    BY <2>1, <2>6
<1>2. \E f : IsFlat(s, f)
  BY <1>1 DEF IsFlat
<1>3. QED
  BY <1>2 DEF FlatTable

LEMMA FlattenElements ==
  ASSUME NEW X, NEW s \in Seq(Seq(X))
  PROVE  LET F == Makers!FlattenSeq(s) IN
         /\ F \in Seq(X) /\ Elements(F) = UNION {Elements(s[i]) : i \in 1..Len(s)}
         /\ (\A i \in 1..Len(s) : OnceEach(s[i]))
            /\ (\A i, j \in 1..Len(s) : i # j => Elements(s[i]) \intersect Elements(s[j]) = {})
              => OnceEach(F)
<1> DEFINE n == Len(s)
           F == Makers!FlattenSeq(s)
           T == FlatTable(s)
           Upto(k) == UNION {Elements(s[i]) : i \in 1..k}
           Apart == /\ \A i \in 1..n : OnceEach(s[i])
                    /\ \A i, j \in 1..n : i # j => Elements(s[i]) \intersect Elements(s[j]) = {}
<1>1. n \in Nat /\ \A i \in 1..n : s[i] \in Seq(X)
  BY LenProperties, ElementOfSeq
<1>2. CASE n = 0
  <2>1. F = <<>> /\ Len(F) = 0
    BY <1>2, EmptySeq DEF Makers!FlattenSeq
  <2>2. F \in Seq(X) /\ Elements(F) = {} /\ OnceEach(F)
    BY <2>1 DEF Elements, OnceEach
  <2>3. Upto(n) = {}
    BY <1>2
  <2>4. QED
    BY <2>2, <2>3
<1>3. CASE n # 0
  <2>1. F = T[n] /\ \A i \in 1..n : T[i] = FlatStep(s, T, i)
    <3>1. F = T[n]
      BY <1>3, FlattenIs
    <3>2. IsFlat(s, T)
      BY <1>1, FlatExists
    <3>3. \A f : IsFlat(s, f) => \A i \in 1..n : f[i] = FlatStep(s, f, i)
      BY DEF IsFlat
    <3>4. QED
      BY <3>1, <3>2, <3>3
  <2> HIDE DEF T, F
  <2> DEFINE Flat(k) == T[k] \in Seq(X) /\ Elements(T[k]) = Upto(k) /\ (Apart => OnceEach(T[k]))
             Bad == {k \in Nat : k \in 1..n /\ ~Flat(k)}
  <2>2. Bad = {}
    <3> SUFFICES ASSUME Bad # {} PROVE FALSE
      OBVIOUS
    <3>1. PICK k \in Bad : \A j \in Bad : k <= j
      BY LeastOf
    <3>2. k \in 1..n /\ ~Flat(k) /\ s[k] \in Seq(X)
      BY <1>1, <3>1
    <3>3. CASE k = 1
      <4>1. T[k] = s[1]
        BY <2>1, <3>2, <3>3 DEF FlatStep
      <4>2. Upto(k) = Elements(s[1])
        <5>1. \A i : i \in 1..1 <=> i = 1
          OBVIOUS
        <5>2. QED
          BY <3>3, <5>1
      <4>3. QED
        BY <3>2, <3>3, <4>1, <4>2
    <3>4. CASE k # 1
      <4> DEFINE a == T[k - 1]
                 b == s[k]
      <4>1. k - 1 \in 1..n /\ k - 1 \in Nat /\ k - 1 \notin Bad
        <5>1. k - 1 \in 1..n /\ k - 1 \in Nat
          BY <1>1, <3>2, <3>4
        <5> HIDE DEF Bad
        <5>2. k - 1 \notin Bad
          BY <1>1, <3>1, <3>2, <5>1
        <5>3. QED
          BY <5>1, <5>2
      <4>2. a \in Seq(X) /\ Elements(a) = Upto(k - 1) /\ (Apart => OnceEach(a))
        BY <4>1
      <4>3. T[k] = a \o b
        BY <2>1, <3>2, <3>4 DEF FlatStep
      <4> HIDE DEF a
      <4>4. Upto(k) = Upto(k - 1) \union Elements(b)
        <5>1. \A i : i \in 1..k <=> i \in 1..(k - 1) \/ i = k
          BY <1>1, <3>2, <3>4
        <5> DEFINE E(i) == Elements(s[i])
        <5>2. Upto(k) = UNION {E(i) : i \in 1..k} /\ Upto(k - 1) = UNION {E(i) : i \in 1..(k - 1)}
              /\ E(k) = Elements(b)
          OBVIOUS
        <5> HIDE DEF E, Upto
        <5>3. QED
          BY <5>1, <5>2
      <4>5. Apart => Elements(a) \intersect Elements(b) = {}
        <5> SUFFICES ASSUME Apart, NEW x \in Elements(a) PROVE x \notin Elements(b)
          OBVIOUS
        <5>1. PICK i \in 1..(k - 1) : x \in Elements(s[i])
          BY <4>2
        <5>2. i \in 1..n /\ i # k
          BY <1>1, <3>2
        <5>3. QED
          BY <3>2, <5>1, <5>2
      <4>6. Apart => OnceEach(b)
        BY <3>2
      <4> HIDE DEF b, Apart, Upto
      <4>7. b \in Seq(X)
        BY <3>2 DEF b
      <4>8. T[k] \in Seq(X) /\ Elements(T[k]) = Upto(k) /\ (Apart => OnceEach(T[k]))
        BY <4>2, <4>3, <4>4, <4>5, <4>6, <4>7, ConcatElements
      <4>9. QED
        BY <3>2, <4>8
    <3>5. QED
      BY <3>3, <3>4
  <2>3. n \in 1..n
    BY <1>1, <1>3
  <2>4. Flat(n)
    BY <1>1, <2>2, <2>3
  <2>5. QED
    BY <2>1, <2>4 DEF F
<1>4. QED
  BY <1>2, <1>3

-----------------------------------------------------------------------------
(* The positions of a list of conditions. *)

\* What the fold over the positions T of the list comes to.
FoldStep(l, g, T) ==
  IF T = {} THEN <<{}>> ELSE Makers!AddCondition(l[Makers!Min(T)], g[T \ {Makers!Min(T)}])
IsFold(l, g) == g = [T \in SUBSET DOMAIN l |-> FoldStep(l, g, T)]
FoldTable(l) == CHOOSE g : IsFold(l, g)

LEMMA PositionIdsAre ==
  ASSUME NEW l
  PROVE  Makers!PositionIds(l) = FoldTable(l)[DOMAIN l]
BY DEF Makers!PositionIds, Makers!FoldRight, Makers!MapThenFoldSet, FoldTable, IsFold, FoldStep

LEMMA MinIs ==
  ASSUME NEW T \in SUBSET Nat, T # {}
  PROVE  Makers!Min(T) \in T /\ \A i \in T : Makers!Min(T) <= i
<1>1. \E x \in T : \A y \in T : x <= y
  BY LeastOf
<1>2. QED
  BY <1>1 DEF Makers!Min

LEMMA FoldExists ==
  ASSUME NEW l, NEW n \in Nat, DOMAIN l = 1..n
  PROVE  IsFold(l, FoldTable(l))
<1> DEFINE D == 1..n
           Small(k) == {T \in SUBSET D : Cardinality(T) <= k}
           Bad == {k \in Nat : ~\E g : g = [T \in Small(k) |-> FoldStep(l, g, T)]}
<1>0. ASSUME NEW T \in SUBSET D
      PROVE  /\ Cardinality(T) \in Nat /\ Cardinality(T) <= Cardinality(D)
             /\ Cardinality(T) = 0 <=> T = {}
             /\ T # {} => /\ T \ {Makers!Min(T)} \in SUBSET D
                          /\ Cardinality(T \ {Makers!Min(T)}) = Cardinality(T) - 1
  <2>1. IsFiniteSet(D)
    BY FS_Interval
  <2>2. IsFiniteSet(T) /\ Cardinality(T) \in Nat /\ Cardinality(T) <= Cardinality(D)
        /\ (Cardinality(T) = 0 <=> T = {})
    BY <2>1, FS_Subset, FS_CardinalityType, FS_EmptySet
  <2>3. T # {} => Makers!Min(T) \in T
    BY MinIs
  <2>4. QED
    BY <2>2, <2>3, FS_RemoveElement
<1>1. Bad = {}
  <2> SUFFICES ASSUME Bad # {} PROVE FALSE
    OBVIOUS
  <2>1. PICK k \in Bad : \A j \in Bad : k <= j
    BY LeastOf
  <2>2. k # 0
    <3> SUFFICES ASSUME k = 0 PROVE FALSE
      OBVIOUS
    <3> DEFINE g == [T \in Small(0) |-> <<{}>>]
    <3>1. ASSUME NEW T \in Small(0) PROVE T = {}
      <4>1. T \in SUBSET D /\ Cardinality(T) <= 0
        OBVIOUS
      <4>2. Cardinality(T) \in Nat /\ (Cardinality(T) = 0 <=> T = {})
        BY <1>0
      <4>3. QED
        BY <4>1, <4>2
    <3>2. g = [T \in Small(0) |-> FoldStep(l, g, T)]
      BY <3>1 DEF FoldStep
    <3>3. QED
      BY <2>1, <3>2
  <2>3. k - 1 \in Nat /\ k - 1 \notin Bad
    <3>1. k \in Nat /\ k - 1 \in Nat
      BY <2>1, <2>2
    <3> HIDE DEF Bad
    <3>2. QED
      BY <2>1, <3>1
  <2>4. PICK g : g = [T \in Small(k - 1) |-> FoldStep(l, g, T)]
    BY <2>3
  <2> DEFINE h == [T \in Small(k) |-> FoldStep(l, g, T)]
  <2>5. ASSUME NEW T \in Small(k)
        PROVE  h[T] = FoldStep(l, h, T)
    <3>1. CASE T = {}
      BY <3>1 DEF FoldStep
    <3>2. CASE T # {}
      <4> DEFINE U == T \ {Makers!Min(T)}
      <4>1. U \in Small(k - 1) /\ U \in Small(k)
        BY <1>0, <2>1, <3>2
      <4>2. h[U] = g[U]
        BY <2>4, <4>1
      <4>3. QED
        BY <4>2 DEF FoldStep
    <3>3. QED
      BY <3>1, <3>2
  <2> HIDE DEF h
  <2>6. h = [T \in Small(k) |-> FoldStep(l, h, T)]
    <3>1. h = [T \in Small(k) |-> h[T]]
      BY DEF h
    <3>2. QED
      BY <2>5, <3>1
  <2>7. QED
    BY <2>1, <2>6
<1>2. Small(Cardinality(D)) = SUBSET D /\ Cardinality(D) \in Nat
  BY <1>0
<1>3. \E g : IsFold(l, g)
  <2> DEFINE K == Cardinality(D)
  <2>1. \E g : g = [T \in Small(K) |-> FoldStep(l, g, T)]
    BY <1>1, <1>2
  <2>2. Small(K) = SUBSET DOMAIN l
    BY <1>2
  <2> HIDE DEF Small, K
  <2>3. QED
    BY <2>1, <2>2 DEF IsFold
<1>4. QED
  BY <1>3 DEF FoldTable

\* From the last condition to the first.
After(l, k) == FoldTable(l)[k..Len(l)]

LEMMA FoldIs ==
  ASSUME NEW X, NEW l \in Seq(X)
  PROVE  /\ Makers!PositionIds(l) = After(l, 1)
         /\ After(l, Len(l) + 1) = <<{}>>
         /\ \A k \in 1..Len(l) : After(l, k) = Makers!AddCondition(l[k], After(l, k + 1))
<1> DEFINE n == Len(l)
           g == FoldTable(l)
<1>1. n \in Nat /\ DOMAIN l = 1..n
  BY LenProperties
<1>2. \A T \in SUBSET (1..n) : g[T] = FoldStep(l, g, T)
  <2>1. IsFold(l, g)
    BY <1>1, FoldExists
  <2>2. \A f : IsFold(l, f) => \A T \in SUBSET (1..n) : f[T] = FoldStep(l, f, T)
    BY <1>1 DEF IsFold
  <2>3. QED
    BY <2>1, <2>2
<1> HIDE DEF n, g
<1>3. (n + 1)..n = {}
  BY <1>1
<1>4. After(l, n + 1) = <<{}>>
  BY <1>2, <1>3 DEF After, FoldStep, n, g
<1>5. ASSUME NEW k \in 1..n
      PROVE  After(l, k) = Makers!AddCondition(l[k], After(l, k + 1))
  <2> DEFINE T == k..n
  <2>1. T \in SUBSET (1..n) /\ T \in SUBSET Nat /\ k \in T /\ \A i \in T : k <= i
    BY <1>1
  <2>2. T \ {k} = (k + 1)..n
    BY <1>1
  <2> HIDE DEF T
  <2>3. Makers!Min(T) = k
    <3>1. Makers!Min(T) \in T /\ Makers!Min(T) <= k
      BY <2>1, MinIs
    <3>2. Makers!Min(T) \in Nat /\ k \in Nat /\ k <= Makers!Min(T)
      BY <2>1, <3>1
    <3>3. QED
      BY <3>1, <3>2
  <2>4. g[T] = Makers!AddCondition(l[k], g[T \ {k}])
    BY <1>2, <2>1, <2>3 DEF FoldStep
  <2>5. QED
    BY <2>2, <2>4 DEF After, T, n, g
<1>6. QED
  BY <1>1, <1>4, <1>5, PositionIdsAre DEF After, n, g

-----------------------------------------------------------------------------
(* The joint outcomes. *)

Pairs == Makers!Conditions \X Nat
Choices(C) == {f \in [C -> UNION {1..slots[c] : c \in C}] : \A c \in C : f[c] <= slots[c]}
Outcome(C, f) == {<<c, f[c]>> : c \in C}
Joint(C) == {Outcome(C, f) : f \in Choices(C)}

\* The list P has every joint outcome of C once.
ListsOutcomes(P, C) == P \in Seq(SUBSET Pairs) /\ Elements(P) = Joint(C) /\ OnceEach(P)

LEMMA ChoicesAre ==
  ASSUME NEW C, \A c \in C : slots[c] \in Nat
  PROVE  \A f : f \in Choices(C) <=> f = [c \in C |-> f[c]] /\ \A c \in C : f[c] \in 1..slots[c]
<1> TAKE f
<1>1. ASSUME f \in Choices(C)
      PROVE  f = [c \in C |-> f[c]] /\ \A c \in C : f[c] \in 1..slots[c]
  <2>1. f \in [C -> UNION {1..slots[c] : c \in C}] /\ \A c \in C : f[c] <= slots[c]
    BY <1>1 DEF Choices
  <2>2. ASSUME NEW c \in C PROVE f[c] \in 1..slots[c]
    <3>1. PICK d \in C : f[c] \in 1..slots[d]
      BY <2>1
    <3>2. QED
      BY <2>1, <3>1
  <2>3. QED
    BY <2>1, <2>2
<1>2. ASSUME f = [c \in C |-> f[c]], \A c \in C : f[c] \in 1..slots[c]
      PROVE  f \in Choices(C)
  <2>1. \A c \in C : f[c] \in UNION {1..slots[d] : d \in C} /\ f[c] <= slots[c]
    BY <1>2
  <2>2. QED
    BY <1>2, <2>1 DEF Choices
<1>3. QED
  BY <1>1, <1>2

LEMMA JointOfNone == Joint({}) = {{}}
<1>1. ASSUME NEW f PROVE Outcome({}, f) = {}
  BY DEF Outcome
<1>2. [c \in {} |-> 0] \in Choices({})
  BY DEF Choices
<1>3. QED
  BY <1>1, <1>2 DEF Joint

LEMMA JointGrows ==
  ASSUME NEW C, NEW c, c \notin C, \A d \in C \union {c} : slots[d] \in Nat
  PROVE  Joint(C \union {c}) = {p \union {<<c, i>>} : p \in Joint(C), i \in 1..slots[c]}
<1> DEFINE E == C \union {c}
<1>1. ASSUME NEW q \in Joint(E)
      PROVE  \E p \in Joint(C), i \in 1..slots[c] : q = p \union {<<c, i>>}
  <2>1. PICK f \in Choices(E) : q = Outcome(E, f)
    BY DEF Joint
  <2> DEFINE g == [d \in C |-> f[d]]
  <2>2. f = [d \in E |-> f[d]] /\ \A d \in E : f[d] \in 1..slots[d]
    BY <2>1, ChoicesAre
  <2>3. g \in Choices(C)
    <3>1. g = [d \in C |-> g[d]] /\ \A d \in C : g[d] \in 1..slots[d]
      BY <2>2
    <3> HIDE DEF g
    <3>2. QED
      BY <3>1, ChoicesAre
  <2>4. \A d \in C : g[d] = f[d]
    OBVIOUS
  <2> HIDE DEF g
  <2>5. q = Outcome(C, g) \union {<<c, f[c]>>}
    BY <2>1, <2>4 DEF Outcome
  <2>6. Outcome(C, g) \in Joint(C) /\ f[c] \in 1..slots[c]
    BY <2>2, <2>3 DEF Joint
  <2>7. QED
    BY <2>5, <2>6
<1>2. ASSUME NEW p \in Joint(C), NEW i \in 1..slots[c]
      PROVE  p \union {<<c, i>>} \in Joint(E)
  <2>1. PICK g \in Choices(C) : p = Outcome(C, g)
    BY DEF Joint
  <2> DEFINE f == [d \in E |-> IF d = c THEN i ELSE g[d]]
  <2>2. g = [d \in C |-> g[d]] /\ \A d \in C : g[d] \in 1..slots[d]
    BY <2>1, ChoicesAre
  <2>3. f = [d \in E |-> f[d]] /\ \A d \in E : f[d] \in 1..slots[d]
    BY <2>2
  <2>4. f[c] = i /\ \A d \in C : f[d] = g[d]
    OBVIOUS
  <2> HIDE DEF f
  <2>5. f \in Choices(E)
    BY <2>3, ChoicesAre
  <2>6. Outcome(E, f) = p \union {<<c, i>>}
    BY <2>1, <2>4 DEF Outcome
  <2>7. QED
    BY <2>5, <2>6 DEF Joint
<1>3. QED
  BY <1>1, <1>2

\* A condition's slots joined to every outcome of others give every outcome of all.
LEMMA AddOutcomes ==
  ASSUME NEW C \in SUBSET Makers!Conditions, NEW c \in Makers!Conditions \ C,
         slots \in [Makers!Conditions -> Nat], NEW P, ListsOutcomes(P, C)
  PROVE  ListsOutcomes(Makers!AddCondition(c, P), C \union {c})
<1> DEFINE n == slots[c]
           m == Len(P)
           with(p, i) == P[p] \union {<<c, i>>}
           s == [p \in DOMAIN P |-> [i \in 1..slots[c] |-> P[p] \union {<<c, i>>}]]
           F == Makers!FlattenSeq(s)
<1>1. n \in Nat /\ m \in Nat /\ DOMAIN P = 1..m /\ \A p \in 1..m : P[p] \in SUBSET Pairs
  BY LenProperties, ElementOfSeq DEF ListsOutcomes
<1>2. \A p \in 1..m : P[p] \in Joint(C)
  BY DEF ListsOutcomes, Elements
<1>3. ASSUME NEW p \in 1..m, NEW i \in 1..n PROVE <<c, i>> \notin P[p]
  <2>1. PICK f : P[p] = Outcome(C, f)
    BY <1>2 DEF Joint
  <2>2. QED
    BY <2>1 DEF Outcome
<1>4. ASSUME NEW p \in 1..m, NEW q \in 1..m, NEW i \in 1..n, NEW j \in 1..n,
             with(p, i) = with(q, j)
      PROVE  p = q /\ i = j
  <2>1. i = j
    <3>1. <<c, i>> \in with(q, j)
      BY <1>4
    <3>2. <<c, i>> \notin P[q]
      BY <1>3
    <3>3. <<c, i>> = <<c, j>>
      BY <3>1, <3>2
    <3>4. QED
      BY <3>3
  <2>2. <<c, i>> \notin P[p] /\ <<c, i>> \notin P[q]
    BY <1>3
  <2>3. P[p] = P[q]
    <3>1. with(p, i) \ {<<c, i>>} = P[p]
      BY <2>2
    <3>2. with(q, i) \ {<<c, i>>} = P[q]
      BY <2>2
    <3>3. QED
      BY <1>4, <2>1, <3>1, <3>2
  <2>4. QED
    BY <2>1, <2>3 DEF ListsOutcomes, OnceEach
<1>5. ASSUME NEW p \in 1..m, NEW i \in 1..n PROVE with(p, i) \in SUBSET Pairs
  <2>1. <<c, i>> \in Pairs
    BY <1>1 DEF Pairs
  <2>2. QED
    BY <1>1, <2>1
<1>6. s = [p \in 1..m |-> [i \in 1..n |-> with(p, i)]]
  BY <1>1
<1> HIDE DEF with, n, s
<1>7. ASSUME NEW p \in 1..m
      PROVE  /\ s[p] \in Seq(SUBSET Pairs) /\ Len(s[p]) = n
             /\ \A i \in 1..n : s[p][i] = with(p, i)
  BY <1>1, <1>5, <1>6
<1>8. s \in Seq(Seq(SUBSET Pairs)) /\ Len(s) = m
  BY <1>1, <1>6, <1>7
<1>9. \A p \in 1..m : OnceEach(s[p])
  BY <1>4, <1>7 DEF OnceEach
<1>10. ASSUME NEW p \in 1..m, NEW q \in 1..m, p # q
       PROVE  Elements(s[p]) \intersect Elements(s[q]) = {}
  <2> SUFFICES ASSUME NEW x \in Elements(s[p]), x \in Elements(s[q]) PROVE FALSE
    OBVIOUS
  <2>1. PICK i \in 1..n : x = with(p, i)
    BY <1>7 DEF Elements
  <2>2. PICK j \in 1..n : x = with(q, j)
    BY <1>7 DEF Elements
  <2>3. QED
    BY <1>4, <1>10, <2>1, <2>2
<1>11. /\ F \in Seq(SUBSET Pairs) /\ Elements(F) = UNION {Elements(s[p]) : p \in 1..m}
       /\ OnceEach(F)
  BY <1>8, <1>9, <1>10, FlattenElements
<1>12. Elements(F) = {p \union {<<c, i>>} : p \in Joint(C), i \in 1..n}
  <2>1. ASSUME NEW x \in Elements(F)
        PROVE  \E p \in Joint(C), i \in 1..n : x = p \union {<<c, i>>}
    <3>1. PICK p \in 1..m : x \in Elements(s[p])
      BY <1>11
    <3>2. PICK i \in 1..n : x = with(p, i)
      BY <1>7, <3>1 DEF Elements
    <3>3. QED
      BY <1>2, <3>2 DEF with
  <2>2. ASSUME NEW p \in Joint(C), NEW i \in 1..n
        PROVE  p \union {<<c, i>>} \in Elements(F)
    <3>1. PICK k \in 1..m : P[k] = p
      BY DEF ListsOutcomes, Elements
    <3>2. s[k][i] = p \union {<<c, i>>} /\ Len(s[k]) = n
      BY <1>7, <3>1 DEF with
    <3>3. s[k][i] \in Elements(s[k])
      BY <3>2 DEF Elements
    <3>4. QED
      BY <1>11, <3>2, <3>3
  <2>3. QED
    BY <2>1, <2>2
<1>13. Elements(F) = Joint(C \union {c})
  BY <1>12, JointGrows DEF n
<1>14. Makers!AddCondition(c, P) = F
  BY DEF Makers!AddCondition, s
<1>15. QED
  BY <1>11, <1>13, <1>14 DEF ListsOutcomes

\* Of a list that names each condition once.
LEMMA PositionsComplete ==
  ASSUME NEW l \in Seq(Makers!Conditions), OnceEach(l), slots \in [Makers!Conditions -> Nat]
  PROVE  ListsOutcomes(Makers!PositionIds(l), Elements(l))
<1> DEFINE n == Len(l)
           NamedFrom(k) == {l[i] : i \in k..n}
           Bad == {d \in Nat : d <= n /\ ~ListsOutcomes(After(l, n + 1 - d), NamedFrom(n + 1 - d))}
<1>1. n \in Nat /\ \A i \in 1..n : l[i] \in Makers!Conditions
  BY LenProperties, ElementOfSeq
<1> HIDE DEF n
<1>2. /\ Makers!PositionIds(l) = After(l, 1) /\ After(l, n + 1) = <<{}>>
      /\ \A k \in 1..n : After(l, k) = Makers!AddCondition(l[k], After(l, k + 1))
  BY FoldIs DEF n
<1>3. ListsOutcomes(After(l, n + 1), NamedFrom(n + 1))
  <2> DEFINE P == <<{}>>
  <2>1. P \in Seq(SUBSET Pairs) /\ Len(P) = 1 /\ P[1] = {}
    OBVIOUS
  <2> HIDE DEF P
  <2>2. \A i : i \in 1..1 <=> i = 1
    OBVIOUS
  <2>3. Elements(P) = {{}} /\ OnceEach(P)
    <3>1. Elements(P) = {P[i] : i \in 1..1}
      BY <2>1 DEF Elements
    <3>2. OnceEach(P)
      BY <2>1, <2>2 DEF OnceEach
    <3>3. QED
      BY <2>1, <2>2, <3>1, <3>2
  <2>4. NamedFrom(n + 1) = {}
    BY <1>1
  <2>5. ListsOutcomes(P, {})
    BY <2>1, <2>3, JointOfNone DEF ListsOutcomes
  <2>6. After(l, n + 1) = P
    BY <1>2 DEF P
  <2> HIDE DEF NamedFrom
  <2>7. QED
    BY <2>4, <2>5, <2>6
<1>4. ASSUME NEW k \in 1..n, ListsOutcomes(After(l, k + 1), NamedFrom(k + 1))
      PROVE  ListsOutcomes(After(l, k), NamedFrom(k))
  <2>1. \A i : i \in k..n <=> i \in (k + 1)..n \/ i = k
    BY <1>1
  <2>2. NamedFrom(k) = NamedFrom(k + 1) \union {l[k]}
    BY <2>1
  <2>3. \A i \in (k + 1)..n : i \in 1..n /\ i # k
    BY <1>1
  <2>4. NamedFrom(k + 1) \subseteq Makers!Conditions
    BY <1>1, <2>3
  <2>5. l[k] \notin NamedFrom(k + 1)
    BY <2>3 DEF OnceEach, n
  <2> HIDE DEF NamedFrom
  <2>6. QED
    BY <1>1, <1>2, <1>4, <2>2, <2>4, <2>5, AddOutcomes, SMTT(20)
<1>5. Bad = {}
  <2> SUFFICES ASSUME Bad # {} PROVE FALSE
    OBVIOUS
  <2>1. PICK d \in Bad : \A e \in Bad : d <= e
    BY LeastOf
  <2> HIDE DEF NamedFrom
  <2>2. d \in Nat /\ d <= n /\ ~ListsOutcomes(After(l, n + 1 - d), NamedFrom(n + 1 - d))
    BY <2>1
  <2>3. d # 0
    <3> SUFFICES ASSUME d = 0 PROVE FALSE
      OBVIOUS
    <3>1. n + 1 - d = n + 1
      BY <1>1
    <3>2. QED
      BY <1>3, <2>2, <3>1
  <2>4. d - 1 \in Nat /\ d - 1 <= n
    BY <1>1, <2>2, <2>3
  <2>5. d - 1 \notin Bad
    <3> HIDE DEF Bad
    <3>1. QED
      BY <2>1, <2>2, <2>4
  <2>6. ListsOutcomes(After(l, n + 1 - (d - 1)), NamedFrom(n + 1 - (d - 1)))
    BY <2>4, <2>5
  <2> DEFINE k == n + 1 - d
  <2>7. k \in 1..n /\ n + 1 - (d - 1) = k + 1
    BY <1>1, <2>2, <2>3
  <2> HIDE DEF k
  <2>8. ListsOutcomes(After(l, k + 1), NamedFrom(k + 1))
    BY <2>6, <2>7
  <2>9. QED
    BY <1>4, <2>2, <2>7, <2>8 DEF k
<1>6. ListsOutcomes(After(l, n + 1 - n), NamedFrom(n + 1 - n))
  <2> HIDE DEF NamedFrom
  <2>1. n \in Nat /\ n <= n
    BY <1>1
  <2>2. n \notin Bad
    BY <1>5
  <2>3. QED
    BY <2>1, <2>2
<1>7. n + 1 - n = 1
  BY <1>1
<1>8. NamedFrom(1) = Elements(l)
  BY DEF Elements, n
<1>9. QED
  <2> HIDE DEF NamedFrom
  <2>1. QED
    BY <1>2, <1>6, <1>7, <1>8

-----------------------------------------------------------------------------
(* The factory's steps. *)

MakerTerms == [creator : Users, token : Tokens \union {Makers!AnyToken}, asked : Fees,
               conditions : Lists, collateralToken : Tokens, fee : Nat,
               positionIds : Seq(SUBSET Pairs)]

\* The positions of a market maker are every joint outcome of conditions that
\* were prepared, so that their slots change no more.
MakerOK(m) ==
  /\ m.fee <= MAX_FEE
  /\ m.token \in {Makers!AnyToken, m.collateralToken} /\ m.asked \in {0, m.fee}
  /\ \A c \in Elements(m.conditions) : slots[c] # 0
  /\ ListsOutcomes(m.positionIds, Elements(m.conditions))

TermsInv ==
  /\ owner \in Users /\ allowedCollateralToken \in Tokens
  /\ defaultFee \in Nat /\ defaultFee <= MAX_FEE
  /\ slots \in [Makers!Conditions -> Nat]
  /\ makers \in Seq(MakerTerms) /\ \A i \in 1..Len(makers) : MakerOK(makers[i])

LEMMA ListsAre ==
  /\ Fees \subseteq Nat /\ SlotCounts \subseteq Nat \ {0, 1}
  /\ \A l \in Lists : l \in Seq(Makers!Conditions) /\ OnceEach(l)
                      /\ Elements(l) \subseteq Makers!Conditions /\ Makers!Range(l) = Elements(l)
<1>1. Makers!FactoryAssumption
  BY MarketsAssumption
<1>2. ASSUME NEW l \in Lists
      PROVE  l \in Seq(Makers!Conditions) /\ OnceEach(l)
             /\ Elements(l) \subseteq Makers!Conditions /\ Makers!Range(l) = Elements(l)
  <2>1. l \in Seq(Makers!Range(l)) /\ Makers!IsInjective(l)
    BY <1>1 DEF Makers!FactoryAssumption
  <2>2. Makers!Range(l) \subseteq Makers!Conditions
    BY DEF Makers!Conditions
  <2>3. DOMAIN l = 1..Len(l)
    BY <2>1, LenProperties
  <2>4. Makers!Range(l) = Elements(l)
    BY <2>3 DEF Makers!Range, Elements
  <2>5. OnceEach(l)
    BY <2>1, <2>3 DEF OnceEach, Makers!IsInjective
  <2>6. l \in Seq(Makers!Conditions)
    BY <2>1, <2>2
  <2>7. QED
    BY <2>2, <2>4, <2>5, <2>6
<1>3. QED
  BY <1>1, <1>2 DEF Makers!FactoryAssumption

LEMMA TermsInitially == MarketsInit => TermsInv
<1> SUFFICES ASSUME MarketsInit PROVE TermsInv
  OBVIOUS
<1>1. /\ owner \in Users /\ allowedCollateralToken \in Tokens
      /\ defaultFee \in Fees /\ defaultFee <= MAX_FEE
      /\ slots = [c \in Makers!Conditions |-> 0] /\ makers = <<>>
  BY DEF MarketsInit, Makers!Init
<1>2. makers \in Seq(MakerTerms) /\ Len(makers) = 0
  BY <1>1, EmptySeq
<1>3. QED
  BY <1>1, <1>2, ListsAre DEF TermsInv

\* A market maker is made with every joint outcome of prepared conditions.
LEMMA MakingKeeps ==
  ASSUME TermsInv, NEW u \in Users, NEW t \in Tokens \union {Makers!AnyToken}, NEW l \in Lists,
         NEW f \in Fees, Makers!CreateFixedProductMarketMaker(u, t, l, f)
  PROVE  TermsInv'
<1> DEFINE P == Makers!PositionIds(l)
           m == [creator |-> u, token |-> t, asked |-> f, conditions |-> l,
                 collateralToken |-> allowedCollateralToken,
                 fee |-> defaultFee, positionIds |-> P]
<1>1. /\ t \in {Makers!AnyToken, allowedCollateralToken} /\ f \in {0, defaultFee}
      /\ Makers!AtomicOutcomes(l) > 1 /\ Len(P) = Makers!AtomicOutcomes(l)
      /\ makers' = Append(makers, m)
      /\ UNCHANGED <<owner, allowedCollateralToken, defaultFee, slots>>
  BY DEF Makers!CreateFixedProductMarketMaker, Makers!Constructed, Makers!terms
<1>2. l \in Seq(Makers!Conditions) /\ OnceEach(l) /\ Elements(l) \subseteq Makers!Conditions
  BY ListsAre
<1>3. ListsOutcomes(P, Elements(l))
  BY <1>2, PositionsComplete DEF TermsInv
<1> HIDE DEF P
<1>4. \A c \in Elements(l) : slots[c] # 0
  <2> SUFFICES ASSUME NEW c \in Elements(l), slots[c] = 0 PROVE FALSE
    OBVIOUS
  <2>1. \A d \in Elements(l) : slots[d] \in Nat
    BY <1>2 DEF TermsInv
  <2>2. Joint(Elements(l)) = {}
    <3> SUFFICES ASSUME NEW f1 \in Choices(Elements(l)) PROVE FALSE
      BY DEF Joint
    <3>1. f1[c] \in 1..slots[c]
      BY <2>1, ChoicesAre
    <3>2. QED
      BY <3>1
  <2>3. P[1] \in Elements(P)
    BY <1>1, <1>3 DEF Elements, ListsOutcomes
  <2>4. QED
    BY <1>3, <2>2, <2>3 DEF ListsOutcomes
<1>5. m \in MakerTerms
  BY <1>3 DEF MakerTerms, TermsInv, ListsOutcomes
<1>6. MakerOK(m)
  BY <1>1, <1>3, <1>4 DEF MakerOK, TermsInv
<1> HIDE DEF m
<1>7. /\ makers' \in Seq(MakerTerms) /\ Len(makers') = Len(makers) + 1
      /\ \A i \in 1..Len(makers') :
           makers'[i] = m \/ (i \in 1..Len(makers) /\ makers'[i] = makers[i])
  BY <1>1, <1>5 DEF TermsInv
<1>8. \A i \in 1..Len(makers') : MakerOK(makers'[i])
  BY <1>6, <1>7 DEF TermsInv
<1>9. \A x : MakerOK(x) => MakerOK(x)'
  BY <1>1 DEF MakerOK, ListsOutcomes, Joint, Choices, Outcome
<1>10. \A i \in 1..Len(makers') : MakerOK(makers[i])'
  BY <1>7, <1>8, <1>9
<1>11. QED
  BY <1>1, <1>7, <1>10 DEF TermsInv

\* Preparing another condition changes no outcome of those that are prepared.
LEMMA PreparingKeeps ==
  ASSUME TermsInv, NEW c \in Makers!Conditions, NEW n \in SlotCounts,
         Makers!PrepareCondition(c, n)
  PROVE  TermsInv'
<1>1. /\ slots[c] = 0 /\ slots' = [slots EXCEPT ![c] = n] /\ n \in Nat
      /\ UNCHANGED <<owner, allowedCollateralToken, defaultFee, makers>>
  BY ListsAre DEF Makers!PrepareCondition, Makers!terms
<1>2. slots \in [Makers!Conditions -> Nat] /\ slots' \in [Makers!Conditions -> Nat]
  BY <1>1 DEF TermsInv
<1>3. ASSUME NEW i \in 1..Len(makers) PROVE MakerOK(makers[i])'
  <2> DEFINE m == makers[i]
             C == Elements(m.conditions)
  <2>1. MakerOK(m) /\ m \in MakerTerms
    BY ElementOfSeq DEF TermsInv
  <2>2. C \subseteq Makers!Conditions
    BY <2>1, ListsAre DEF MakerTerms
  <2>3. \A d \in C : slots[d] # 0 /\ slots'[d] = slots[d]
    BY <1>1, <1>2, <2>1, <2>2 DEF MakerOK
  <2> HIDE DEF C
  <2>4. Choices(C)' = Choices(C)
    <3> DEFINE S == {1..slots[d] : d \in C}
               S1 == {1..slots'[d] : d \in C}
    <3>1. C' = C
      BY <1>1 DEF C, Elements
    <3>2. S1 = S
      BY <2>3
    <3>3. \A f : (\A d \in C : f[d] <= slots'[d]) <=> (\A d \in C : f[d] <= slots[d])
      BY <2>3
    <3>4. /\ Choices(C) = {f \in [C -> UNION S] : \A d \in C : f[d] <= slots[d]}
          /\ Choices(C)' = {f \in [C -> UNION S1] : \A d \in C : f[d] <= slots'[d]}
      BY <3>1 DEF Choices
    <3> HIDE DEF S, S1
    <3>5. QED
      BY <3>2, <3>3, <3>4
  <2>5. C' = C /\ m' = m
    BY <1>1 DEF C, Elements
  <2>6. Joint(C)' = Joint(C)
    <3>1. Joint(C)' = {Outcome(C', f) : f \in Choices(C)'}
      BY DEF Joint, Outcome
    <3>2. Joint(C)' = {Outcome(C, f) : f \in Choices(C)}
      BY <2>4, <2>5, <3>1
    <3>3. QED
      BY <3>2 DEF Joint
  <2>7. ListsOutcomes(m.positionIds, C)'
    <3>1. ListsOutcomes(m.positionIds, C)
      BY <2>1 DEF MakerOK, C
    <3>2. QED
      BY <2>5, <2>6, <3>1 DEF ListsOutcomes
  <2>8. MakerOK(m)'
    <3>1. \A d \in C' : slots'[d] # 0
      BY <2>3, <2>5
    <3>2. QED
      BY <2>1, <2>5, <2>7, <3>1 DEF MakerOK, C
  <2>9. QED
    BY <2>8
<1>4. QED
  BY <1>1, <1>2, <1>3 DEF TermsInv

LEMMA TermsRest ==
  ASSUME TermsInv, UNCHANGED <<slots, makers>>,
         owner' \in Users, allowedCollateralToken' \in Tokens, defaultFee' \in Nat,
         defaultFee' <= MAX_FEE
  PROVE  TermsInv'
<1>1. \A x : MakerOK(x) => MakerOK(x)'
  BY DEF MakerOK, ListsOutcomes, Joint, Choices, Outcome
<1>2. \A i \in 1..Len(makers) : MakerOK(makers[i])'
  BY <1>1 DEF TermsInv
<1>3. QED
  BY <1>2 DEF TermsInv

LEMMA TermsStep == TermsInv /\ [MarketsNext]_markets => TermsInv'
<1> SUFFICES ASSUME TermsInv, [MarketsNext]_markets PROVE TermsInv'
  OBVIOUS
<1>1. CASE UNCHANGED factoryVars
  BY <1>1, TermsRest DEF factoryVars, TermsInv
<1>2. CASE Making
  <2>1. ASSUME NEW u \in Users,
               \/ \E v \in Users : Makers!TransferOwnership(u, v)
               \/ \E t \in Tokens : Makers!SetAllowedCollateralToken(u, t)
               \/ \E f \in Fees : Makers!SetDefaultFee(u, f)
        PROVE  TermsInv'
    BY <2>1, TermsRest, ListsAre DEF TermsInv, Makers!TransferOwnership,
       Makers!SetAllowedCollateralToken, Makers!SetDefaultFee
  <2>2. ASSUME NEW u \in Users, NEW t \in Tokens \union {Makers!AnyToken}, NEW l \in Lists,
               NEW f \in Fees, Makers!CreateFixedProductMarketMaker(u, t, l, f)
        PROVE  TermsInv'
    BY <2>2, MakingKeeps
  <2>3. ASSUME NEW c \in Makers!Conditions, NEW n \in SlotCounts, Makers!PrepareCondition(c, n)
        PROVE  TermsInv'
    BY <2>3, PreparingKeeps
  <2>4. QED
    BY <1>2, <2>1, <2>2, <2>3 DEF Making, Makers!Next
<1>3. QED
  BY <1>1, <1>2 DEF MarketsNext, Creation, Form, Listing, HomePage, markets

LEMMA TermsAreKept ==
  ASSUME TermsInv
  PROVE  Makers!TermsHold
<1> SUFFICES ASSUME NEW m \in Makers!Range(makers)
             PROVE  /\ m.fee <= MAX_FEE
                    /\ m.token \in {Makers!AnyToken, m.collateralToken} /\ m.asked \in {0, m.fee}
                    /\ Makers!Complete(m)
  BY DEF Makers!TermsHold
<1>1. MakerOK(m) /\ m \in MakerTerms
  <2>1. makers \in Seq(MakerTerms) /\ DOMAIN makers = 1..Len(makers)
    BY LenProperties DEF TermsInv
  <2>2. PICK i \in 1..Len(makers) : m = makers[i]
    BY <2>1 DEF Makers!Range
  <2>3. QED
    BY <2>1, <2>2, ElementOfSeq DEF TermsInv
<1> DEFINE C == Makers!Range(m.conditions)
           P == m.positionIds
<1>2. C = Elements(m.conditions)
  BY <1>1, ListsAre DEF MakerTerms
<1> HIDE DEF C, P
<1>3. ListsOutcomes(P, C)
  BY <1>1, <1>2 DEF MakerOK, P
<1>4. DOMAIN P = 1..Len(P)
  BY <1>3, LenProperties DEF ListsOutcomes
<1>5. Makers!IsInjective(P)
  BY <1>3, <1>4 DEF ListsOutcomes, OnceEach, Makers!IsInjective
<1>6. Makers!Range(P) = Elements(P)
  BY <1>4 DEF Makers!Range, Elements
<1>7. Makers!Range(P) = Joint(C)
  BY <1>3, <1>6 DEF ListsOutcomes
<1>8. Makers!Range(P) = {{<<c, f[c]>> : c \in C} : f \in
          {f \in [C -> UNION {1..slots[c] : c \in C}] : \A c \in C : f[c] <= slots[c]}}
  BY <1>7 DEF Joint, Outcome, Choices
<1>9. Makers!Complete(m)
  BY <1>5, <1>8 DEF Makers!Complete, C, P
<1>10. QED
  BY <1>1, <1>9 DEF MakerOK

\* For any callers, tokens, fees, slots and lists that name each condition once:
\* a market maker has the terms its caller asked for, and every joint outcome of
\* its conditions once, whatever changes afterwards.
THEOREM TermsAlwaysHold == MarketsSpec => []Makers!TermsHold
<1>1. MarketsSpec => []TermsInv
  BY TermsInitially, TermsStep, PTL DEF MarketsSpec
<1>2. TermsInv => Makers!TermsHold
  BY TermsAreKept
<1>3. QED
  BY <1>1, <1>2, PTL

\* What a visitor sees of the markets is no older than what was there, and a
\* market maker has the terms its caller was given, for any number of markets,
\* visits, callers and failures.
THEOREM MarketsStayTrue == MarketsSpec => MarketsTrue
<1>1. MarketsSpec => Page!ListTrue
  BY ListStaysTrue
<1>2. MarketsSpec => []Home!CardTrue
  BY CardStaysTrue
<1>3. MarketsSpec => []Makers!TermsHold
  BY TermsAlwaysHold
<1>4. QED
  BY <1>1, <1>2, <1>3 DEF MarketsTrue
===============================================================================
