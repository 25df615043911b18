--------------------------- MODULE ReconcileProofs ---------------------------
(***************************************************************************)
(* Theorems about Reconcile, for any pools, chain and configuration, any   *)
(* number of cycles in flight, of failed calls and of restarts; and about  *)
(* the sockets that MC_Reconcile runs beside it (LiveUpdates), for any     *)
(* number of sockets, mounts and failures.                                 *)
(***************************************************************************)
EXTENDS MC_Reconcile, WellFoundedInduction, TLAPS

States == {"idle", "head", "markets", "idling", "window", "logs", "apply", "store"}
CycleType == [pc : States, safe : 0..MaxBlock, known : SUBSET Pools,
              cursor : 0..MaxBlock, to : 0..MaxBlock, todo : SUBSET Events]

\* What has a row or was given up, and what it has to contain: every event up
\* to block b.
Settled == Recorded \union passed
UpTo(b, S) == \A e \in Events : BlockOf[e] <= b => e \in S

\* A cycle's cursor passes nothing, what its window still lacks is in its hands,
\* and it applies events of pools in M only.
CycleOK(W, S, M) ==
    /\ W.pc = "idling" => UpTo(W.safe, S)
    /\ W.pc \in {"window", "logs", "apply", "store"} => UpTo(W.cursor, S)
    /\ W.pc \in {"logs", "apply"} => Between(W.cursor, W.to) \subseteq S \union W.todo
    /\ W.pc = "apply" => \A e \in W.todo : PoolOf[e] \in M

ReconInv ==
    /\ TypeOK
    /\ UpTo(kv, Settled) /\ UpTo(indexed, Settled)
    /\ \A c \in Cycles : CycleOK(cycle[c], Settled, DOMAIN mem)

-----------------------------------------------------------------------------
(* Blocks, events and what is known of them. *)

LEMMA Numbers ==
    /\ MaxBlock \in Nat /\ NumEvents \in Nat /\ Events \subseteq Nat
    /\ \A e \in Events : BlockOf[e] \in Nat /\ BlockOf[e] >= 1 /\ PoolOf[e] \in Pools
    /\ NoRow = -1
    /\ Confirmations \in Nat /\ Batch \in Nat \ {0} /\ JumpThreshold \in Nat
BY ReconcileAssumption DEF Events, NoRow

LEMMA CycleKept ==
    \A W, S, T, M, N : CycleOK(W, S, M) /\ S \subseteq T /\ M \subseteq N => CycleOK(W, T, N)
BY DEF CycleOK, UpTo

LEMMA IdleCycle == Idle \in CycleType /\ Idle.pc = "idle" /\ \A S, M : CycleOK(Idle, S, M)
BY Numbers DEF CycleType, States, Idle, CycleOK

LEMMA SafeHeadIn == head \in 0..MaxBlock => SafeHead \in 0..MaxBlock /\ SafeHead <= head
BY Numbers DEF SafeHead, MaxOf

(* Among events there is a first.                                           *)
LEMMA MinIn ==
    ASSUME NEW S, S \subseteq Events, S # {}
    PROVE  Min(S) \in S
<1> DEFINE R == OpToRel(<, Nat)
<1>1. \E x \in S : \A y \in S : ~ (<<y, x>> \in R)
  BY Numbers, NatLessThanWellFounded, WFMin
<1>2. \A x, y \in Nat : <<y, x>> \in R <=> y < x
  BY DEF OpToRel
<1>3. S \subseteq Nat
  BY Numbers
<1>4. PICK x \in S : \A y \in S : ~(y < x)
  BY <1>1, <1>2, <1>3
<1>5. \A y \in S : x <= y
  BY <1>3, <1>4
<1>6. QED
  BY <1>5 DEF Min

LEMMA MaxIn ==
    ASSUME NEW S, S \subseteq Events, S # {}
    PROVE  \E x \in S : \A y \in S : y <= x
<1> DEFINE R == OpToRel(<, Nat)
           T == {NumEvents - e : e \in S}
<1>1. T \subseteq Nat /\ T # {}
  <2>1. \A e \in S : NumEvents - e \in Nat
    BY ReconcileAssumption DEF Events
  <2>2. QED
    BY <2>1
<1>2. \E x \in T : \A y \in T : ~ (<<y, x>> \in R)
  BY <1>1, NatLessThanWellFounded, WFMin
<1>3. \A x, y \in Nat : <<y, x>> \in R <=> y < x
  BY DEF OpToRel
<1> HIDE DEF R
<1>4. PICK x \in T : \A y \in T : ~(y < x)
  BY <1>1, <1>2, <1>3
<1>5. PICK e \in S : x = NumEvents - e
  OBVIOUS
<1>6. ASSUME NEW d \in S
      PROVE  d <= e
  <2>1. ~(NumEvents - d < NumEvents - e)
    BY <1>4, <1>5
  <2>2. d \in Nat /\ e \in Nat /\ NumEvents \in Nat
    BY Numbers
  <2>3. QED
    BY <2>1, <2>2
<1>7. QED
  BY <1>6

\* What every step keeps.
Keeps ==
    /\ TypeOK'
    /\ UpTo(kv', Settled') /\ UpTo(indexed', Settled')
    /\ \A c \in Cycles : CycleOK(cycle'[c], Settled', DOMAIN mem')

\* Rows stay, what is given up stays given up, and so do loaded reserves.
Grows == Settled \subseteq Settled' /\ DOMAIN mem \subseteq DOMAIN mem'

LEMMA StillSettled == UNCHANGED <<tables, passed>> => Settled' = Settled
BY DEF tables, Settled, Recorded

(* The step of one cycle, which becomes W.                                  *)
LEMMA OneCycle ==
    ASSUME ReconInv, Grows, NEW c \in Cycles, NEW W \in CycleType,
           cycle' = [cycle EXCEPT ![c] = W], CycleOK(W, Settled', DOMAIN mem')
    PROVE  /\ cycle' \in [Cycles -> CycleType]
           /\ \A d \in Cycles : CycleOK(cycle'[d], Settled', DOMAIN mem')
<1>1. cycle \in [Cycles -> CycleType]
  BY DEF ReconInv, TypeOK, CycleType, States
<1>2. \A d \in Cycles : cycle'[d] = IF d = c THEN W ELSE cycle[d]
  BY <1>1
<1>3. \A d \in Cycles : CycleOK(cycle[d], Settled', DOMAIN mem')
  BY CycleKept DEF ReconInv, Grows
<1>4. QED
  BY <1>1, <1>2, <1>3

(* Steps that change a cycle and otherwise no more than what is read here.  *)
LEMMA CycleMoves ==
    ASSUME ReconInv, NEW c \in Cycles, NEW W \in CycleType,
           cycle' = [cycle EXCEPT ![c] = W], CycleOK(W, Settled', DOMAIN mem'),
           Grows, UNCHANGED <<head, rows, tables, up>>, running' \in BOOLEAN,
           mem' = mem, base' = base,
           kv' \in NoRow..MaxBlock, UpTo(kv', Settled'),
           indexed' \in 0..MaxBlock, UpTo(indexed', Settled')
    PROVE  Keeps
<1>1. /\ cycle' \in [Cycles -> CycleType]
      /\ \A d \in Cycles : CycleOK(cycle'[d], Settled', DOMAIN mem')
  BY OneCycle
<1>2. TypeOK'
  BY <1>1 DEF ReconInv, TypeOK, tables, CycleType, States
<1>3. QED
  BY <1>1, <1>2 DEF Keeps

LEMMA NowIs ==
    ASSUME ReconInv, NEW c \in Cycles
    PROVE  /\ cycle[c] \in CycleType /\ cycle \in [Cycles -> CycleType]
           /\ CycleOK(cycle[c], Settled, DOMAIN mem)
           /\ kv \in NoRow..MaxBlock /\ indexed \in 0..MaxBlock /\ head \in 0..MaxBlock
           /\ running \in BOOLEAN /\ rows \subseteq Pools
BY DEF ReconInv, TypeOK, CycleType, States

-----------------------------------------------------------------------------
(* The steps of a cycle. *)

LEMMA TickKeeps ==
    ASSUME ReconInv, NEW c \in Cycles, Tick(c)
    PROVE  Keeps
<1> DEFINE W == [cycle[c] EXCEPT !.pc = "head"]
<1>1. W \in CycleType /\ W.pc = "head"
  BY NowIs DEF CycleType, States
<1>2. cycle' = [cycle EXCEPT ![c] = W] /\ running' = TRUE
      /\ UNCHANGED <<head, rows, kv, tables, up, indexed, mem, base, left, passed>>
  BY NowIs DEF Tick
<1> HIDE DEF W
<1>3. Settled' = Settled /\ Grows
  BY <1>2, StillSettled DEF Grows
<1>4. CycleOK(W, Settled', DOMAIN mem')
  BY <1>1 DEF CycleOK
<1>5. QED
  BY <1>1, <1>2, <1>3, <1>4, NowIs, CycleMoves DEF ReconInv

LEMMA ReadHeadKeeps ==
    ASSUME ReconInv, NEW c \in Cycles, ReadHead(c)
    PROVE  Keeps
<1> DEFINE W == [cycle[c] EXCEPT !.pc = "markets", !.safe = SafeHead]
<1>1. W \in CycleType /\ W.pc = "markets"
  BY NowIs, SafeHeadIn DEF CycleType, States
<1>2. cycle' = [cycle EXCEPT ![c] = W]
      /\ UNCHANGED <<head, rows, kv, tables, up, indexed, running, mem, base, left, passed>>
  BY NowIs DEF ReadHead
<1> HIDE DEF W
<1>3. Settled' = Settled /\ Grows
  BY <1>2, StillSettled DEF Grows
<1>4. CycleOK(W, Settled', DOMAIN mem')
  BY <1>1 DEF CycleOK
<1>5. QED
  BY <1>1, <1>2, <1>3, <1>4, NowIs, CycleMoves DEF ReconInv

(* Everything from block 1 on is given up when no pool is known.            *)
LEMMA ReadMarketsKeeps ==
    ASSUME ReconInv, NEW c \in Cycles, ReadMarkets(c)
    PROVE  Keeps
<1>1. UNCHANGED <<head, rows, kv, tables, up, mem, base>>
  BY DEF ReadMarkets
<1>2. CASE OnlyKnown /\ rows = {}
  <2> DEFINE idling == [cycle[c] EXCEPT !.pc = "idling"]
             W == IF indexed = cycle[c].safe THEN Idle ELSE idling
  <2>1. /\ cycle' = [cycle EXCEPT ![c] = W] /\ running' = FALSE
        /\ indexed' = cycle[c].safe /\ passed' = passed \union Between(0, cycle[c].safe)
    BY <1>2, NowIs DEF ReadMarkets
  <2>2. idling \in CycleType /\ idling.pc = "idling" /\ idling.safe = cycle[c].safe
    BY NowIs DEF CycleType, States
  <2>3. W \in CycleType
    BY <2>2, IdleCycle
  <2>4. Settled' = Settled \union Between(0, cycle[c].safe)
    BY <1>1, <2>1 DEF Settled, Recorded, tables
  <2>5. UpTo(cycle[c].safe, Settled')
    <3>1. \A e \in Events : 0 < BlockOf[e]
      BY Numbers
    <3>2. QED
      BY <2>4, <3>1 DEF UpTo, Between
  <2>6. CycleOK(W, Settled', DOMAIN mem')
    BY <2>2, <2>5, IdleCycle DEF CycleOK
  <2>7. cycle[c].safe \in 0..MaxBlock
    BY NowIs DEF CycleType
  <2>8. Grows /\ UpTo(kv', Settled')
    BY <1>1, <2>4 DEF Grows, ReconInv, UpTo
  <2> HIDE DEF W
  <2>9. QED
    BY <1>1, <2>1, <2>3, <2>5, <2>6, <2>7, <2>8, NowIs, CycleMoves
<1>3. CASE ~(OnlyKnown /\ rows = {})
  <2> DEFINE W == [cycle[c] EXCEPT !.pc = "window", !.known = rows, !.cursor = indexed]
  <2>1. cycle' = [cycle EXCEPT ![c] = W] /\ UNCHANGED <<indexed, running, passed>>
    BY <1>3, NowIs DEF ReadMarkets
  <2>2. W \in CycleType /\ W.pc = "window" /\ W.cursor = indexed
    BY NowIs DEF CycleType, States
  <2> HIDE DEF W
  <2>3. Settled' = Settled /\ Grows
    BY <1>1, <2>1, StillSettled DEF Grows
  <2>4. CycleOK(W, Settled', DOMAIN mem')
    BY <2>2, <2>3 DEF CycleOK, ReconInv
  <2>5. QED
    BY <1>1, <2>1, <2>2, <2>3, <2>4, NowIs, CycleMoves DEF ReconInv
<1>4. QED
  BY <1>2, <1>3

(* A cycle that ends, whatever it stored.                                   *)
LEMMA EndKeeps ==
    ASSUME ReconInv, NEW c \in Cycles, End(c),
           UNCHANGED <<head, rows, tables, up, indexed, mem, base, passed>>,
           kv' \in NoRow..MaxBlock, UpTo(kv', Settled)
    PROVE  Keeps
<1>1. Settled' = Settled /\ Grows
  BY StillSettled DEF Grows
<1>2. cycle' = [cycle EXCEPT ![c] = Idle] /\ running' = FALSE
  BY DEF End
<1>3. QED
  BY <1>1, <1>2, IdleCycle, NowIs, CycleMoves DEF ReconInv

LEMMA StoreIdleKeeps ==
    ASSUME ReconInv, NEW c \in Cycles, StoreIdle(c)
    PROVE  Keeps
<1>1. cycle[c].safe \in NoRow..MaxBlock /\ UpTo(cycle[c].safe, Settled)
  <2>1. cycle[c].safe \in 0..MaxBlock
    BY NowIs DEF CycleType
  <2>2. QED
    BY <2>1, NowIs, Numbers DEF StoreIdle, CycleOK
<1>2. QED
  BY <1>1, NowIs, EndKeeps DEF StoreIdle, ReconInv

LEMMA FetchKeeps ==
    ASSUME ReconInv, NEW c \in Cycles, Fetch(c)
    PROVE  Keeps
<1> DEFINE to == WindowEnd(cycle[c])
           inside == Between(cycle[c].cursor, to)
<1>1. PICK got \in SUBSET inside :
          /\ cycle' = [cycle EXCEPT ![c].pc = "logs", ![c].to = to, ![c].todo = got]
          /\ passed' = passed \union (inside \ got)
  BY DEF Fetch
<1> DEFINE W == [cycle[c] EXCEPT !.pc = "logs", !.to = to, !.todo = got]
<1>2. UNCHANGED <<head, rows, kv, tables, up, indexed, running, mem, base>>
      /\ cycle[c].pc = "window"
  BY DEF Fetch
<1>3. to \in 0..MaxBlock
  <2>1. cycle[c].cursor \in 0..MaxBlock /\ cycle[c].safe \in 0..MaxBlock
    BY NowIs DEF CycleType
  <2>2. QED
    BY <2>1, Numbers DEF WindowEnd, MinOf
<1>4. inside \subseteq Events
  BY DEF Between
<1>5. cycle' = [cycle EXCEPT ![c] = W]
  BY <1>1, NowIs
<1>6. Settled' = Settled \union (inside \ got)
  BY <1>1, <1>2 DEF Settled, Recorded, tables
<1> HIDE DEF to
<1>7. /\ W \in CycleType /\ W.pc = "logs" /\ W.cursor = cycle[c].cursor
      /\ W.to = to /\ W.todo = got
  BY <1>3, <1>4, NowIs DEF CycleType, States
<1> HIDE DEF W
<1>8. Grows /\ UpTo(kv', Settled') /\ UpTo(indexed', Settled')
  BY <1>2, <1>6 DEF Grows, ReconInv, UpTo
<1>9. CycleOK(W, Settled', DOMAIN mem')
  <2>1. UpTo(cycle[c].cursor, Settled)
    BY <1>2, NowIs DEF CycleOK
  <2>2. UpTo(W.cursor, Settled')
    BY <1>6, <1>7, <2>1 DEF UpTo
  <2>3. Between(W.cursor, W.to) \subseteq Settled' \union W.todo
    BY <1>6, <1>7
  <2>4. QED
    BY <1>7, <2>2, <2>3 DEF CycleOK
<1>10. QED
  BY <1>2, <1>5, <1>7, <1>8, <1>9, NowIs, CycleMoves

LEMMA FinishKeeps ==
    ASSUME ReconInv, NEW c \in Cycles, Finish(c) \/ Abort(c)
    PROVE  Keeps
<1>1. End(c) /\ UNCHANGED <<head, rows, kv, tables, up, indexed, mem, base, passed>>
  BY DEF Finish, Abort
<1>2. QED
  BY <1>1, NowIs, EndKeeps DEF ReconInv

LEMMA MoveCursorKeeps ==
    ASSUME ReconInv, NEW c \in Cycles, MoveCursor(c)
    PROVE  Keeps
<1> DEFINE W == [cycle[c] EXCEPT !.pc = "store", !.cursor = cycle[c].to]
<1>1. /\ W \in CycleType /\ W.pc = "store" /\ W.cursor = cycle[c].to
      /\ cycle[c].to \in 0..MaxBlock
  BY NowIs DEF CycleType, States
<1>2. /\ cycle' = [cycle EXCEPT ![c] = W] /\ indexed' = cycle[c].to
      /\ UNCHANGED <<head, rows, kv, tables, up, running, mem, base, passed>>
      /\ cycle[c].pc = "apply" /\ cycle[c].todo = {}
  BY NowIs DEF MoveCursor
<1> HIDE DEF W
<1>3. Settled' = Settled /\ Grows
  BY <1>2, StillSettled DEF Grows
<1>4. UpTo(cycle[c].to, Settled)
  <2>1. UpTo(cycle[c].cursor, Settled) /\ Between(cycle[c].cursor, cycle[c].to) \subseteq Settled
    BY <1>2, NowIs DEF CycleOK
  <2>2. cycle[c].cursor \in Nat
    BY NowIs DEF CycleType
  <2>3. ASSUME NEW e \in Events, BlockOf[e] <= cycle[c].to
        PROVE  e \in Settled
    <3>1. CASE BlockOf[e] <= cycle[c].cursor
      BY <2>1, <3>1 DEF UpTo
    <3>2. CASE cycle[c].cursor < BlockOf[e]
      BY <2>1, <2>3, <3>2 DEF Between
    <3>3. BlockOf[e] \in Nat
      BY Numbers
    <3>4. QED
      BY <2>2, <3>1, <3>2, <3>3
  <2>4. QED
    BY <2>3 DEF UpTo
<1>5. CycleOK(W, Settled', DOMAIN mem')
  BY <1>1, <1>3, <1>4 DEF CycleOK
<1>6. QED
  BY <1>1, <1>2, <1>3, <1>4, <1>5, NowIs, CycleMoves DEF ReconInv

LEMMA StoreCursorKeeps ==
    ASSUME ReconInv, NEW c \in Cycles, StoreCursor(c)
    PROVE  Keeps
<1> DEFINE W == [cycle[c] EXCEPT !.pc = "window"]
<1>1. /\ W \in CycleType /\ W.pc = "window" /\ W.cursor = cycle[c].cursor
      /\ cycle[c].cursor \in NoRow..MaxBlock
  <2>1. cycle[c].cursor \in 0..MaxBlock
    BY NowIs DEF CycleType
  <2>2. QED
    BY <2>1, NowIs, Numbers DEF CycleType, States
<1>2. /\ cycle' = [cycle EXCEPT ![c] = W] /\ kv' \in {kv, cycle[c].cursor}
      /\ UNCHANGED <<head, rows, tables, up, indexed, running, mem, base, passed>>
      /\ cycle[c].pc = "store"
  BY NowIs DEF StoreCursor
<1> HIDE DEF W
<1>3. Settled' = Settled /\ Grows
  BY <1>2, StillSettled DEF Grows
<1>4. UpTo(cycle[c].cursor, Settled)
  BY <1>2, NowIs DEF CycleOK
<1>5. CycleOK(W, Settled', DOMAIN mem')
  BY <1>1, <1>3, <1>4 DEF CycleOK
<1>6. QED
  BY <1>1, <1>2, <1>3, <1>4, <1>5, NowIs, CycleMoves DEF ReconInv

-----------------------------------------------------------------------------
(* Reserves in memory and rows. *)

Counts == [Events -> Nat]

LEMMA TableTypes ==
    ASSUME ReconInv
    PROVE  /\ DOMAIN liq \subseteq Funding /\ Funding \subseteq Events
           /\ \A e \in DOMAIN liq : liq[e] \in Counts
           /\ DOMAIN mem \subseteq Pools /\ \A p \in DOMAIN mem : mem[p] \in Counts
           /\ DOMAIN base = DOMAIN mem /\ \A p \in DOMAIN base : base[p] \in Counts
           /\ trades \subseteq Events \ Funding /\ volume \in Counts
BY ReconcileAssumption DEF ReconInv, TypeOK, Counts

LEMMA BaseIsCounts ==
    ASSUME ReconInv, NEW p
    PROVE  BaseReserves(p) \subseteq Counts
<1>1. LatestReserves(p) \in Counts
  <2>1. CASE Stored(p) = {}
    BY <2>1 DEF LatestReserves, Counts
  <2>2. CASE Stored(p) # {}
    <3>1. Stored(p) \subseteq DOMAIN liq /\ Stored(p) \subseteq Events
      BY TableTypes DEF Stored
    <3>2. \E x \in Stored(p) : \A y \in Stored(p) : y <= x
      BY <2>2, <3>1, MaxIn
    <3> DEFINE e == CHOOSE x \in Stored(p) : \A y \in Stored(p) : y <= x
    <3>3. e \in DOMAIN liq
      BY <3>1, <3>2
    <3>4. LatestReserves(p) = liq[e]
      BY <2>2 DEF LatestReserves
    <3> HIDE DEF e
    <3>5. QED
      BY <3>3, <3>4, TableTypes
  <2>3. QED
    BY <2>1, <2>2
<1>2. None \in Counts
  BY DEF None, Counts
<1>3. QED
  BY <1>1, <1>2 DEF BaseReserves

(* The step of a cycle that loads reserves or applies an event.             *)
LEMMA MemMoves ==
    ASSUME ReconInv, NEW c \in Cycles, NEW W \in CycleType,
           cycle' = [cycle EXCEPT ![c] = W], CycleOK(W, Settled', DOMAIN mem'),
           Grows, UNCHANGED <<head, rows, kv, up, indexed, running>>,
           trades' \subseteq Events \ Funding, volume' \in Counts,
           DOMAIN liq' \subseteq Funding, \A e \in DOMAIN liq' : liq'[e] \in Counts,
           DOMAIN mem' \subseteq Pools, \A p \in DOMAIN mem' : mem'[p] \in Counts,
           DOMAIN base' = DOMAIN mem', \A p \in DOMAIN base' : base'[p] \in Counts
    PROVE  Keeps
<1>1. /\ cycle' \in [Cycles -> CycleType]
      /\ \A d \in Cycles : CycleOK(cycle'[d], Settled', DOMAIN mem')
  BY OneCycle
<1>2. TypeOK'
  BY <1>1 DEF ReconInv, TypeOK, CycleType, States, Counts
<1>3. UpTo(kv', Settled') /\ UpTo(indexed', Settled')
  BY DEF ReconInv, UpTo, Grows
<1>4. QED
  BY <1>1, <1>2, <1>3 DEF Keeps

\* ensureMarketState for the pools of new, which reads read.
Loads(new, read) ==
    /\ mem' = [p \in DOMAIN mem \union new |-> IF p \in new THEN read[p] ELSE mem[p]]
    /\ base' = [p \in DOMAIN mem \union new |-> IF p \in new THEN read[p] ELSE base[p]]

LEMMA EnsureKeeps ==
    ASSUME ReconInv, NEW c \in Cycles, EnsureMarketState(c)
    PROVE  Keeps
<1> DEFINE new == {PoolOf[e] : e \in cycle[c].todo} \ DOMAIN mem
           V == [cycle[c] EXCEPT !.pc = "apply"]
           kept == {e \in cycle[c].todo : PoolOf[e] \notin new}
           W == [cycle[c] EXCEPT !.pc = "apply", !.todo = kept]
<1>1. UNCHANGED <<head, rows, kv, tables, up, indexed, running>> /\ cycle[c].pc = "logs"
  BY DEF EnsureMarketState
<1>2. /\ cycle[c].todo \subseteq Events /\ UpTo(cycle[c].cursor, Settled)
      /\ Between(cycle[c].cursor, cycle[c].to) \subseteq Settled \union cycle[c].todo
  BY <1>1, NowIs DEF CycleOK, CycleType
<1>3. /\ V \in CycleType /\ V.pc = "apply" /\ V.todo = cycle[c].todo
      /\ V.cursor = cycle[c].cursor /\ V.to = cycle[c].to
  BY NowIs DEF CycleType, States
<1>4. /\ W \in CycleType /\ W.pc = "apply" /\ W.todo = kept
      /\ W.cursor = cycle[c].cursor /\ W.to = cycle[c].to
  <2>1. kept \subseteq Events
    BY <1>2
  <2> HIDE DEF kept
  <2>2. QED
    BY <2>1, NowIs DEF CycleType, States
<1>5. new \subseteq Pools
  BY <1>2, Numbers
<1>6. CASE /\ \E read \in [new -> UNION {BaseReserves(p) : p \in new}] : Loads(new, read)
           /\ cycle' = [cycle EXCEPT ![c].pc = "apply"]
           /\ UNCHANGED <<left, passed>>
  <2>1. PICK read \in [new -> UNION {BaseReserves(p) : p \in new}] : Loads(new, read)
    BY <1>6
  <2>2. \A p \in new : read[p] \in Counts
    <3>1. UNION {BaseReserves(p) : p \in new} \subseteq Counts
      BY BaseIsCounts
    <3> HIDE DEF new
    <3>2. QED
      BY <3>1
  <2>3. /\ DOMAIN mem' = DOMAIN mem \union new /\ DOMAIN mem' \subseteq Pools
        /\ \A p \in DOMAIN mem' : mem'[p] \in Counts
        /\ DOMAIN base' = DOMAIN mem' /\ \A p \in DOMAIN base' : base'[p] \in Counts
    <3> HIDE DEF new
    <3>1. QED
      BY <1>5, <2>1, <2>2, TableTypes DEF Loads
  <2>4. cycle' = [cycle EXCEPT ![c] = V]
    BY <1>6, NowIs
  <2>5. Settled' = Settled /\ Grows
    BY <1>1, <1>6, <2>3, StillSettled DEF Grows
  <2>6. \A e \in V.todo : PoolOf[e] \in DOMAIN mem'
    BY <1>3, <2>3
  <2> HIDE DEF new, V
  <2>7. CycleOK(V, Settled', DOMAIN mem')
    BY <1>2, <1>3, <2>5, <2>6 DEF CycleOK
  <2>8. QED
    BY <1>1, <1>3, <2>3, <2>4, <2>5, <2>7, MemMoves, TableTypes DEF tables
<1>7. CASE /\ cycle' = [cycle EXCEPT ![c].pc = "apply", ![c].todo = kept]
           /\ passed' = passed \union {e \in cycle[c].todo : PoolOf[e] \in new}
           /\ UNCHANGED <<mem, base>>
  <2>1. cycle' = [cycle EXCEPT ![c] = W]
    BY <1>7, NowIs
  <2>2. Settled' = Settled \union {e \in cycle[c].todo : PoolOf[e] \in new}
    BY <1>1, <1>7 DEF Settled, Recorded, tables
  <2>3. Grows
    BY <1>7, <2>2 DEF Grows
  <2>4. \A e \in kept : PoolOf[e] \in DOMAIN mem'
    BY <1>7
  <2>5. cycle[c].todo \subseteq kept \union {e \in cycle[c].todo : PoolOf[e] \in new}
    OBVIOUS
  <2> HIDE DEF new, kept, W
  <2>6. CycleOK(W, Settled', DOMAIN mem')
    BY <1>2, <1>4, <2>2, <2>4, <2>5 DEF CycleOK, UpTo
  <2>7. QED
    BY <1>1, <1>4, <1>7, <2>1, <2>3, <2>6, MemMoves, TableTypes DEF tables
<1>8. QED
  <2>1. \/ /\ \E read \in [new -> UNION {BaseReserves(p) : p \in new}] : Loads(new, read)
           /\ cycle' = [cycle EXCEPT ![c].pc = "apply"]
           /\ UNCHANGED <<left, passed>>
        \/ /\ cycle' = [cycle EXCEPT ![c].pc = "apply", ![c].todo = kept]
           /\ passed' = passed \union {e \in cycle[c].todo : PoolOf[e] \in new}
           /\ UNCHANGED <<mem, base>>
    BY DEF EnsureMarketState, Loads
  <2>2. QED
    BY <1>6, <1>7, <2>1

(* What an event adds to its pool's reserves.                               *)
LEMMA CountOne ==
    ASSUME NEW n \in Counts, NEW e \in Events
    PROVE  [n EXCEPT ![e] = @ + 1] \in Counts
BY DEF Counts

LEMMA HandleKeeps ==
    ASSUME ReconInv, NEW c \in Cycles, HandleFpmmEvent(c)
    PROVE  Keeps
<1> DEFINE e == Min(cycle[c].todo)
           reserves == [mem[PoolOf[e]] EXCEPT ![e] = @ + 1]
           rest == cycle[c].todo \ {e}
           W == [cycle[c] EXCEPT !.todo = rest]
<1>1. /\ cycle[c].pc = "apply" /\ cycle[c].todo # {}
      /\ mem' = [mem EXCEPT ![PoolOf[e]] = reserves]
      /\ IF e \in Funding THEN RecordFunding(e, reserves) ELSE RecordTrade(e)
      /\ cycle' = [cycle EXCEPT ![c].todo = rest]
      /\ UNCHANGED <<head, rows, kv, up, indexed, running, left, passed, base>>
  BY DEF HandleFpmmEvent
<1>2. /\ cycle[c].todo \subseteq Events /\ UpTo(cycle[c].cursor, Settled)
      /\ Between(cycle[c].cursor, cycle[c].to) \subseteq Settled \union cycle[c].todo
      /\ \A d \in cycle[c].todo : PoolOf[d] \in DOMAIN mem
  BY <1>1, NowIs DEF CycleOK, CycleType
<1>3. e \in cycle[c].todo /\ e \in Events /\ PoolOf[e] \in DOMAIN mem
  BY <1>1, <1>2, MinIn
<1>4. reserves \in Counts
  BY <1>3, TableTypes, CountOne
<1> HIDE DEF e, reserves
<1>5. /\ DOMAIN mem' = DOMAIN mem
      /\ \A p \in DOMAIN mem' : mem'[p] \in Counts
  BY <1>1, <1>3, <1>4, TableTypes
<1>6. cycle' = [cycle EXCEPT ![c] = W]
  BY <1>1, NowIs
<1>7. /\ W \in CycleType /\ W.pc = "apply" /\ W.todo = rest
      /\ W.cursor = cycle[c].cursor /\ W.to = cycle[c].to
  <2>1. rest \subseteq Events
    BY <1>2
  <2> HIDE DEF rest
  <2>2. QED
    BY <1>1, <2>1, NowIs DEF CycleType
<1>8. /\ Recorded' = Recorded \union {e}
      /\ trades' \subseteq Events \ Funding /\ volume' \in Counts
      /\ DOMAIN liq' \subseteq Funding /\ \A d \in DOMAIN liq' : liq'[d] \in Counts
  <2>1. CASE e \in Funding
    <3>1. UNCHANGED <<trades, volume>>
          /\ liq' = IF e \in DOMAIN liq THEN liq
                    ELSE [d \in DOMAIN liq \union {e} |-> IF d = e THEN reserves ELSE liq[d]]
      BY <1>1, <2>1 DEF RecordFunding
    <3>2. DOMAIN liq' = DOMAIN liq \union {e} /\ \A d \in DOMAIN liq' : liq'[d] \in Counts
      BY <1>4, <3>1, TableTypes
    <3>3. QED
      BY <2>1, <3>1, <3>2, TableTypes DEF Recorded
  <2>2. CASE e \notin Funding
    <3>1. trades' = trades \union {e} /\ volume' = [volume EXCEPT ![e] = @ + 1] /\ UNCHANGED liq
      BY <1>1, <2>2 DEF RecordTrade
    <3>2. volume' \in Counts
      BY <1>3, <3>1, TableTypes, CountOne
    <3>3. QED
      BY <1>3, <2>2, <3>1, <3>2, TableTypes DEF Recorded
  <2>3. QED
    BY <2>1, <2>2
<1>9. Settled' = Settled \union {e}
  BY <1>1, <1>8 DEF Settled
<1>10. Grows
  BY <1>5, <1>9 DEF Grows
<1>11. CycleOK(W, Settled', DOMAIN mem')
  <2>1. UpTo(W.cursor, Settled')
    BY <1>2, <1>7, <1>9 DEF UpTo
  <2>2. Between(W.cursor, W.to) \subseteq Settled' \union W.todo
    BY <1>2, <1>7, <1>9
  <2>3. \A d \in W.todo : PoolOf[d] \in DOMAIN mem'
    BY <1>2, <1>5, <1>7
  <2>4. QED
    BY <1>7, <2>1, <2>2, <2>3 DEF CycleOK
<1> HIDE DEF W
<1>12. DOMAIN mem' \subseteq Pools
  BY <1>5, TableTypes
<1>13. QED
  BY <1>1, <1>5, <1>6, <1>7, <1>8, <1>10, <1>11, <1>12, MemMoves, TableTypes

(* A statement that fails leaves the event in memory, and perhaps a trade.  *)
LEMMA HandleFailsKeeps ==
    ASSUME ReconInv, NEW c \in Cycles, HandleFails(c)
    PROVE  Keeps
<1> DEFINE e == Min(cycle[c].todo)
           reserves == [mem[PoolOf[e]] EXCEPT ![e] = @ + 1]
<1>1. /\ cycle[c].pc = "apply" /\ cycle[c].todo # {}
      /\ mem' = [mem EXCEPT ![PoolOf[e]] = reserves]
      /\ \/ UNCHANGED trades
         \/ e \notin Funding /\ trades' = trades \union {e}
      /\ cycle' = [cycle EXCEPT ![c] = Idle] /\ running' = FALSE
      /\ UNCHANGED <<head, rows, kv, liq, volume, up, indexed, passed, base>>
  BY DEF HandleFails, End
<1>2. /\ cycle[c].todo \subseteq Events
      /\ \A d \in cycle[c].todo : PoolOf[d] \in DOMAIN mem
  BY <1>1, NowIs DEF CycleOK, CycleType
<1>3. e \in cycle[c].todo /\ e \in Events /\ PoolOf[e] \in DOMAIN mem
  BY <1>1, <1>2, MinIn
<1>4. reserves \in Counts
  BY <1>3, TableTypes, CountOne
<1> HIDE DEF e, reserves
<1>5. DOMAIN mem' = DOMAIN mem /\ \A p \in DOMAIN mem' : mem'[p] \in Counts
  BY <1>1, <1>3, <1>4, TableTypes
<1>6. trades' \subseteq Events \ Funding /\ Settled \subseteq Settled'
  BY <1>1, <1>3, TableTypes DEF Settled, Recorded
<1>7. /\ cycle' \in [Cycles -> CycleType]
      /\ \A d \in Cycles : CycleOK(cycle'[d], Settled', DOMAIN mem')
  BY <1>1, <1>5, <1>6, IdleCycle, OneCycle DEF Grows
<1>8. TypeOK'
  <2>1. running' \in BOOLEAN
    BY <1>1, Zenon
  <2>2. QED
    BY <1>1, <1>5, <1>6, <1>7, <2>1 DEF ReconInv, TypeOK, CycleType, States, Counts
<1>9. QED
  BY <1>1, <1>6, <1>7, <1>8 DEF Keeps, ReconInv, UpTo

-----------------------------------------------------------------------------
(* The worker's start, its restart and the chain. *)

(* A start reads where to go on, and gives up whatever it jumps over.       *)
LEMMA StartKeeps ==
    ASSUME ReconInv, Start
    PROVE  Keeps
<1>1. PICK readable \in BOOLEAN, stored \in BOOLEAN :
          LET was == IF kv # NoRow /\ readable THEN kv ELSE StartingBlock
          IN  /\ indexed' = JumpTo(was)
              /\ kv' = IF indexed' # was /\ stored THEN indexed' ELSE kv
              /\ passed' = passed \union Between(IF kv = NoRow THEN 0 ELSE kv, indexed')
  BY DEF Start
<1> DEFINE was == IF kv # NoRow /\ readable THEN kv ELSE StartingBlock
<1>2. UNCHANGED <<head, rows, tables, running, mem, base, cycle>> /\ up' = TRUE
  BY DEF Start
<1>3. was \in 0..MaxBlock
  <2>1. kv \in NoRow..MaxBlock /\ head \in 0..MaxBlock
    BY DEF ReconInv, TypeOK
  <2>2. StartingBlock \in 0..MaxBlock
    BY <2>1, Numbers DEF StartingBlock, MaxOf
  <2>3. QED
    BY <2>1, <2>2, Numbers
<1>4. indexed' \in 0..MaxBlock
  <2>1. SafeHead \in 0..MaxBlock
    BY SafeHeadIn DEF ReconInv, TypeOK
  <2>2. MaxOf(SafeHead - 2, 0) \in 0..MaxBlock
    BY <2>1, Numbers DEF MaxOf
  <2>3. JumpTo(was) \in {was, MaxOf(SafeHead - 2, 0)}
    BY DEF JumpTo
  <2>4. QED
    BY <1>1, <1>3, <2>2, <2>3
<1>5. kv' \in {kv, indexed'}
  BY <1>1
<1>6. kv' \in NoRow..MaxBlock
  BY <1>4, <1>5, Numbers DEF ReconInv, TypeOK
<1> DEFINE low == IF kv = NoRow THEN 0 ELSE kv
<1>7. Settled' = Settled \union Between(low, indexed')
  BY <1>1, <1>2 DEF Settled, Recorded, tables
<1>8. UpTo(indexed', Settled')
  <2>1. ASSUME NEW e \in Events, BlockOf[e] <= indexed'
        PROVE  e \in Settled'
    <3>1. CASE low < BlockOf[e]
      BY <1>7, <2>1, <3>1 DEF Between
    <3>2. CASE BlockOf[e] <= low
      <4>1. low # 0
        BY <3>2, Numbers
      <4>2. low = kv
        BY <4>1
      <4>3. QED
        BY <1>7, <3>2, <4>2 DEF ReconInv, UpTo
    <3>3. low \in Int /\ BlockOf[e] \in Int
      BY Numbers DEF ReconInv, TypeOK
    <3>4. QED
      BY <3>1, <3>2, <3>3
  <2>2. QED
    BY <2>1 DEF UpTo
<1>9. UpTo(kv', Settled')
  BY <1>5, <1>7, <1>8 DEF ReconInv, UpTo
<1>10. \A c \in Cycles : CycleOK(cycle'[c], Settled', DOMAIN mem')
  BY <1>2, <1>7, CycleKept DEF ReconInv
<1>11. TypeOK'
  BY <1>2, <1>4, <1>6 DEF ReconInv, TypeOK, tables
<1>12. QED
  BY <1>8, <1>9, <1>10, <1>11 DEF Keeps

LEMMA RestartKeeps ==
    ASSUME ReconInv, Restart
    PROVE  Keeps
<1>1. /\ up' = FALSE /\ indexed' = 0 /\ running' = FALSE /\ mem' = <<>>
      /\ cycle' = [c \in Cycles |-> Idle]
      /\ UNCHANGED <<head, rows, kv, tables, passed>> /\ base' = <<>>
  BY DEF Restart
<1>2. cycle' \in [Cycles -> CycleType] /\ \A c \in Cycles : cycle'[c] = Idle
  BY <1>1, IdleCycle
<1>3. 0 \in 0..MaxBlock /\ UpTo(0, Settled')
  <2>1. \A e \in Events : ~(BlockOf[e] <= 0)
    BY Numbers
  <2>2. QED
    BY <2>1, Numbers DEF UpTo
<1>4. TypeOK'
  <2>1. mem' = <<>> /\ base' = <<>> /\ DOMAIN mem' = {} /\ DOMAIN base' = {}
    BY <1>1
  <2>2. /\ DOMAIN mem' \subseteq Pools /\ \A p \in DOMAIN mem' : mem'[p] \in [Events -> Nat]
        /\ DOMAIN base' = DOMAIN mem' /\ \A p \in DOMAIN base' : base'[p] \in [Events -> Nat]
    BY <2>1
  <2>3. up' \in BOOLEAN /\ running' \in BOOLEAN
    BY <1>1, Zenon
  <2>4. cycle' \in [Cycles -> CycleType] /\ indexed' \in 0..MaxBlock
    BY <1>1, <1>2, <1>3
  <2>5. UNCHANGED <<head, rows, kv, trades, liq, volume>>
    BY <1>1 DEF tables
  <2>6. QED
    BY <2>2, <2>3, <2>4, <2>5 DEF ReconInv, TypeOK, CycleType, States
<1>5. UpTo(kv', Settled')
  BY <1>1, StillSettled DEF ReconInv
<1>6. QED
  BY <1>1, <1>2, <1>3, <1>4, <1>5, IdleCycle DEF Keeps

LEMMA OutsideKeeps ==
    ASSUME ReconInv, Mine \/ \E p \in Pools : AddRow(p)
    PROVE  Keeps
<1>1. UNCHANGED <<kv, tables, memory, passed, base>>
  BY DEF Mine, AddRow
<1>2. Settled' = Settled
  BY <1>1, StillSettled
<1>3. head' \in 0..MaxBlock /\ rows' \subseteq Pools
  BY Numbers DEF Mine, AddRow, ReconInv, TypeOK
<1>4. TypeOK'
  BY <1>1, <1>3 DEF ReconInv, TypeOK, tables, memory
<1>5. QED
  BY <1>1, <1>2, <1>4 DEF Keeps, ReconInv, memory

-----------------------------------------------------------------------------
(* The invariant. *)

LEMMA NextReconInv == ReconInv /\ [Next]_vars => ReconInv'
<1> SUFFICES ASSUME ReconInv, [Next]_vars PROVE ReconInv'
  OBVIOUS
<1>1. CASE UNCHANGED vars
  <2>1. UNCHANGED <<head, rows, kv, tables, memory, passed, base>>
    BY <1>1 DEF vars, work
  <2>2. Settled' = Settled
    BY <2>1, StillSettled
  <2>3. QED
    BY <2>1, <2>2 DEF ReconInv, TypeOK, tables, memory
<1>2. ASSUME NEW c \in Cycles, CycleStep(c) \/ Abort(c) \/ HandleFails(c)
      PROVE  Keeps
  BY <1>2, TickKeeps, ReadHeadKeeps, ReadMarketsKeeps, StoreIdleKeeps, FetchKeeps,
     EnsureKeeps, HandleKeeps, HandleFailsKeeps, MoveCursorKeeps, StoreCursorKeeps, FinishKeeps DEF CycleStep
<1>3. CASE Next
  <2>1. Keeps
    BY <1>2, <1>3, StartKeeps, RestartKeeps, OutsideKeeps DEF Next
  <2>2. QED
    BY <2>1 DEF Keeps, ReconInv
<1>4. QED
  BY <1>1, <1>3

LEMMA InitReconInv == Init => ReconInv
<1> SUFFICES ASSUME Init PROVE ReconInv
  OBVIOUS
<1>1. cycle \in [Cycles -> CycleType] /\ \A c \in Cycles : cycle[c] = Idle
  BY IdleCycle DEF Init
<1>2. 0 \in 0..MaxBlock /\ NoRow \in NoRow..MaxBlock
  BY Numbers
<1>3. TypeOK
  <2>1. DOMAIN mem = {} /\ DOMAIN liq = {} /\ DOMAIN base = {}
    BY DEF Init
  <2>2. None \in [Events -> Nat]
    BY DEF None
  <2>3. up \in BOOLEAN /\ running \in BOOLEAN
    BY Zenon DEF Init
  <2>4. /\ head \in 0..MaxBlock /\ rows \subseteq Pools /\ kv \in NoRow..MaxBlock
        /\ trades \subseteq Events \ Funding /\ volume \in [Events -> Nat]
        /\ indexed \in 0..MaxBlock
    BY <1>2, <2>2 DEF Init
  <2>5. QED
    BY <1>1, <2>1, <2>3, <2>4 DEF TypeOK, CycleType, States
<1>4. UpTo(kv, Settled) /\ UpTo(indexed, Settled)
  <2>1. \A e \in Events : ~(BlockOf[e] <= 0) /\ ~(BlockOf[e] <= NoRow)
    BY Numbers
  <2>2. QED
    BY <2>1 DEF Init, UpTo
<1>5. QED
  BY <1>1, <1>3, <1>4, IdleCycle DEF ReconInv

LEMMA ReconInvariant == Spec => []ReconInv
BY InitReconInv, NextReconInv, PTL DEF Spec

(* Types, for any pools, chain and configuration: the cursor stays on the    *)
(* chain and a window's logs are events of it.                              *)
THEOREM TypeCorrect == Spec => []TypeOK
<1>1. ReconInv => TypeOK
  BY DEF ReconInv
<1>2. QED
  BY <1>1, ReconInvariant, PTL

(* For any number of failures, restarts and overlapping cycles, neither the  *)
(* cursor in system_kv nor the one in memory is above an event that has no   *)
(* row and that the code did not give up.                                   *)
THEOREM CursorIsHonest == Spec => []CursorHonest
<1>1. ReconInv => CursorHonest
  <2> SUFFICES ASSUME ReconInv, NEW e \in Events, BlockOf[e] <= MaxOf(kv, indexed)
               PROVE  e \in Recorded \union passed
    BY DEF CursorHonest
  <2>1. MaxOf(kv, indexed) \in {kv, indexed}
    BY DEF MaxOf
  <2>2. QED
    BY <2>1 DEF ReconInv, UpTo, Settled
<1>2. QED
  BY <1>1, ReconInvariant, PTL
-----------------------------------------------------------------------------
(* Counting.  As long as nothing disturbs the worker its cycles follow one    *)
(* another, and an event is counted by the one window that holds it.          *)

\* Events that no volume has, and of reserves only what they were read with.
Fresh == {e \in Events : volume[e] = 0 /\ \A p \in DOMAIN mem : mem[p][e] = base[p][e]}

\* A window with cursor i that may ask for pools of R: its logs are above the
\* cursor, inside the window and not yet counted.
WindowOK(W, i, R, F) ==
    /\ W.pc \in {"window", "logs", "apply", "store"} => W.cursor = i /\ W.known \subseteq R
    /\ W.pc \in {"logs", "apply"} =>
          /\ W.cursor <= W.to
          /\ \A e \in W.todo : BlockOf[e] > i /\ BlockOf[e] <= W.to /\ e \in F
          /\ W.todo # {} => R # {}

\* Above the cursor only the window being applied has counted anything.
AheadOK(V, i, F) ==
    \A e \in Events : BlockOf[e] > i => e \in F \/ (V.pc = "apply" /\ BlockOf[e] <= V.to)

OneAtATime ==
    /\ \A c, d \in Cycles : cycle[c].pc # "idle" /\ cycle[d].pc # "idle" => c = d
    /\ \A c \in Cycles : cycle[c].pc # "idle" => up
    /\ \A c \in Cycles : cycle[c].pc \notin {"idle", "idling"} => running

\* Without a pool nothing was counted; reserves of a row are in memory.
TablesOK ==
    /\ ~up \/ rows = {} => DOMAIN mem = {} /\ DOMAIN liq = {} /\ \A e \in Events : volume[e] = 0
    /\ \A e \in DOMAIN liq : PoolOf[e] \in DOMAIN mem
    /\ \A e \in Events : volume[e] <= 1
    /\ \A p \in DOMAIN mem, e \in Events : mem[p][e] <= base[p][e] + 1

Undisturbed ==
    /\ OneAtATime
    /\ TablesOK
    /\ \A c \in Cycles : WindowOK(cycle[c], indexed, rows, Fresh)
    /\ \A e \in Events :
           BlockOf[e] > indexed =>
               e \in Fresh \/ \E c \in Cycles : cycle[c].pc = "apply" /\ BlockOf[e] <= cycle[c].to

CountInv == ReconInv /\ (~disturbed => Undisturbed)

LEMMA NothingCounted ==
    ASSUME ReconInv, TablesOK, ~up \/ rows = {}
    PROVE  Fresh = Events
BY DEF TablesOK, Fresh

(* The one busy cycle becomes W; the others are idle.                       *)
LEMMA BusyMoves ==
    ASSUME ReconInv, NEW c \in Cycles, NEW W \in CycleType,
           \A d \in Cycles \ {c} : cycle[d].pc = "idle",
           cycle' = [cycle EXCEPT ![c] = W],
           up', W.pc \notin {"idle", "idling"} => running',
           TablesOK', WindowOK(W, indexed', rows', Fresh'), AheadOK(W, indexed', Fresh')
    PROVE  Undisturbed'
<1>1. /\ cycle'[c] = W
      /\ \A d \in Cycles \ {c} : cycle'[d] = cycle[d] /\ cycle'[d].pc = "idle"
  BY NowIs
<1>2. OneAtATime'
  BY <1>1 DEF OneAtATime
<1>3. \A d \in Cycles : WindowOK(cycle'[d], indexed', rows', Fresh')
  <2>1. \A d \in Cycles \ {c} : WindowOK(cycle'[d], indexed', rows', Fresh')
    BY <1>1 DEF WindowOK
  <2>2. QED
    BY <1>1, <2>1
<1>4. \A e \in Events :
          BlockOf[e] > indexed' =>
              e \in Fresh' \/ \E d \in Cycles : cycle'[d].pc = "apply" /\ BlockOf[e] <= cycle'[d].to
  BY <1>1 DEF AheadOK
<1>5. QED
  BY <1>2, <1>3, <1>4 DEF Undisturbed

LEMMA OthersIdle ==
    ASSUME Undisturbed, NEW c \in Cycles, cycle[c].pc # "idle"
    PROVE  /\ \A d \in Cycles \ {c} : cycle[d].pc = "idle"
           /\ up
           /\ cycle[c].pc # "idling" => running
           /\ WindowOK(cycle[c], indexed, rows, Fresh)
           /\ AheadOK(cycle[c], indexed, Fresh)
BY DEF Undisturbed, OneAtATime, AheadOK

LEMMA SameTables ==
    ASSUME UNCHANGED <<up, rows, mem, base, tables>>
    PROVE  TablesOK' = TablesOK /\ Fresh' = Fresh
BY DEF TablesOK, Fresh, tables

LEMMA TickCounts ==
    ASSUME ReconInv, Undisturbed, NEW c \in Cycles, Tick(c), ~disturbed'
    PROVE  Undisturbed'
<1> DEFINE W == [cycle[c] EXCEPT !.pc = "head"]
<1>1. W \in CycleType /\ W.pc = "head"
  BY NowIs DEF CycleType, States
<1>2. /\ cycle' = [cycle EXCEPT ![c] = W] /\ up /\ ~running /\ running'
      /\ UNCHANGED <<rows, tables, up, indexed, mem, base>>
  BY NowIs DEF Tick, MayRun
<1>3. \A d \in Cycles : cycle[d].pc # "idling"
  BY DEF Tick
<1>4. \A d \in Cycles : cycle[d].pc = "idle"
  BY <1>2, <1>3 DEF Undisturbed, OneAtATime
<1> HIDE DEF W
<1>5. TablesOK' /\ Fresh' = Fresh
  BY <1>2, SameTables DEF Undisturbed
<1>6. WindowOK(W, indexed', rows', Fresh')
  BY <1>1 DEF WindowOK
<1>7. AheadOK(W, indexed', Fresh')
  BY <1>2, <1>4, <1>5 DEF AheadOK, Undisturbed
<1>8. QED
  BY <1>1, <1>2, <1>4, <1>5, <1>6, <1>7, BusyMoves

(* A busy cycle that ends, with the cursor in memory as it is.              *)
LEMMA EndCounts ==
    ASSUME ReconInv, Undisturbed, NEW c \in Cycles, cycle[c].pc \notin {"idle", "apply"},
           End(c), UNCHANGED <<rows, tables, up, indexed, mem, base>>
    PROVE  Undisturbed'
<1>1. cycle' = [cycle EXCEPT ![c] = Idle]
  BY DEF End
<1>2. TablesOK' /\ Fresh' = Fresh
  BY SameTables DEF Undisturbed
<1>3. WindowOK(Idle, indexed', rows', Fresh')
  BY IdleCycle DEF WindowOK
<1>4. AheadOK(Idle, indexed', Fresh')
  BY <1>2, OthersIdle DEF AheadOK
<1>5. QED
  BY <1>1, <1>2, <1>3, <1>4, IdleCycle, OthersIdle, BusyMoves

(* Steps that leave the cursor in memory, the tables and the reserves.      *)
LEMMA QuietMoves ==
    ASSUME ReconInv, Undisturbed, NEW c \in Cycles, NEW W \in CycleType,
           cycle[c].pc \notin {"idle", "apply"}, cycle' = [cycle EXCEPT ![c] = W],
           UNCHANGED <<rows, tables, up, indexed, mem, base>>,
           W.pc \notin {"idle", "idling"} => running',
           WindowOK(W, indexed, rows, Fresh)
    PROVE  Undisturbed'
<1>1. TablesOK' /\ Fresh' = Fresh
  BY SameTables DEF Undisturbed
<1>2. AheadOK(W, indexed', Fresh')
  BY <1>1, OthersIdle DEF AheadOK
<1>3. QED
  BY <1>1, <1>2, OthersIdle, BusyMoves

LEMMA ReadHeadCounts ==
    ASSUME ReconInv, Undisturbed, NEW c \in Cycles, ReadHead(c)
    PROVE  Undisturbed'
<1> DEFINE W == [cycle[c] EXCEPT !.pc = "markets", !.safe = SafeHead]
<1>1. W \in CycleType /\ W.pc = "markets"
  BY NowIs, SafeHeadIn DEF CycleType, States
<1>2. /\ cycle' = [cycle EXCEPT ![c] = W] /\ cycle[c].pc = "head"
      /\ UNCHANGED <<rows, tables, up, indexed, running, mem, base>>
  BY NowIs DEF ReadHead
<1> HIDE DEF W
<1>3. WindowOK(W, indexed, rows, Fresh)
  BY <1>1 DEF WindowOK
<1>4. running'
  BY <1>2, OthersIdle
<1>5. QED
  BY <1>1, <1>2, <1>3, <1>4, QuietMoves

(* The cursor may go back to the safe head, but only without pools.         *)
LEMMA ReadMarketsCounts ==
    ASSUME ReconInv, Undisturbed, NEW c \in Cycles, ReadMarkets(c)
    PROVE  Undisturbed'
<1>1. UNCHANGED <<rows, tables, up, mem, base>> /\ cycle[c].pc = "markets"
  BY DEF ReadMarkets
<1>2. CASE OnlyKnown /\ rows = {}
  <2> DEFINE idling == [cycle[c] EXCEPT !.pc = "idling"]
             W == IF indexed = cycle[c].safe THEN Idle ELSE idling
  <2>1. cycle' = [cycle EXCEPT ![c] = W]
    BY <1>2, NowIs DEF ReadMarkets
  <2>2. idling \in CycleType /\ idling.pc = "idling"
    BY NowIs DEF CycleType, States
  <2>3. W \in CycleType /\ W.pc \in {"idle", "idling"}
    BY <2>2, IdleCycle
  <2>4. TablesOK' /\ Fresh' = Fresh
    BY <1>1, SameTables DEF Undisturbed
  <2>5. Fresh = Events
    BY <1>2, NothingCounted DEF Undisturbed
  <2> HIDE DEF W
  <2>6. WindowOK(W, indexed', rows', Fresh') /\ AheadOK(W, indexed', Fresh')
    BY <2>3, <2>4, <2>5 DEF WindowOK, AheadOK
  <2>7. QED
    BY <1>1, <2>1, <2>3, <2>4, <2>6, OthersIdle, BusyMoves
<1>3. CASE ~(OnlyKnown /\ rows = {})
  <2> DEFINE W == [cycle[c] EXCEPT !.pc = "window", !.known = rows, !.cursor = indexed]
  <2>1. cycle' = [cycle EXCEPT ![c] = W] /\ UNCHANGED <<indexed, running>>
    BY <1>3, NowIs DEF ReadMarkets
  <2>2. W \in CycleType /\ W.pc = "window" /\ W.cursor = indexed /\ W.known = rows
    BY NowIs DEF CycleType, States
  <2> HIDE DEF W
  <2>3. WindowOK(W, indexed, rows, Fresh)
    BY <2>2 DEF WindowOK
  <2>4. running'
    BY <1>1, <2>1, OthersIdle
  <2>5. QED
    BY <1>1, <2>1, <2>2, <2>3, <2>4, QuietMoves
<1>4. QED
  BY <1>2, <1>3

LEMMA FetchCounts ==
    ASSUME ReconInv, Undisturbed, NEW c \in Cycles, Fetch(c)
    PROVE  Undisturbed'
<1> DEFINE to == WindowEnd(cycle[c])
           inside == Between(cycle[c].cursor, to)
           named == {e \in inside : PoolOf[e] \in cycle[c].known}
<1>1. PICK got \in {named, {}} :
          cycle' = [cycle EXCEPT ![c].pc = "logs", ![c].to = to, ![c].todo = got]
  BY DEF Fetch
<1> DEFINE W == [cycle[c] EXCEPT !.pc = "logs", !.to = to, !.todo = got]
<1>2. /\ UNCHANGED <<rows, tables, up, indexed, running, mem, base>>
      /\ cycle[c].pc = "window" /\ cycle[c].cursor < cycle[c].safe
  BY DEF Fetch
<1>3. /\ cycle[c].cursor \in 0..MaxBlock /\ cycle[c].safe \in 0..MaxBlock
      /\ cycle[c].known \subseteq rows /\ cycle[c].cursor = indexed
  BY <1>2, NowIs, OthersIdle DEF CycleType, WindowOK
<1>4. to \in 0..MaxBlock /\ cycle[c].cursor <= to
  BY <1>2, <1>3, Numbers DEF WindowEnd, MinOf
<1>5. got \subseteq Events
  BY DEF Between
<1>6. \A e \in got : BlockOf[e] > indexed /\ BlockOf[e] <= to /\ PoolOf[e] \in rows
  BY <1>3, Numbers DEF Between
<1>7. \A e \in got : e \in Fresh
  BY <1>2, <1>5, <1>6, OthersIdle DEF AheadOK
<1> HIDE DEF to, inside, named
<1>8. cycle' = [cycle EXCEPT ![c] = W]
  BY <1>1, NowIs
<1>9. /\ W \in CycleType /\ W.pc = "logs" /\ W.cursor = cycle[c].cursor
      /\ W.to = to /\ W.todo = got /\ W.known = cycle[c].known
  BY <1>4, <1>5, NowIs DEF CycleType, States
<1> HIDE DEF W
<1>10. WindowOK(W, indexed, rows, Fresh)
  BY <1>3, <1>4, <1>6, <1>7, <1>9 DEF WindowOK
<1>11. running'
  BY <1>2, OthersIdle
<1>12. QED
  BY <1>2, <1>8, <1>9, <1>10, <1>11, QuietMoves

LEMMA StoreCursorCounts ==
    ASSUME ReconInv, Undisturbed, NEW c \in Cycles, StoreCursor(c)
    PROVE  Undisturbed'
<1> DEFINE W == [cycle[c] EXCEPT !.pc = "window"]
<1>1. W \in CycleType /\ W.pc = "window" /\ W.cursor = cycle[c].cursor /\ W.known = cycle[c].known
  BY NowIs DEF CycleType, States
<1>2. /\ cycle' = [cycle EXCEPT ![c] = W] /\ cycle[c].pc = "store"
      /\ UNCHANGED <<rows, tables, up, indexed, running, mem, base>>
  BY NowIs DEF StoreCursor
<1> HIDE DEF W
<1>3. WindowOK(W, indexed, rows, Fresh)
  BY <1>1, <1>2, OthersIdle DEF WindowOK
<1>4. QED
  BY <1>1, <1>2, <1>3, OthersIdle, QuietMoves

LEMMA MoveCursorCounts ==
    ASSUME ReconInv, Undisturbed, NEW c \in Cycles, MoveCursor(c)
    PROVE  Undisturbed'
<1> DEFINE W == [cycle[c] EXCEPT !.pc = "store", !.cursor = cycle[c].to]
<1>1. /\ W \in CycleType /\ W.pc = "store" /\ W.cursor = cycle[c].to /\ W.known = cycle[c].known
      /\ cycle[c].to \in 0..MaxBlock /\ cycle[c].cursor \in 0..MaxBlock
  BY NowIs DEF CycleType, States
<1>2. /\ cycle' = [cycle EXCEPT ![c] = W] /\ indexed' = cycle[c].to
      /\ UNCHANGED <<rows, tables, up, running, mem, base>>
      /\ cycle[c].pc = "apply"
  BY NowIs DEF MoveCursor
<1> HIDE DEF W
<1>3. /\ WindowOK(cycle[c], indexed, rows, Fresh) /\ AheadOK(cycle[c], indexed, Fresh)
      /\ running /\ up
  BY <1>2, OthersIdle
<1>4. indexed <= cycle[c].to /\ indexed \in Nat /\ cycle[c].to \in Nat
  BY <1>1, <1>2, <1>3, Numbers DEF WindowOK
<1>5. TablesOK' /\ Fresh' = Fresh
  BY <1>2, SameTables DEF Undisturbed
<1>6. AheadOK(W, indexed', Fresh')
  <2>1. ASSUME NEW e \in Events, BlockOf[e] > cycle[c].to
        PROVE  e \in Fresh
    <3>1. BlockOf[e] \in Nat
      BY Numbers
    <3>2. BlockOf[e] > indexed /\ ~(BlockOf[e] <= cycle[c].to)
      BY <1>4, <2>1, <3>1
    <3>3. QED
      BY <1>3, <3>2 DEF AheadOK
  <2>2. QED
    BY <1>2, <1>5, <2>1 DEF AheadOK
<1>7. WindowOK(W, indexed', rows', Fresh')
  BY <1>1, <1>2, <1>3 DEF WindowOK
<1>8. QED
  BY <1>1, <1>2, <1>3, <1>5, <1>6, <1>7, OthersIdle, BusyMoves

LEMMA EnsureCounts ==
    ASSUME ReconInv, Undisturbed, NEW c \in Cycles, EnsureMarketState(c)
    PROVE  Undisturbed'
<1> DEFINE new == {PoolOf[e] : e \in cycle[c].todo} \ DOMAIN mem
           kept == {e \in cycle[c].todo : PoolOf[e] \notin new}
<1>1. UNCHANGED <<rows, tables, up, indexed, running>> /\ cycle[c].pc = "logs"
  BY DEF EnsureMarketState
<1>2. /\ cycle[c].todo \subseteq Events /\ up /\ running
      /\ WindowOK(cycle[c], indexed, rows, Fresh) /\ AheadOK(cycle[c], indexed, Fresh)
      /\ \A d \in Cycles \ {c} : cycle[d].pc = "idle"
  BY <1>1, NowIs, OthersIdle DEF CycleType
<1>3. ASSUME NEW S \in SUBSET cycle[c].todo, S # {} => cycle[c].todo # {},
             cycle' = [cycle EXCEPT ![c].pc = "apply", ![c].todo = S],
             TablesOK', Fresh' = Fresh
      PROVE  Undisturbed'
  <2> DEFINE W == [cycle[c] EXCEPT !.pc = "apply", !.todo = S]
  <2>1. /\ W \in CycleType /\ W.pc = "apply" /\ W.todo = S /\ W.cursor = cycle[c].cursor
        /\ W.to = cycle[c].to /\ W.known = cycle[c].known
    BY <1>2, NowIs DEF CycleType, States
  <2>2. cycle' = [cycle EXCEPT ![c] = W]
    BY <1>3, NowIs
  <2> HIDE DEF W
  <2>3. WindowOK(W, indexed', rows', Fresh')
    BY <1>1, <1>2, <1>3, <2>1 DEF WindowOK
  <2>4. AheadOK(W, indexed', Fresh')
    BY <1>1, <1>2, <1>3 DEF AheadOK
  <2>5. QED
    BY <1>1, <1>2, <1>3, <2>1, <2>2, <2>3, <2>4, BusyMoves
<1>4. CASE /\ \E read \in [new -> UNION {BaseReserves(p) : p \in new}] : Loads(new, read)
           /\ cycle' = [cycle EXCEPT ![c].pc = "apply"]
  <2>1. PICK read \in [new -> UNION {BaseReserves(p) : p \in new}] : Loads(new, read)
    BY <1>4
  <2>2. \A p \in new : read[p] \in Counts
    <3>1. UNION {BaseReserves(p) : p \in new} \subseteq Counts
      BY BaseIsCounts
    <3> HIDE DEF new
    <3>2. QED
      BY <3>1
  <2>3. (new # {} => rows # {}) /\ \A p \in new : p \notin DOMAIN mem
    BY <1>1, <1>2 DEF WindowOK
  <2> HIDE DEF new
  <2>4. /\ DOMAIN mem' = DOMAIN mem \union new
        /\ \A p \in new : mem'[p] = base'[p] /\ mem'[p] \in Counts
        /\ \A p \in DOMAIN mem : mem'[p] = mem[p] /\ base'[p] = base[p]
    BY <2>1, <2>2, <2>3 DEF Loads
  <2>5. UNCHANGED <<liq, volume, rows, up>>
    BY <1>1 DEF tables
  <2>6. TablesOK'
    <3>1. ~up' \/ rows' = {} => DOMAIN mem' = {} /\ DOMAIN liq' = {} /\ \A e \in Events : volume'[e] = 0
      BY <1>2, <2>3, <2>4, <2>5 DEF Undisturbed, TablesOK
    <3>2. \A p \in DOMAIN mem', e \in Events : mem'[p][e] <= base'[p][e] + 1
      <4>1. ASSUME NEW p \in new, NEW e \in Events
            PROVE  mem'[p][e] <= base'[p][e] + 1
        <5>1. mem'[p][e] = base'[p][e] /\ mem'[p][e] \in Nat
          BY <2>4 DEF Counts
        <5>2. QED
          BY <5>1
      <4>2. ASSUME NEW p \in DOMAIN mem, NEW e \in Events
            PROVE  mem'[p][e] <= base'[p][e] + 1
        BY <2>4 DEF Undisturbed, TablesOK
      <4>3. QED
        BY <2>4, <4>1, <4>2
    <3>3. QED
      BY <2>4, <2>5, <3>1, <3>2 DEF Undisturbed, TablesOK
  <2>7. Fresh' = Fresh
    BY <2>4, <2>5 DEF Fresh
  <2>8. cycle' = [cycle EXCEPT ![c].pc = "apply", ![c].todo = cycle[c].todo]
    BY <1>4, NowIs DEF CycleType
  <2>9. QED
    BY <1>3, <2>6, <2>7, <2>8
<1>5. CASE /\ cycle' = [cycle EXCEPT ![c].pc = "apply", ![c].todo = kept]
           /\ UNCHANGED <<mem, base>>
  <2>1. TablesOK' /\ Fresh' = Fresh
    BY <1>1, <1>5, SameTables DEF Undisturbed
  <2>2. kept \in SUBSET cycle[c].todo /\ (kept # {} => cycle[c].todo # {})
    OBVIOUS
  <2> HIDE DEF kept
  <2>3. QED
    BY <1>3, <1>5, <2>1, <2>2
<1>6. QED
  BY <1>4, <1>5 DEF EnsureMarketState, Loads

(* An event counts where it was not counted before: its window is the one the *)
(* cursor has still to pass.                                                *)
LEMMA HandleCounts ==
    ASSUME ReconInv, Undisturbed, NEW c \in Cycles, HandleFpmmEvent(c)
    PROVE  Undisturbed'
<1> DEFINE e == Min(cycle[c].todo)
           reserves == [mem[PoolOf[e]] EXCEPT ![e] = @ + 1]
           rest == cycle[c].todo \ {e}
           W == [cycle[c] EXCEPT !.todo = rest]
<1>1. /\ cycle[c].pc = "apply" /\ cycle[c].todo # {}
      /\ mem' = [mem EXCEPT ![PoolOf[e]] = reserves]
      /\ IF e \in Funding THEN RecordFunding(e, reserves) ELSE RecordTrade(e)
      /\ cycle' = [cycle EXCEPT ![c].todo = rest]
      /\ UNCHANGED <<rows, up, indexed, running, base>>
  BY DEF HandleFpmmEvent
<1>2. /\ cycle[c].todo \subseteq Events /\ up /\ running
      /\ WindowOK(cycle[c], indexed, rows, Fresh) /\ AheadOK(cycle[c], indexed, Fresh)
      /\ \A d \in cycle[c].todo : PoolOf[d] \in DOMAIN mem
  BY <1>1, NowIs, OthersIdle DEF CycleOK, CycleType
<1>3. e \in cycle[c].todo /\ e \in Events /\ PoolOf[e] \in DOMAIN mem
  BY <1>1, <1>2, MinIn
<1>4. /\ volume[e] = 0 /\ \A p \in DOMAIN mem : mem[p][e] = base[p][e]
      /\ BlockOf[e] <= cycle[c].to /\ rows # {}
  BY <1>1, <1>2, <1>3 DEF WindowOK, Fresh
<1>5. cycle' = [cycle EXCEPT ![c] = W]
  BY <1>1, NowIs
<1>6. /\ W \in CycleType /\ W.pc = "apply" /\ W.todo = rest /\ W.known = cycle[c].known
      /\ W.cursor = cycle[c].cursor /\ W.to = cycle[c].to
  <2>1. rest \subseteq Events
    BY <1>2
  <2> HIDE DEF rest
  <2>2. QED
    BY <1>1, <2>1, NowIs DEF CycleType
<1>7. rest \subseteq cycle[c].todo /\ e \notin rest
  OBVIOUS
<1>8. /\ mem[PoolOf[e]] \in Counts /\ reserves \in Counts
      /\ reserves[e] = mem[PoolOf[e]][e] + 1
      /\ \A d \in Events \ {e} : reserves[d] = mem[PoolOf[e]][d]
  BY <1>3, TableTypes DEF Counts
<1> HIDE DEF e, reserves, rest, W
<1>9. /\ DOMAIN mem' = DOMAIN mem
      /\ \A p \in DOMAIN mem, d \in Events \ {e} : mem'[p][d] = mem[p][d]
      /\ \A p \in DOMAIN mem : mem'[p][e] <= base[p][e] + 1
  <2>1. mem'[PoolOf[e]] = reserves /\ \A p \in DOMAIN mem \ {PoolOf[e]} : mem'[p] = mem[p]
    BY <1>1, <1>3
  <2>2. \A p \in DOMAIN mem : mem[p][e] = base[p][e] /\ base[p][e] \in Nat
    BY <1>3, <1>4, TableTypes DEF Counts
  <2>3. mem'[PoolOf[e]][e] <= base[PoolOf[e]][e] + 1
    BY <1>3, <1>8, <2>1, <2>2
  <2>4. \A p \in DOMAIN mem \ {PoolOf[e]} : mem'[p][e] <= base[p][e] + 1
    BY <2>1, <2>2
  <2>5. QED
    BY <1>1, <1>8, <2>1, <2>3, <2>4
<1>10. /\ \A d \in DOMAIN liq' : PoolOf[d] \in DOMAIN mem'
       /\ \A d \in Events \ {e} : volume'[d] = volume[d]
       /\ volume'[e] <= 1
  <2>1. CASE e \in Funding
    <3>1. /\ UNCHANGED volume
          /\ liq' = IF e \in DOMAIN liq THEN liq
                    ELSE [d \in DOMAIN liq \union {e} |-> IF d = e THEN reserves ELSE liq[d]]
      BY <1>1, <2>1 DEF RecordFunding
    <3>2. DOMAIN liq' = DOMAIN liq \union {e}
      BY <3>1
    <3>3. QED
      BY <1>3, <1>4, <1>9, <3>1, <3>2 DEF Undisturbed, TablesOK
  <2>2. CASE e \notin Funding
    <3>1. volume' = [volume EXCEPT ![e] = @ + 1] /\ UNCHANGED liq
      BY <1>1, <2>2 DEF RecordTrade
    <3>2. volume'[e] = 1 /\ \A d \in Events \ {e} : volume'[d] = volume[d]
      BY <1>3, <1>4, <3>1, TableTypes DEF Counts
    <3>3. QED
      BY <1>9, <3>1, <3>2 DEF Undisturbed, TablesOK
  <2>3. QED
    BY <2>1, <2>2
<1>11. TablesOK'
  <2>1. \A p \in DOMAIN mem', d \in Events : mem'[p][d] <= base'[p][d] + 1
    BY <1>1, <1>9 DEF Undisturbed, TablesOK
  <2>2. \A d \in Events : volume'[d] <= 1
    BY <1>10 DEF Undisturbed, TablesOK
  <2>3. QED
    BY <1>1, <1>2, <1>4, <1>10, <2>1, <2>2 DEF TablesOK
<1>12. Fresh \ {e} \subseteq Fresh'
  BY <1>1, <1>9, <1>10 DEF Fresh
<1>13. WindowOK(W, indexed', rows', Fresh')
  BY <1>1, <1>2, <1>4, <1>6, <1>7, <1>12 DEF WindowOK
<1>14. AheadOK(W, indexed', Fresh')
  BY <1>1, <1>2, <1>4, <1>6, <1>12 DEF AheadOK
<1>15. QED
  BY <1>1, <1>2, <1>5, <1>6, <1>11, <1>13, <1>14, OthersIdle, BusyMoves

(* Before the start nothing was counted, and nothing runs.                  *)
LEMMA StartCounts ==
    ASSUME ReconInv, Undisturbed, Start
    PROVE  Undisturbed'
<1>1. ~up /\ up' = TRUE /\ UNCHANGED <<rows, tables, running, mem, base, cycle>>
  BY DEF Start
<1>2. Fresh = Events /\ Fresh' = Fresh
  BY <1>1, NothingCounted DEF Undisturbed, Fresh, tables
<1>3. \A c \in Cycles : cycle'[c].pc = "idle"
  BY <1>1 DEF Undisturbed, OneAtATime
<1>4. OneAtATime'
  BY <1>3 DEF OneAtATime
<1>5. TablesOK'
  BY <1>1 DEF Undisturbed, TablesOK, tables
<1>6. \A c \in Cycles : WindowOK(cycle'[c], indexed', rows', Fresh')
  BY <1>3 DEF WindowOK
<1>7. QED
  BY <1>2, <1>4, <1>5, <1>6 DEF Undisturbed

LEMMA OutsideCounts ==
    ASSUME ReconInv, Undisturbed, Mine \/ \E p \in Pools : AddRow(p)
    PROVE  Undisturbed'
<1>1. UNCHANGED <<tables, memory, base>> /\ rows \subseteq rows'
  BY DEF Mine, AddRow
<1>2. OneAtATime' /\ TablesOK' /\ Fresh' = Fresh
  BY <1>1 DEF Undisturbed, OneAtATime, TablesOK, Fresh, tables, memory
<1>3. \A c \in Cycles : WindowOK(cycle'[c], indexed', rows', Fresh')
  <2>1. \A c \in Cycles : WindowOK(cycle[c], indexed, rows, Fresh)
    BY DEF Undisturbed
  <2>2. QED
    BY <1>1, <1>2, <2>1 DEF WindowOK, memory
<1>4. QED
  BY <1>1, <1>2, <1>3 DEF Undisturbed, memory

LEMMA NextCountInv == CountInv /\ [Next]_vars => CountInv'
<1> SUFFICES ASSUME CountInv, [Next]_vars PROVE CountInv'
  OBVIOUS
<1>1. ReconInv /\ ReconInv'
  BY NextReconInv DEF CountInv
<1> SUFFICES ASSUME ~disturbed' PROVE Undisturbed'
  BY <1>1 DEF CountInv
<1>2. CASE UNCHANGED vars
  <2>1. UNCHANGED <<rows, tables, memory, disturbed, base>>
    BY <1>2 DEF vars, work
  <2>2. Undisturbed
    BY <2>1 DEF CountInv
  <2>3. QED
    BY <2>1, <2>2 DEF Undisturbed, OneAtATime, TablesOK, Fresh, tables, memory
<1>3. ASSUME NEW c \in Cycles, CycleStep(c) \/ Abort(c) \/ HandleFails(c)
      PROVE  Undisturbed'
  <2>1. ~Abort(c) /\ ~HandleFails(c)
    BY DEF Abort, HandleFails
  <2>2. ~disturbed
    BY <1>3, <2>1 DEF CycleStep, Tick, ReadHead, ReadMarkets, StoreIdle, Fetch,
       EnsureMarketState, HandleFpmmEvent, MoveCursor, StoreCursor, Finish
  <2>3. Undisturbed
    BY <2>2 DEF CountInv
  <2>4. CASE StoreIdle(c) \/ Finish(c)
    <3>1. /\ cycle[c].pc \in {"idling", "window"} /\ End(c)
          /\ UNCHANGED <<rows, tables, up, indexed, mem, base>>
      BY <2>4 DEF StoreIdle, Finish
    <3>2. QED
      BY <1>1, <2>3, <3>1, EndCounts
  <2>5. QED
    BY <1>1, <1>3, <2>1, <2>3, <2>4, TickCounts, ReadHeadCounts, ReadMarketsCounts,
       FetchCounts, EnsureCounts, HandleCounts, MoveCursorCounts, StoreCursorCounts
       DEF CycleStep
<1>4. CASE Start
  BY <1>1, <1>4, StartCounts DEF CountInv, Start
<1>5. CASE Mine \/ \E p \in Pools : AddRow(p)
  <2>1. ~disturbed
    BY <1>5 DEF Mine, AddRow
  <2>2. QED
    BY <1>1, <1>5, <2>1, OutsideCounts DEF CountInv
<1>6. CASE Restart
  BY <1>6 DEF Restart
<1>7. QED
  BY <1>2, <1>3, <1>4, <1>5, <1>6 DEF Next

LEMMA InitCountInv == Init => CountInv
<1> SUFFICES ASSUME Init PROVE CountInv
  OBVIOUS
<1>1. \A c \in Cycles : cycle[c].pc = "idle"
  BY IdleCycle DEF Init
<1>2. DOMAIN mem = {} /\ DOMAIN liq = {} /\ \A e \in Events : volume[e] = 0
  BY DEF Init, None
<1>3. OneAtATime
  BY <1>1 DEF OneAtATime
<1>4. TablesOK /\ Fresh = Events
  BY <1>2 DEF TablesOK, Fresh
<1>5. \A c \in Cycles : WindowOK(cycle[c], indexed, rows, Fresh)
  BY <1>1 DEF WindowOK
<1>6. QED
  BY <1>3, <1>4, <1>5, InitReconInv DEF CountInv, Undisturbed

(* For any pools, chain and number of cycles: as long as no cycle was aborted, *)
(* no tick was late and the worker was not restarted, no trade's volume is     *)
(* added twice and no event is added twice to the reserves a pool's state in    *)
(* memory began with.                                                         *)
THEOREM EventsCountedOnce == Spec => []CountedOnce
<1>1. CountInv => CountedOnce
  BY DEF CountInv, Undisturbed, TablesOK, CountedOnce
<1>2. QED
  BY <1>1, InitCountInv, NextCountInv, PTL DEF Spec

-----------------------------------------------------------------------------
(* The sockets of a page. *)

HookType == [mounted : BOOLEAN, ws : Sockets \union {Socket!NoSocket}, timer : BOOLEAN]
SockType == [at : {"free", "dialing", "subscribe", "psubscribe", "live", "failed", "done"},
             open : BOOLEAN, event : BOOLEAN, client : {"none", "on", "cut", "off"},
             alive : BOOLEAN, idle : Nat, redis : {"none", "on", "off"}, kept : BOOLEAN]

\* A socket is the page's own as long as the page believes it to be open.
Own(h, S) == \A s \in Sockets : S[s].client = "on" => h.ws = s
HookInv ==
    /\ hook \in HookType /\ sock \in [Sockets -> SockType]
    /\ hook.mounted => (hook.ws # Socket!NoSocket) # hook.timer
    /\ hook.mounted \/ (hook.ws = Socket!NoSocket /\ ~hook.timer)
    /\ Own(hook, sock)

LEMMA NoSocketIsNone == Socket!NoSocket \notin Sockets
BY SocketAssumption DEF Socket!SocketsAssumption

LEMMA EndedIs ==
    ASSUME NEW r \in SockType
    PROVE  Socket!Ended(r) \in SockType /\ Socket!Ended(r).client = r.client
BY DEF Socket!Ended, SockType

LEMMA UnusedIs == Socket!Unused \in SockType
BY DEF Socket!Unused, SockType

(* A page that has neither socket nor timer, or whose timer fires.          *)
LEMMA ConnectKeeps ==
    ASSUME HookInv, hook.ws = Socket!NoSocket, Socket!Connect
    PROVE  HookInv'
<1>1. \A s \in Sockets : sock[s].client # "on"
  BY NoSocketIsNone DEF HookInv, Own
<1>2. ASSUME NEW s \in Sockets,
             Socket!Put(s, [Socket!Unused EXCEPT !.at = "dialing", !.client = "on"]),
             hook' = [mounted |-> TRUE, ws |-> s, timer |-> FALSE]
      PROVE  HookInv'
  <2>. DEFINE r == [Socket!Unused EXCEPT !.at = "dialing", !.client = "on"]
  <2>1. r \in SockType
    BY DEF Socket!Unused, SockType
  <2>2. sock' = [sock EXCEPT ![s] = r]
    BY <1>2 DEF Socket!Put
  <2>. HIDE DEF r
  <2>3. sock' \in [Sockets -> SockType] /\ \A u \in Sockets \ {s} : sock'[u] = sock[u]
    BY <2>1, <2>2 DEF HookInv
  <2>4. s # Socket!NoSocket
    BY NoSocketIsNone
  <2>. QED BY <1>1, <1>2, <2>3, <2>4 DEF HookInv, HookType, Own
<1>3. ASSUME hook' = [mounted |-> TRUE, ws |-> Socket!NoSocket, timer |-> TRUE],
             UNCHANGED sock
      PROVE  HookInv'
  BY <1>1, <1>3 DEF HookInv, HookType, Own
<1>. QED BY <1>2, <1>3 DEF Socket!Connect

(* The hook stays, and no socket turns on.                                  *)
LEMMA ServerKeeps ==
    ASSUME HookInv, UNCHANGED hook, sock' \in [Sockets -> SockType],
           \A s \in Sockets : sock'[s].client = "on" => sock[s].client = "on"
    PROVE  HookInv'
BY DEF HookInv, Own

LEMMA PutKeeps ==
    ASSUME HookInv, NEW s \in Sockets, NEW r \in SockType, Socket!Put(s, r)
    PROVE  /\ sock' \in [Sockets -> SockType]
           /\ sock'[s] = r /\ \A u \in Sockets \ {s} : sock'[u] = sock[u]
BY DEF HookInv, Socket!Put

(* The client end of a socket is gone and onclose has run.                  *)
LEMMA CloseKeeps ==
    ASSUME HookInv, NEW s \in Sockets, NEW r \in SockType, r.client = "off",
           Socket!Put(s, r), Socket!OnClose(s)
    PROVE  HookInv'
<1>1. /\ sock' \in [Sockets -> SockType]
      /\ sock'[s] = r /\ \A u \in Sockets \ {s} : sock'[u] = sock[u]
  BY PutKeeps
<1>2. CASE hook.ws = s
  <2>1. hook' = [hook EXCEPT !.ws = Socket!NoSocket, !.timer = TRUE]
    BY <1>2 DEF Socket!OnClose
  <2>2. hook' \in HookType /\ hook'.ws = Socket!NoSocket /\ hook'.timer
        /\ hook'.mounted = hook.mounted
    BY <2>1 DEF HookInv, HookType
  <2>3. hook.mounted
    BY <1>2, NoSocketIsNone DEF HookInv
  <2>. QED BY <1>1, <1>2, <2>2, <2>3 DEF HookInv, Own
<1>3. CASE hook.ws # s
  <2>1. hook' = hook
    BY <1>3 DEF Socket!OnClose
  <2>. QED BY <1>1, <2>1 DEF HookInv, Own
<1>. QED BY <1>2, <1>3

LEMMA UnmountKeeps ==
    ASSUME HookInv, Socket!Unmount
    PROVE  HookInv'
<1>1. hook' = [mounted |-> FALSE, ws |-> Socket!NoSocket, timer |-> FALSE]
  BY DEF Socket!Unmount
<1>2. sock' \in [Sockets -> SockType] /\ \A s \in Sockets : sock'[s].client # "on"
  <2>1. CASE hook.ws = Socket!NoSocket
    BY <2>1, NoSocketIsNone DEF Socket!Unmount, HookInv, Own
  <2>2. CASE hook.ws # Socket!NoSocket
    <3>. DEFINE s == hook.ws
                r == sock[s]
                e == IF r.at = "dialing" THEN [r EXCEPT !.at = "done", !.client = "off"]
                     ELSE IF r.client = "on" THEN [Socket!Ended(r) EXCEPT !.client = "off"]
                     ELSE r
    <3>1. s \in Sockets /\ r \in SockType
      BY <2>2 DEF HookInv, HookType
    <3>2. e \in SockType /\ e.client # "on"
      <4>1. Socket!Ended(r) \in SockType
        BY <3>1, EndedIs
      <4>2. [Socket!Ended(r) EXCEPT !.client = "off"] \in SockType
            /\ [Socket!Ended(r) EXCEPT !.client = "off"].client = "off"
        BY <4>1 DEF SockType
      <4>3. [r EXCEPT !.at = "done", !.client = "off"] \in SockType
            /\ [r EXCEPT !.at = "done", !.client = "off"].client = "off"
        BY <3>1 DEF SockType
      <4>. QED BY <3>1, <4>2, <4>3
    <3>3. Socket!Put(s, e)
      BY <2>2 DEF Socket!Unmount
    <3>. HIDE DEF s, e
    <3>4. /\ sock' \in [Sockets -> SockType]
          /\ sock'[s] = e /\ \A u \in Sockets \ {s} : sock'[u] = sock[u]
      BY <3>1, <3>2, <3>3, PutKeeps
    <3>. QED BY <3>2, <3>4 DEF HookInv, Own, s
  <2>. QED BY <2>1, <2>2
<1>. QED BY <1>1, <1>2 DEF HookInv, HookType, Own

(* What the server, the network and the heartbeat do to a socket.           *)
LEMMA SocketKeeps ==
    ASSUME HookInv, NEW s \in Sockets,
           \/ Socket!Cut(s) \/ Socket!Accept(s) \/ Socket!Subscribed(s)
           \/ Socket!SubscribeFails(s) \/ Socket!CloseEvent(s) \/ Socket!SocketError(s)
           \/ Socket!RedisError(s) \/ Socket!Pong(s) \/ Socket!QuitFails(s)
    PROVE  HookInv'
<1>. DEFINE r == sock[s]
<1>0. r \in SockType /\ Socket!Ended(r) \in SockType /\ Socket!Ended(r).client = r.client
  BY EndedIs DEF HookInv
<1>1. ASSUME NEW e \in SockType, Socket!Put(s, e), UNCHANGED hook,
             e.client = "on" => r.client = "on"
      PROVE  HookInv'
  <2>1. /\ sock' \in [Sockets -> SockType]
        /\ sock'[s] = e /\ \A u \in Sockets \ {s} : sock'[u] = sock[u]
    BY <1>1, PutKeeps
  <2>. QED BY <1>1, <2>1, ServerKeeps
<1>2. CASE Socket!Cut(s)
  <2>. DEFINE e == [r EXCEPT !.client = "cut"]
  <2>1. e \in SockType /\ e.client = "cut"
    BY <1>0 DEF SockType
  <2>2. Socket!Put(s, e) /\ UNCHANGED hook
    BY <1>2 DEF Socket!Cut
  <2>. HIDE DEF e
  <2>. QED BY <1>1, <2>1, <2>2
<1>3. CASE Socket!Accept(s)
  <2>. DEFINE e == [r EXCEPT !.at = "subscribe", !.open = TRUE, !.redis = "on"]
  <2>1. e \in SockType /\ e.client = r.client
    BY <1>0 DEF SockType
  <2>2. Socket!Put(s, e) /\ UNCHANGED hook
    BY <1>3 DEF Socket!Accept
  <2>. HIDE DEF e
  <2>. QED BY <1>1, <2>1, <2>2
<1>4. CASE Socket!Subscribed(s)
  <2>. DEFINE e == [r EXCEPT !.at = IF @ = "subscribe" THEN "psubscribe" ELSE "live"]
  <2>1. e \in SockType /\ e.client = r.client
    BY <1>0 DEF SockType
  <2>2. Socket!Put(s, e) /\ UNCHANGED hook
    BY <1>4 DEF Socket!Subscribed
  <2>. HIDE DEF e
  <2>. QED BY <1>1, <2>1, <2>2
<1>5. CASE Socket!SubscribeFails(s)
  <2>. DEFINE e == [Socket!Ended(r) EXCEPT !.at = "failed", !.kept = TRUE]
  <2>1. e \in SockType /\ e.client = r.client
    BY <1>0 DEF SockType
  <2>2. Socket!Put(s, e) /\ UNCHANGED hook
    BY <1>5 DEF Socket!SubscribeFails
  <2>. HIDE DEF e
  <2>. QED BY <1>1, <2>1, <2>2
<1>6. CASE Socket!CloseEvent(s) \/ Socket!QuitFails(s)
  <2>. DEFINE e == [r EXCEPT !.event = FALSE, !.redis = "off"]
              f == [r EXCEPT !.event = FALSE, !.kept = TRUE]
  <2>1. e \in SockType /\ e.client = r.client /\ f \in SockType /\ f.client = r.client
    BY <1>0 DEF SockType
  <2>2. (Socket!Put(s, e) \/ Socket!Put(s, f)) /\ UNCHANGED hook
    BY <1>6 DEF Socket!CloseEvent, Socket!Closed, Socket!QuitFails
  <2>. HIDE DEF e, f
  <2>. QED BY <1>1, <2>1, <2>2
<1>7. CASE Socket!SocketError(s) \/ Socket!RedisError(s)
  <2>1. Socket!Put(s, Socket!Ended(r)) /\ UNCHANGED hook
    BY <1>7 DEF Socket!SocketError, Socket!RedisError
  <2>. QED BY <1>0, <1>1, <2>1
<1>8. CASE Socket!Pong(s)
  <2>. DEFINE e == [r EXCEPT !.alive = TRUE, !.idle = 0]
  <2>1. e \in SockType /\ e.client = r.client
    BY <1>0 DEF SockType
  <2>2. Socket!Put(s, e) /\ UNCHANGED hook
    BY <1>8 DEF Socket!Pong
  <2>. HIDE DEF e
  <2>. QED BY <1>1, <2>1, <2>2
<1>. QED BY <1>2, <1>3, <1>4, <1>5, <1>6, <1>7, <1>8

LEMMA HeartbeatKeeps ==
    ASSUME HookInv, Socket!Heartbeat
    PROVE  HookInv'
<1>1. UNCHANGED hook
  BY DEF Socket!Heartbeat
<1>2. PICK drops \in SUBSET Sockets, beating \in SUBSET Sockets :
        sock' = [s \in Sockets |->
                   IF s \in drops THEN Socket!Ended(sock[s])
                   ELSE IF s \in beating
                        THEN [sock[s] EXCEPT !.alive = FALSE, !.idle = @ + 1]
                        ELSE sock[s]]
  <2>. DEFINE beats == {s \in Sockets : s \in tracked /\ sock[s].open}
              late == {s \in beats : Socket!Silent(sock[s])}
  <2>1. sock' = [s \in Sockets |->
                   IF s \in late THEN Socket!Ended(sock[s])
                   ELSE IF s \in beats
                        THEN [sock[s] EXCEPT !.alive = FALSE, !.idle = @ + 1]
                        ELSE sock[s]]
    BY DEF Socket!Heartbeat
  <2>2. late \in SUBSET Sockets /\ beats \in SUBSET Sockets
    OBVIOUS
  <2>. HIDE DEF late, beats
  <2>. QED BY <2>1, <2>2
<1>3. ASSUME NEW s \in Sockets
      PROVE  sock'[s] \in SockType /\ sock'[s].client = sock[s].client
  <2>. DEFINE e == [sock[s] EXCEPT !.alive = FALSE, !.idle = @ + 1]
  <2>1. sock[s] \in SockType
    BY DEF HookInv
  <2>2. e \in SockType /\ e.client = sock[s].client
    <3>. DEFINE n == sock[s].idle + 1
    <3>1. n \in Nat /\ e = [sock[s] EXCEPT !.alive = FALSE, !.idle = n]
      BY <2>1 DEF SockType
    <3>. HIDE DEF n
    <3>. QED BY <2>1, <3>1 DEF SockType
  <2>3. sock'[s] \in {Socket!Ended(sock[s]), e, sock[s]}
    BY <1>2
  <2>. HIDE DEF e
  <2>. QED BY <2>1, <2>2, <2>3, EndedIs
<1>4. sock' \in [Sockets -> SockType]
  BY <1>2, <1>3
<1>. QED BY <1>1, <1>3, <1>4, ServerKeeps

LEMMA HookInductive == HookInv /\ [Socket!Next]_socketVars => HookInv'
<1>. SUFFICES ASSUME HookInv, [Socket!Next]_socketVars PROVE HookInv'
  OBVIOUS
<1>1. CASE UNCHANGED socketVars
  BY <1>1 DEF socketVars, HookInv, Own
<1>2. CASE Socket!Mount
  BY <1>2, ConnectKeeps DEF Socket!Mount, HookInv
<1>3. CASE Socket!TimerFires
  <2>1. hook.ws = Socket!NoSocket
    BY <1>3 DEF Socket!TimerFires, HookInv, HookType
  <2>. QED BY <1>3, <2>1, ConnectKeeps DEF Socket!TimerFires
<1>4. ASSUME NEW s \in Sockets, Socket!Learns(s) \/ Socket!DialFails(s) PROVE HookInv'
  <2>. DEFINE e == [sock[s] EXCEPT !.client = "off"]
              f == [sock[s] EXCEPT !.at = "done", !.client = "off"]
  <2>1. e \in SockType /\ e.client = "off" /\ f \in SockType /\ f.client = "off"
    BY DEF HookInv, SockType
  <2>2. (Socket!Put(s, e) \/ Socket!Put(s, f)) /\ Socket!OnClose(s)
    BY <1>4 DEF Socket!Learns, Socket!DialFails
  <2>. HIDE DEF e, f
  <2>. QED BY <2>1, <2>2, CloseKeeps
<1>. QED BY <1>1, <1>2, <1>3, <1>4, UnmountKeeps, HeartbeatKeeps, SocketKeeps
         DEF Socket!Next, Socket!PageStep, Socket!ServerStep, Socket!Broken

(* However its connections break, at either end, and however often it comes  *)
(* and goes: a page has one socket or a timer that will make one while it is *)
(* mounted, and neither when it is not (useOnchainEvents, lib/ws.ts).        *)
THEOREM HookStaysTidy == BackgroundSpec => []Socket!HookTidy
<1>1. BackgroundInit => HookInv
  <2>. SUFFICES ASSUME Socket!Init PROVE HookInv
    BY DEF BackgroundInit
  <2>. QED BY UnusedIs DEF Socket!Init, HookInv, HookType, Own, Socket!Unused
<1>2. HookInv /\ [BackgroundNext]_background => HookInv'
  <2>1. [BackgroundNext]_background => [Socket!Next]_socketVars
    BY DEF BackgroundNext, Worker, SocketStep, Watchlist, background
  <2>. QED BY <2>1, HookInductive
<1>3. HookInv => Socket!HookTidy
  BY DEF HookInv, Own, Socket!HookTidy
<1>. QED BY <1>1, <1>2, <1>3, PTL DEF BackgroundSpec
===============================================================================
