---------------------------- MODULE IndexerProofs ----------------------------
(***************************************************************************)
(* Theorems about Indexer, for any chain, window and batch size, and for   *)
(* any number of notices, sweeps, failures and restarts: the two workers   *)
(* interleave at every await.                                              *)
(***************************************************************************)
EXTENDS Indexer, SequenceTheorems, WellFoundedInduction, TLAPS

Places == {"idle", "load", "event", "rows", "candle", "done", "read", "boot", "batch"}
Workers == [pc : Places, job : 0..MaxBlock, todo : SUBSET Events, mem : [Events -> Nat],
            from : Nat, top : 0..MaxBlock, last : NoRow..MaxBlock, batches : Nat]

\* A worker has an event in hand, and past the trade's insert the trade is in
\* the table t.
WorkerOK(W, t) ==
    /\ W \in Workers
    /\ W.pc \in {"event", "rows", "candle"} => W.todo # {}
    /\ W.pc \in {"rows", "candle"} => Current(W) \in t

TablesOK ==
    /\ trades \subseteq Events \ Funding
    /\ DOMAIN liq \subseteq Events /\ \A e \in DOMAIN liq : liq[e] \in [Events -> Nat]
    /\ volume \in [Events -> Nat]
    /\ DerivedAfterTrade

SyncOK ==
    /\ head \in 0..MaxBlock
    /\ txq \in Seq(1..MaxBlock) /\ sweepq \in Nat /\ lock \in BOOLEAN
    /\ cursor \in NoRow..MaxBlock /\ sweeping \in BOOLEAN

IndexerInv ==
    /\ SyncOK /\ TablesOK
    /\ WorkerOK(tx, trades) /\ WorkerOK(sw, trades)
    /\ tx.pc # "idle" => tx.job \in 1..MaxBlock
    /\ sw.pc = "boot" => trades # {}

\* Tables grow and rows stay as they are.
Grows ==
    /\ TablesOK' /\ trades \subseteq trades'
    /\ \A e \in DOMAIN liq : e \in DOMAIN liq' /\ liq'[e] = liq[e]

-----------------------------------------------------------------------------
(* Events and their order. *)

(* Among events there is a first.                                           *)
LEMMA MinExists ==
    ASSUME NEW S, S \subseteq Nat, S # {}
    PROVE  \E x \in S : \A y \in S : x <= y
<1> DEFINE R == OpToRel(<, Nat)
<1>1. \E x \in S : \A y \in S : ~ (<<y, x>> \in R)
  BY NatLessThanWellFounded, WFMin
<1>2. \A x, y \in Nat : <<y, x>> \in R <=> y < x
  BY DEF OpToRel
<1>3. PICK x \in S : \A y \in S : ~(y < x)
  BY <1>1, <1>2
<1>4. \A y \in S : x <= y
  BY <1>3
<1>5. QED
  BY <1>4

LEMMA EventsNat == Events \subseteq Nat
BY IndexerAssumption DEF Events

(* ... and a last.                                                          *)
LEMMA LastExists ==
    ASSUME NEW E, E \subseteq Events, E # {}
    PROVE  \E c \in E : \A d \in E : d <= c
<1> DEFINE S == {NumEvents - e : e \in E}
<1>1. S \subseteq Nat /\ S # {}
  <2>1. \A e \in Events : NumEvents - e \in Nat
    BY IndexerAssumption DEF Events
  <2>2. QED
    BY <2>1
<1> HIDE DEF S
<1>2. PICK x \in S : \A y \in S : x <= y
  BY <1>1, MinExists
<1> USE DEF S
<1>3. PICK e \in E : x = NumEvents - e
  OBVIOUS
<1>4. \A d \in E : NumEvents - e <= NumEvents - d
  BY <1>2, <1>3
<1>5. ASSUME NEW d \in E
      PROVE  d <= e
  <2>1. d \in Int /\ e \in Int /\ NumEvents \in Int
    BY IndexerAssumption DEF Events
  <2>2. QED
    BY <1>4, <2>1
<1>6. QED
  BY <1>5

LEMMA CurrentIn ==
    ASSUME NEW W \in Workers, W.todo # {}
    PROVE  Current(W) \in W.todo /\ Current(W) \in Events
<1>1. W.todo \subseteq Events
  BY DEF Workers
<1>2. \E x \in W.todo : \A y \in W.todo : x <= y
  BY <1>1, EventsNat, MinExists
<1>3. QED
  BY <1>1, <1>2 DEF Current, Min

LEMMA EmptyCounts == Empty \in [Events -> Nat]
BY DEF Empty

LEMMA IdleOK == \A t : WorkerOK(Idle, t) /\ Idle.pc = "idle"
<1>1. 0 \in 0..MaxBlock /\ 0 \in NoRow..MaxBlock
  BY IndexerAssumption DEF NoRow
<1>2. QED
  BY <1>1, EmptyCounts DEF WorkerOK, Workers, Idle, Places

(* What a worker holds stays true when the tables grow.                     *)
LEMMA WorkerStays == \A W, t, u : WorkerOK(W, t) /\ t \subseteq u => WorkerOK(W, u)
BY DEF WorkerOK

-----------------------------------------------------------------------------
(* processLogs. *)

LEMMA LoadsCounts ==
    ASSUME TablesOK
    PROVE  LoadMarketState \in [Events -> Nat]
<1>1. CASE DOMAIN liq = {}
  BY <1>1, EmptyCounts DEF LoadMarketState
<1>2. CASE DOMAIN liq # {}
  <2>1. \E c \in DOMAIN liq : \A d \in DOMAIN liq : d <= c
    BY <1>2, LastExists DEF TablesOK
  <2>2. QED
    BY <1>2, <2>1 DEF LoadMarketState, TablesOK
<1>3. QED
  BY <1>1, <1>2

LEMMA InsertGrows ==
    ASSUME TablesOK, NEW e \in Events, NEW n \in [Events -> Nat], InsertLiquidityEvent(e, n),
           trades \subseteq trades', trades' \subseteq Events \ Funding,
           e \in Funding \/ e \in trades', UNCHANGED volume
    PROVE  Grows
<1>1. CASE e \in DOMAIN liq
  BY <1>1 DEF InsertLiquidityEvent, Grows, TablesOK, DerivedAfterTrade
<1>2. CASE e \notin DOMAIN liq
  <2>1. liq' = [d \in DOMAIN liq \union {e} |-> IF d = e THEN n ELSE liq[d]]
    BY <1>2 DEF InsertLiquidityEvent
  <2>2. DOMAIN liq' = DOMAIN liq \union {e} /\ liq'[e] = n
        /\ \A d \in DOMAIN liq : liq'[d] = liq[d]
    BY <1>2, <2>1
  <2>3. QED
    BY <2>2 DEF Grows, TablesOK, DerivedAfterTrade
<1>3. QED
  BY <1>1, <1>2

LEMMA AdvanceOK ==
    ASSUME NEW W \in Workers, NEW t
    PROVE  WorkerOK(Advance(W), t) /\ Advance(W).job = W.job
           /\ Advance(W).pc \in {"done", "event"}
<1>1. Rest(W) \subseteq Events
  BY DEF Rest, Workers
<1>2. Advance(W) \in Workers
  BY <1>1 DEF Advance, Workers, Places
<1>3. Advance(W).todo = Rest(W) /\ Advance(W).pc = (IF Rest(W) = {} THEN "done" ELSE "event")
      /\ Advance(W).job = W.job
  BY DEF Advance, Workers
<1>4. QED
  BY <1>2, <1>3 DEF WorkerOK

\* The worker's step, and what it leaves of W.
Handles(W, W1) ==
    /\ WorkerOK(W1, trades') /\ W1.job = W.job /\ W1.pc \notin {"idle", "boot", "read"}
    /\ Grows

LEMMA StillGrows ==
    ASSUME TablesOK, UNCHANGED tables
    PROVE  Grows
BY DEF tables, Grows, TablesOK, DerivedAfterTrade

LEMMA LoadHandles ==
    ASSUME TablesOK, NEW W, NEW W1, WorkerOK(W, trades), LoadStep(W, W1)
    PROVE  Handles(W, W1)
<1>1. UNCHANGED tables /\ Grows
  BY StillGrows DEF LoadStep
<1>2. W \in Workers
  BY DEF WorkerOK
<1>3. CASE W.todo = {}
  <2>1. W1 = [W EXCEPT !.pc = "done"]
    BY <1>3 DEF LoadStep
  <2>2. W1 \in Workers /\ W1.pc = "done" /\ W1.job = W.job
    BY <1>2, <2>1 DEF Workers, Places
  <2>3. QED
    BY <1>1, <2>2 DEF Handles, WorkerOK
<1>4. CASE W.todo # {}
  <2>1. W1 = [W EXCEPT !.pc = "event", !.mem = LoadMarketState]
    BY <1>4 DEF LoadStep
  <2>2. W1 \in Workers /\ W1.pc = "event" /\ W1.job = W.job /\ W1.todo = W.todo
    BY <1>2, <2>1, LoadsCounts DEF Workers, Places
  <2>3. QED
    BY <1>1, <1>4, <2>2 DEF Handles, WorkerOK
<1>5. QED
  BY <1>3, <1>4

(* Adding one event to reserves.                                            *)
LEMMA CountOne ==
    ASSUME NEW n \in [Events -> Nat], NEW e \in Events
    PROVE  [n EXCEPT ![e] = @ + 1] \in [Events -> Nat]
OBVIOUS

LEMMA FundingHandles ==
    ASSUME TablesOK, NEW W, NEW W1, WorkerOK(W, trades), FundingStep(W, W1)
    PROVE  Handles(W, W1)
<1> DEFINE e == Current(W)
           mem == [W.mem EXCEPT ![e] = @ + 1]
           V == [W EXCEPT !.mem = mem]
<1>1. W \in Workers /\ e \in Events /\ e \in Funding
  BY CurrentIn DEF WorkerOK, FundingStep
<1>2. InsertLiquidityEvent(e, mem) /\ W1 = Advance(V) /\ UNCHANGED <<trades, volume>>
  BY DEF FundingStep
<1>3. mem \in [Events -> Nat]
  BY <1>1, CountOne DEF Workers
<1> HIDE DEF mem
<1>4. V \in Workers /\ V.job = W.job
  BY <1>1, <1>3 DEF Workers
<1> HIDE DEF e, V
<1>5. trades' \subseteq Events \ Funding
  BY <1>2 DEF TablesOK
<1>6. Grows
  BY <1>1, <1>2, <1>3, <1>5, InsertGrows
<1>7. QED
  BY <1>2, <1>4, <1>6, AdvanceOK DEF Handles

LEMMA TradeHandles ==
    ASSUME TablesOK, NEW W, NEW W1, WorkerOK(W, trades), TradeStep(W, W1)
    PROVE  Handles(W, W1)
<1> DEFINE e == Current(W)
           mem == [W.mem EXCEPT ![e] = @ + 1]
<1>1. W \in Workers /\ W.todo # {} /\ e \in Events /\ e \notin Funding
  BY CurrentIn DEF WorkerOK, TradeStep
<1>2. mem \in [Events -> Nat]
  BY <1>1, CountOne DEF Workers
<1>3. W1 = [W EXCEPT !.mem = mem, !.pc = "rows"]
  BY DEF TradeStep
<1> HIDE DEF mem
<1>4. W1 \in Workers /\ W1.pc = "rows" /\ W1.job = W.job /\ W1.todo = W.todo
  BY <1>1, <1>2, <1>3 DEF Workers, Places
<1>5. trades' = trades \union {e} /\ UNCHANGED <<liq, volume>>
  BY DEF TradeStep
<1>6. Current(W1) \in trades'
  BY <1>4, <1>5 DEF Current
<1> HIDE DEF e
<1>7. Grows
  BY <1>1, <1>5 DEF Grows, TablesOK, DerivedAfterTrade
<1>8. QED
  BY <1>1, <1>4, <1>6, <1>7 DEF Handles, WorkerOK

LEMMA RowsHandles ==
    ASSUME TablesOK, NEW W, NEW W1, WorkerOK(W, trades), RowsStep(W, W1)
    PROVE  Handles(W, W1)
<1> DEFINE e == Current(W)
<1>1. W \in Workers /\ W.todo # {} /\ e \in Events /\ e \in trades
  BY CurrentIn DEF WorkerOK, RowsStep
<1>2. InsertLiquidityEvent(e, W.mem) /\ W1 = [W EXCEPT !.pc = "candle"]
      /\ UNCHANGED <<trades, volume>>
  BY DEF RowsStep
<1>3. W1 \in Workers /\ W1.pc = "candle" /\ W1.job = W.job /\ W1.todo = W.todo
  BY <1>1, <1>2 DEF Workers, Places
<1>4. Current(W1) \in trades'
  BY <1>1, <1>2, <1>3 DEF Current
<1>5. W.mem \in [Events -> Nat] /\ trades' \subseteq Events \ Funding
  BY <1>1, <1>2 DEF Workers, TablesOK
<1> HIDE DEF e
<1>6. Grows
  BY <1>1, <1>2, <1>5, InsertGrows
<1>7. QED
  BY <1>1, <1>3, <1>4, <1>6 DEF Handles, WorkerOK

LEMMA CandleHandles ==
    ASSUME TablesOK, NEW W, NEW W1, WorkerOK(W, trades), CandleStep(W, W1)
    PROVE  Handles(W, W1)
<1> DEFINE e == Current(W)
<1>1. W \in Workers /\ e \in Events /\ e \in trades
  BY CurrentIn DEF WorkerOK, CandleStep
<1>2. volume' = [volume EXCEPT ![e] = @ + 1] /\ W1 = Advance(W) /\ UNCHANGED <<trades, liq>>
  BY DEF CandleStep
<1> HIDE DEF e
<1>3. Grows
  <2>1. volume' \in [Events -> Nat]
    BY <1>1, <1>2, CountOne DEF TablesOK
  <2>2. \A d \in Events : d # e => volume'[d] = volume[d]
    BY <1>1, <1>2 DEF TablesOK
  <2>3. QED
    BY <1>1, <1>2, <2>1, <2>2 DEF Grows, TablesOK, DerivedAfterTrade
<1>4. QED
  BY <1>1, <1>2, <1>3, AdvanceOK DEF Handles

LEMMA ProcessHandles ==
    ASSUME TablesOK, NEW W, NEW W1, WorkerOK(W, trades), ProcessStep(W, W1)
    PROVE  Handles(W, W1)
BY LoadHandles, FundingHandles, TradeHandles, RowsHandles, CandleHandles DEF ProcessStep

LEMMA SkipHandles ==
    ASSUME TablesOK, NEW W, NEW W1, WorkerOK(W, trades), SkipStep(W, W1)
    PROVE  Handles(W, W1)
<1> DEFINE e == Current(W)
           V == IF W.pc = "event" THEN [W EXCEPT !.mem[e] = @ + 1] ELSE W
<1>1. Grows
  BY StillGrows DEF SkipStep
<1>2. W \in Workers /\ e \in Events
  BY CurrentIn DEF WorkerOK, SkipStep
<1>3. W1 = Advance(V)
  BY DEF SkipStep
<1>4. V \in Workers /\ V.job = W.job
  <2> DEFINE mem == [W.mem EXCEPT ![e] = @ + 1]
  <2>1. mem \in [Events -> Nat]
    BY <1>2, CountOne DEF Workers
  <2>2. V = IF W.pc = "event" THEN [W EXCEPT !.mem = mem] ELSE W
    OBVIOUS
  <2> HIDE DEF mem, V
  <2>3. QED
    BY <1>2, <2>1, <2>2 DEF Workers
<1> HIDE DEF V
<1>5. QED
  BY <1>1, <1>3, <1>4, AdvanceOK DEF Handles

-----------------------------------------------------------------------------
(* The steps of the workers and of the environment. *)

\* What a step that leaves the tables alone, or lets them grow, still has to
\* show.
Keeps ==
    /\ SyncOK' /\ WorkerOK(tx', trades') /\ WorkerOK(sw', trades')
    /\ tx'.pc # "idle" => tx'.job \in 1..MaxBlock
    /\ sw'.pc = "boot" => trades' # {}

LEMMA MaxOfIn ==
    ASSUME NEW m \in NoRow..MaxBlock, NEW n \in NoRow..MaxBlock
    PROVE  MaxOf(m, n) \in NoRow..MaxBlock /\ MaxOf(m, n) >= m /\ MaxOf(m, n) >= n
BY IndexerAssumption DEF MaxOf, NoRow

LEMMA EnsuredIn == SyncOK => Ensured \in NoRow..MaxBlock
<1> SUFFICES ASSUME SyncOK PROVE Ensured \in NoRow..MaxBlock
  OBVIOUS
<1>1. MaxOf(head - InitLag, Baseline) \in NoRow..MaxBlock
  BY IndexerAssumption DEF SyncOK, MaxOf, NoRow
<1>2. QED
  BY <1>1 DEF SyncOK, Ensured

LEMMA HeadTail ==
    ASSUME SyncOK, txq # <<>>
    PROVE  /\ Head(txq) \in 1..MaxBlock /\ Tail(txq) \in Seq(1..MaxBlock)
           /\ Append(Tail(txq), Head(txq)) \in Seq(1..MaxBlock)
<1>1. txq \in Seq(1..MaxBlock)
  BY DEF SyncOK
<1>2. Head(txq) \in 1..MaxBlock /\ Tail(txq) \in Seq(1..MaxBlock)
  BY <1>1, HeadTailProperties
<1>3. QED
  BY <1>2, AppendProperties

LEMMA TxKeeps ==
    ASSUME IndexerInv, TxWorker
    PROVE  Keeps /\ Grows
<1> USE DEF IndexerInv
<1>1. CASE TxRequeue
  <2>1. UNCHANGED <<head, sweepq, lock, sync, tables, tx, sw>>
    BY <1>1 DEF TxRequeue
  <2>2. txq' \in Seq(1..MaxBlock)
    BY <1>1, HeadTail DEF TxRequeue
  <2>3. QED
    BY <2>1, <2>2, StillGrows DEF Keeps, SyncOK, sync, tables
<1>2. CASE TxStart
  <2> DEFINE todo == EventsIn(Head(txq), Head(txq))
             W == [Idle EXCEPT !.pc = "load", !.job = Head(txq), !.todo = todo]
  <2>1. txq' = Tail(txq) /\ cursor' = Ensured /\ tx' = W
        /\ UNCHANGED <<head, sweepq, lock, sweeping, tables, sw>>
    BY <1>2 DEF TxStart
  <2>2. Head(txq) \in 1..MaxBlock /\ Tail(txq) \in Seq(1..MaxBlock)
    BY <1>2, HeadTail DEF TxStart
  <2>3. todo \subseteq Events
    BY DEF EventsIn
  <2> HIDE DEF todo
  <2>4. WorkerOK(W, trades) /\ W.pc # "idle" /\ W.job \in 1..MaxBlock
    <3>1. Idle \in Workers
      BY IdleOK DEF WorkerOK
    <3>2. W \in Workers
      <4>1. Head(txq) \in 0..MaxBlock
        BY <2>2
      <4>2. QED
        BY <2>3, <3>1, <4>1 DEF Workers, Places
    <3>3. W.pc = "load" /\ W.job = Head(txq)
      BY <3>1 DEF Workers
    <3>4. QED
      BY <2>2, <3>2, <3>3 DEF WorkerOK
  <2> HIDE DEF W
  <2>5. QED
    BY <2>1, <2>2, <2>4, EnsuredIn, StillGrows DEF Keeps, SyncOK, tables
<1>3. CASE TxProcess
  <2>1. ProcessStep(tx, tx') /\ UNCHANGED <<head, queues, sync, sw>>
    BY <1>3 DEF TxProcess
  <2>2. Handles(tx, tx')
    BY <2>1, ProcessHandles
  <2>3. tx.pc # "idle"
    BY <2>1 DEF ProcessStep, LoadStep, FundingStep, TradeStep, RowsStep, CandleStep
  <2>4. QED
    BY <2>1, <2>2, <2>3, WorkerStays DEF Handles, Grows, Keeps, SyncOK, queues, sync
<1>4. CASE TxFinish
  <2>1. UNCHANGED <<head, txq, sweepq, tables, sw>> /\ tx' = Idle /\ lock' = FALSE
        /\ cursor' = MaxOf(cursor, tx.job) /\ sweeping' = FALSE /\ tx.pc = "done"
    BY <1>4 DEF TxFinish, UpdateMarketSync
  <2>2. cursor' \in NoRow..MaxBlock
    <3>1. tx.job \in NoRow..MaxBlock
      BY <2>1, IndexerAssumption DEF NoRow
    <3>2. QED
      BY <2>1, <3>1, MaxOfIn DEF SyncOK
  <2>3. QED
    BY <2>1, <2>2, IdleOK, StillGrows DEF Keeps, SyncOK, tables
<1>5. QED
  BY <1>1, <1>2, <1>3, <1>4 DEF TxWorker

\* A sweep goes on from block b.
LEMMA ScanOK ==
    ASSUME IndexerInv, NEW b \in NoRow..MaxBlock, NEW t
    PROVE  WorkerOK(Scan(b), t) /\ Scan(b).pc = "batch"
<1>1. sw \in Workers /\ head \in 0..MaxBlock /\ b + 1 \in Nat
  BY DEF IndexerInv, WorkerOK, SyncOK, NoRow
<1>2. Scan(b) \in Workers /\ Scan(b).pc = "batch"
  BY <1>1 DEF Scan, Workers, Places
<1>3. QED
  BY <1>2 DEF WorkerOK

LEMMA SweepKeeps ==
    ASSUME IndexerInv, SweepWorker
    PROVE  Keeps /\ Grows
<1> USE DEF IndexerInv
<1>0. sw \in Workers
  BY DEF WorkerOK
<1>1. CASE SweepStart
  <2> DEFINE W == [Idle EXCEPT !.pc = "read"]
  <2>1. sweepq > 0 /\ sweepq' = sweepq - 1 /\ sw' = W
        /\ cursor' = MaxOf(cursor, 0) /\ sweeping' = TRUE
        /\ UNCHANGED <<head, txq, lock, tables, tx>>
    BY <1>1 DEF SweepStart, UpdateMarketSync
  <2>2. W \in Workers /\ W.pc = "read"
    BY IdleOK DEF WorkerOK, Workers, Places
  <2> HIDE DEF W
  <2>3. cursor' \in NoRow..MaxBlock
    <3>1. 0 \in NoRow..MaxBlock
      BY IndexerAssumption DEF NoRow
    <3>2. QED
      BY <2>1, <3>1, MaxOfIn DEF SyncOK
  <2>4. sweepq' \in Nat
    BY <2>1 DEF SyncOK
  <2>5. WorkerOK(sw', trades')
    BY <2>1, <2>2 DEF WorkerOK
  <2>6. QED
    BY <2>1, <2>2, <2>3, <2>4, <2>5, StillGrows DEF Keeps, SyncOK, tables
<1>2. CASE SweepRead
  <2>1. UNCHANGED <<head, queues, sync, tables, tx>>
    BY <1>2 DEF SweepRead
  <2>2. \/ sw' = Idle
        \/ sw' = [sw EXCEPT !.pc = "boot"] /\ trades # {}
        \/ sw' = Scan(cursor)
    BY <1>2 DEF SweepRead
  <2>3. WorkerOK(sw', trades') /\ (sw'.pc = "boot" => trades' # {})
    <3>1. trades' = trades
      BY <2>1 DEF tables
    <3>2. CASE sw' = Idle
      BY <3>2, IdleOK
    <3>3. CASE sw' = [sw EXCEPT !.pc = "boot"] /\ trades # {}
      <4>1. sw' \in Workers /\ sw'.pc = "boot"
        BY <1>0, <3>3 DEF Workers, Places
      <4>2. QED
        BY <3>1, <3>3, <4>1 DEF WorkerOK
    <3>4. CASE sw' = Scan(cursor)
      BY <3>4, ScanOK DEF SyncOK
    <3>5. QED
      BY <2>2, <3>2, <3>3, <3>4
  <2>4. QED
    BY <2>1, <2>3, StillGrows DEF Keeps, SyncOK, queues, sync, tables
<1>3. CASE SweepBootstrap
  <2> DEFINE e == CHOOSE x \in trades : \A d \in trades : x <= d
  <2>1. UNCHANGED <<head, queues, sweeping, tables, tx>> /\ sw' = Scan(cursor')
        /\ cursor' = MaxOf(BlockOf[e] - SafetyWindow, 0) /\ trades # {}
    BY <1>3 DEF SweepBootstrap
  <2>2. e \in Events
    <3>1. trades \subseteq Events
      BY DEF TablesOK
    <3>2. \E x \in trades : \A d \in trades : x <= d
      BY <2>1, <3>1, EventsNat, MinExists
    <3>3. QED
      BY <3>1, <3>2
  <2> HIDE DEF e
  <2>3. BlockOf[e] \in 1..MaxBlock
    BY <2>2, IndexerAssumption
  <2>4. cursor' \in NoRow..MaxBlock
    BY <2>1, <2>3, IndexerAssumption DEF MaxOf, NoRow
  <2>5. WorkerOK(sw', trades') /\ sw'.pc = "batch"
    BY <2>1, <2>4, ScanOK
  <2>6. QED
    BY <2>1, <2>4, <2>5, StillGrows DEF Keeps, SyncOK, queues, tables
<1>4. CASE SweepBatch
  <2> DEFINE end == sw.from + ScanBlocks - 1
             upper == IF end > sw.top THEN sw.top ELSE end
             todo == EventsIn(sw.from, upper)
             W == [sw EXCEPT !.pc = "load", !.last = upper, !.from = upper + 1,
                             !.batches = sw.batches + 1, !.todo = todo]
  <2>1. UNCHANGED <<head, queues, sync, tables, tx>> /\ sw' = W /\ sw.from <= sw.top
    BY <1>4 DEF SweepBatch
  <2>2. upper \in 0..MaxBlock /\ upper + 1 \in Nat /\ sw.batches + 1 \in Nat
    <3>1. sw.from \in Nat /\ sw.top \in 0..MaxBlock /\ sw.batches \in Nat
      BY <1>0 DEF Workers
    <3>2. MaxBlock \in Nat /\ ScanBlocks \in Nat \ {0}
      BY IndexerAssumption
    <3>3. QED
      BY <2>1, <3>1, <3>2
  <2>3. todo \subseteq Events
    BY DEF EventsIn
  <2>4. upper \in NoRow..MaxBlock
    BY <2>2 DEF NoRow
  <2> HIDE DEF upper, todo
  <2>5. W \in Workers /\ W.pc = "load"
    BY <1>0, <2>2, <2>3, <2>4 DEF Workers, Places
  <2> HIDE DEF W
  <2>6. QED
    BY <2>1, <2>5, StillGrows DEF Keeps, WorkerOK, SyncOK, queues, sync, tables
<1>5. CASE SweepProcess
  <2>1. UNCHANGED <<head, queues, sync, tx>>
    BY <1>5 DEF SweepProcess
  <2>2. WorkerOK(sw', trades') /\ sw'.pc # "boot" /\ Grows
    <3>1. CASE ProcessStep(sw, sw')
      BY <3>1, ProcessHandles DEF Handles
    <3>2. CASE sw' = [sw EXCEPT !.pc = "batch"] /\ UNCHANGED tables
      <4>1. sw' \in Workers /\ sw'.pc = "batch"
        BY <1>0, <3>2 DEF Workers, Places
      <4>2. QED
        BY <3>2, <4>1, StillGrows DEF WorkerOK
    <3>3. QED
      BY <1>5, <3>1, <3>2 DEF SweepProcess
  <2>3. QED
    BY <2>1, <2>2, WorkerStays DEF Grows, Keeps, SyncOK, queues, sync
<1>6. CASE SweepFinish
  <2>1. UNCHANGED <<head, txq, sweepq, tables, tx>> /\ sw' = Idle /\ lock' = FALSE
        /\ cursor' = MaxOf(cursor, sw.last) /\ sweeping' = FALSE
    BY <1>6 DEF SweepFinish, UpdateMarketSync
  <2>2. cursor' \in NoRow..MaxBlock
    BY <1>0, <2>1, MaxOfIn DEF SyncOK, Workers
  <2>3. QED
    BY <2>1, <2>2, IdleOK, StillGrows DEF Keeps, SyncOK, tables
<1>7. QED
  BY <1>1, <1>2, <1>3, <1>4, <1>5, <1>6 DEF SweepWorker

LEMMA FaultsKeep ==
    ASSUME IndexerInv, Faults
    PROVE  Keeps /\ Grows
<1> USE DEF IndexerInv
<1>1. CASE TxSkip
  <2>1. SkipStep(tx, tx') /\ UNCHANGED <<head, queues, sync, sw>>
    BY <1>1 DEF TxSkip
  <2>2. Handles(tx, tx')
    BY <2>1, SkipHandles
  <2>3. tx.pc # "idle"
    BY <2>1 DEF SkipStep
  <2>4. QED
    BY <2>1, <2>2, <2>3, WorkerStays DEF Handles, Grows, Keeps, SyncOK, queues, sync
<1>2. CASE SweepSkip
  <2>1. SkipStep(sw, sw') /\ UNCHANGED <<head, queues, sync, tx>>
    BY <1>2 DEF SweepSkip
  <2>2. Handles(sw, sw')
    BY <2>1, SkipHandles
  <2>3. QED
    BY <2>1, <2>2, WorkerStays DEF Handles, Grows, Keeps, SyncOK, queues, sync
<1>3. CASE TxFail
  <2>1. UNCHANGED <<head, txq, sync, tables, sw>> /\ tx' = Idle /\ lock' = FALSE
        /\ sweepq' = IF lock THEN sweepq ELSE sweepq + 1
    BY <1>3 DEF TxFail
  <2>2. sweepq' \in Nat
    BY <2>1 DEF SyncOK
  <2>3. QED
    BY <2>1, <2>2, IdleOK, StillGrows DEF Keeps, SyncOK, sync, tables
<1>4. CASE TxFinishFail
  <2>1. UNCHANGED <<head, sweepq, sync, tables, sw>> /\ tx' = Idle /\ lock' = FALSE
        /\ txq' = Append(txq, tx.job) /\ tx.job \in 1..MaxBlock
    BY <1>4 DEF TxFinishFail
  <2>2. txq' \in Seq(1..MaxBlock)
    BY <2>1 DEF SyncOK
  <2>3. QED
    BY <2>1, <2>2, IdleOK, StillGrows DEF Keeps, SyncOK, sync, tables
<1>5. CASE SweepFail \/ SweepFailEarly
  <2>1. UNCHANGED <<head, txq, sync, tables, tx>> /\ sw' = Idle
        /\ lock' = TRUE /\ sweepq' \in {sweepq, sweepq + 1}
    BY <1>5 DEF SweepFail, SweepFailEarly, EnqueueSweep
  <2>2. sweepq' \in Nat
    BY <2>1 DEF SyncOK
  <2>3. QED
    BY <2>1, <2>2, IdleOK, StillGrows DEF Keeps, SyncOK, sync, tables
<1>6. CASE Crash
  <2>1. UNCHANGED <<head, queues, sync, tables>> /\ tx' = Idle /\ sw' = Idle
    BY <1>6 DEF Crash
  <2>2. QED
    BY <2>1, IdleOK, StillGrows DEF Keeps, SyncOK, queues, sync, tables
<1>7. QED
  BY <1>1, <1>2, <1>3, <1>4, <1>5, <1>6 DEF Faults

LEMMA EnvironmentKeeps ==
    ASSUME IndexerInv,
           Mine \/ MaybeEnqueueSweep \/ LockExpires \/ \E b \in 1..MaxBlock : Notify(b)
    PROVE  Keeps /\ Grows
<1> USE DEF IndexerInv
<1>1. CASE Mine
  <2>1. head < MaxBlock /\ head' = head + 1 /\ UNCHANGED <<queues, sync, tables, tx, sw>>
    BY <1>1 DEF Mine
  <2>2. head' \in 0..MaxBlock
    BY <2>1, IndexerAssumption DEF SyncOK
  <2>3. QED
    BY <2>1, <2>2, StillGrows DEF Keeps, SyncOK, queues, sync, tables
<1>2. CASE MaybeEnqueueSweep
  <2>1. UNCHANGED <<head, txq, sweeping, tables, tx, sw>> /\ cursor' = Ensured
    BY <1>2 DEF MaybeEnqueueSweep
  <2>2. lock' \in BOOLEAN /\ sweepq' \in Nat
    <3>1. \/ lock' = TRUE /\ sweepq' \in {sweepq, sweepq + 1}
          \/ UNCHANGED <<sweepq, lock>>
      BY <1>2 DEF MaybeEnqueueSweep, EnqueueSweep
    <3>2. sweepq' \in Nat
      BY <3>1 DEF SyncOK
    <3>3. lock' \in BOOLEAN
      BY <3>1, Zenon DEF SyncOK
    <3>4. QED
      BY <3>2, <3>3
  <2>3. QED
    BY <2>1, <2>2, EnsuredIn, StillGrows DEF Keeps, SyncOK, tables
<1>3. CASE LockExpires
  BY <1>3, StillGrows DEF LockExpires, Keeps, SyncOK, sync, tables
<1>4. ASSUME NEW b \in 1..MaxBlock, Notify(b)
      PROVE  Keeps /\ Grows
  <2>1. UNCHANGED <<head, sweepq, lock, sync, tables, tx, sw>> /\ txq' = Append(txq, b)
    BY <1>4 DEF Notify
  <2>2. txq' \in Seq(1..MaxBlock)
    BY <2>1 DEF SyncOK
  <2>3. QED
    BY <2>1, <2>2, StillGrows DEF Keeps, SyncOK, sync, tables
<1>5. QED
  BY <1>1, <1>2, <1>3, <1>4

-----------------------------------------------------------------------------
(* The invariant. *)

LEMMA NextGrows == IndexerInv /\ Next => Keeps /\ Grows
BY TxKeeps, SweepKeeps, FaultsKeep, EnvironmentKeeps DEF Next

LEMMA InitIndexerInv == Init => IndexerInv
<1> SUFFICES ASSUME Init PROVE IndexerInv
  OBVIOUS
<1>1. SyncOK
  <2>1. 0 \in 0..MaxBlock /\ NoRow \in NoRow..MaxBlock
    BY IndexerAssumption DEF NoRow
  <2>2. <<>> \in Seq(1..MaxBlock)
    OBVIOUS
  <2>3. QED
    BY <2>1, <2>2 DEF Init, SyncOK
<1>2. TablesOK
  BY EmptyCounts DEF Init, TablesOK, DerivedAfterTrade, Empty
<1>3. QED
  BY <1>1, <1>2, IdleOK DEF Init, IndexerInv

LEMMA NextIndexerInv == IndexerInv /\ [Next]_vars => IndexerInv'
<1> SUFFICES ASSUME IndexerInv, [Next]_vars PROVE IndexerInv'
  OBVIOUS
<1>1. CASE Next
  BY <1>1, NextGrows DEF IndexerInv, Keeps, Grows
<1>2. CASE UNCHANGED vars
  <2>1. UNCHANGED <<head, queues, sync, tables, tx, sw>>
    BY <1>2 DEF vars, work
  <2>2. Grows
    BY <2>1, StillGrows DEF IndexerInv
  <2>3. QED
    BY <2>1, <2>2 DEF IndexerInv, SyncOK, Grows, queues, sync, tables
<1>3. QED
  BY <1>1, <1>2

LEMMA IndexerInvariant == Spec => []IndexerInv
BY InitIndexerInv, NextIndexerInv, PTL DEF Spec

(* Types, for any chain and any number of calls: a cursor never passes the  *)
(* last block, a window never runs off it, a queued job names a block.      *)
THEOREM TypeCorrect == Spec => []TypeOK
<1>1. IndexerInv => TypeOK
  <2> SUFFICES ASSUME IndexerInv PROVE TypeOK
    OBVIOUS
  <2>1. \A W \in {tx, sw} : W.todo \subseteq Events /\ W.mem \in [Events -> Nat]
    BY DEF IndexerInv, WorkerOK, Workers
  <2>2. cursor \in {NoRow} \union 0..MaxBlock
    <3>1. cursor \in NoRow..MaxBlock /\ NoRow = -1
      BY DEF IndexerInv, SyncOK, NoRow
    <3>2. QED
      BY <3>1, IndexerAssumption
  <2>3. QED
    BY <2>1, <2>2 DEF IndexerInv, SyncOK, TablesOK, TypeOK
<1>2. QED
  BY <1>1, IndexerInvariant, PTL

(* However the two workers interleave over one market, and whatever fails or *)
(* is lost on the way, reserves and volume are stored only for trades that   *)
(* are there, and no trade or recorded reserve is ever rewritten or removed. *)
THEOREM RowsAreKept == Spec => RowsKept
<1>1. IndexerInv => DerivedAfterTrade
  BY DEF IndexerInv, TablesOK
<1>2. IndexerInv /\ [Next]_vars =>
          [/\ trades \subseteq trades'
           /\ \A e \in DOMAIN liq : e \in DOMAIN liq' /\ liq'[e] = liq[e]]_vars
  BY NextGrows DEF Grows
<1>3. QED
  BY <1>1, <1>2, IndexerInvariant, PTL DEF Spec, RowsKept, HistoryFixed

-----------------------------------------------------------------------------
(* What is stored while one worker is handed every block once and in order.  *)

\* Every event of D but those of T, once.
Counts(D, T) == [d \in Events |-> IF d \in D /\ d \notin T THEN 1 ELSE 0]
Blocks(lo, hi) == {e \in Events : lo < BlockOf[e] /\ BlockOf[e] <= hi}

\* The events of D that worker W has stored no reserves for.
Unwritten(W) == IF W.pc = "candle" THEN Rest(W) ELSE W.todo

\* W has handled the events of D up to those it has still to do: the rows r and
\* the volume v account for each of them once, and so does its memory.
Through(W, lo, D, r, v) ==
    /\ W.todo \subseteq D
    /\ \A e \in W.todo, d \in D : d >= e => d \in W.todo
    /\ W.pc \notin {"load", "event", "rows", "candle"} => W.todo = {}
    /\ DOMAIN r = D \ Unwritten(W)
    /\ \A e \in DOMAIN r : r[e] = Since(lo, e)
    /\ \A e \in Events : v[e] <= 1 /\ (e \in W.todo \/ e \notin D => v[e] = 0)
    /\ W.pc = "event" => W.mem = Counts(D, W.todo)
    /\ W.pc \in {"rows", "candle"} => W.mem = Counts(D, Rest(W))

\* The last block swept, or being swept.
Swept == IF sw.pc \in {"idle", "read"} THEN cursor ELSE sw.last

SweptFrom(lo) ==
    /\ lo <= cursor /\ sw.pc # "boot"
    /\ sw.pc \notin {"idle", "read"} => sw.from = sw.last + 1 /\ cursor <= sw.last
    /\ trades \subseteq Blocks(lo, Swept)
    /\ Through(sw, lo, Blocks(lo, Swept), liq, volume)

\* No transaction was named: the sweeps go on where the one before ended.
SweepOnly ==
    /\ tx.pc = "idle" /\ txq = <<>>
    /\ IF cursor = NoRow
       THEN /\ sw.pc = "idle" /\ sw.todo = {} /\ sweepq = 0
            /\ trades = {} /\ DOMAIN liq = {} /\ volume = Empty
       ELSE \E lo \in 0..MaxOf(MaxBlock - InitLag, Baseline) : SweptFrom(lo)

Named == MaxNotices - left.notices
\* The last block whose transaction was taken from the queue.
Taken == Named - Len(txq)

\* No sweep was asked for: the blocks were named in order, each when it was there.
TxOnly ==
    /\ sw.pc = "idle" /\ sweepq = 0
    /\ Named <= head /\ Taken >= 0
    /\ \A i \in 1..Len(txq) : txq[i] = Taken + i
    /\ tx.pc # "idle" => tx.job = Taken
    /\ Through(tx, 0, Blocks(0, Taken), liq, volume)

LeftOK == left \in [notices : 0..MaxNotices, sweeps : 0..MaxSweeps, retries : 0..MaxRetries,
                    errors : 0..MaxErrors, crashes : 0..MaxCrashes]
Unfailing ==
    left.errors = MaxErrors /\ left.retries = MaxRetries /\ left.crashes = MaxCrashes

ExactInv ==
    /\ LeftOK
    /\ Unfailing /\ left.notices = MaxNotices => SweepOnly
    /\ Unfailing /\ left.sweeps = MaxSweeps /\ ordered => TxOnly

LEMMA InOrder ==
    /\ Events \subseteq Nat /\ \A e \in Events : BlockOf[e] \in 1..MaxBlock
    /\ \A d, e \in Events : d <= e => BlockOf[d] <= BlockOf[e]
<1>1. Events \subseteq Nat /\ \A e \in Events : BlockOf[e] \in 1..MaxBlock
  BY EventsNat, IndexerAssumption
<1>2. ASSUME NEW d \in Events, NEW e \in Events, d <= e
      PROVE  BlockOf[d] <= BlockOf[e]
  <2>1. CASE d < e
    BY <2>1, IndexerAssumption
  <2>2. CASE d = e
    BY <1>1, <2>2
  <2>3. QED
    BY <1>1, <1>2, <2>1, <2>2
<1>3. QED
  BY <1>1, <1>2

LEMMA CurrentIs ==
    ASSUME NEW W \in Workers, W.todo # {}, NEW e, e = Current(W)
    PROVE  /\ e \in W.todo /\ e \in Events /\ Rest(W) = W.todo \ {e}
           /\ \A d \in W.todo : e <= d
<1>1. W.todo \subseteq Events
  BY DEF Workers
<1>2. \E x \in W.todo : \A y \in W.todo : x <= y
  BY <1>1, EventsNat, MinExists
<1>3. QED
  BY <1>1, <1>2 DEF Current, Min, Rest

\* T is what is left of D when it is handled in order.
Ending(T, D) == T \subseteq D /\ \A e \in T, d \in D : d >= e => d \in T

(* Up to the event in hand is all that was handled, and that event.          *)
LEMMA SinceIs ==
    ASSUME NEW lo, NEW hi \in Int, NEW D, D = Blocks(lo, hi),
           NEW W \in Workers, W.todo # {}, Ending(W.todo, D), NEW e, e = Current(W)
    PROVE  Since(lo, e) = Counts(D, Rest(W)) /\ Ending(Rest(W), D)
<1>1. /\ e \in W.todo /\ e \in Events /\ Rest(W) = W.todo \ {e} /\ e \in D
      /\ \A d \in W.todo : e <= d
  BY CurrentIs DEF Ending
<1>2. D \subseteq Events /\ \A d \in D : d \in Nat
  BY InOrder DEF Blocks
<1>3. ASSUME NEW d \in Events
      PROVE  lo < BlockOf[d] /\ d <= e <=> d \in D \ Rest(W)
  <2>1. ASSUME lo < BlockOf[d], d <= e
        PROVE  d \in D \ Rest(W)
    <3>1. BlockOf[d] <= BlockOf[e] /\ BlockOf[e] <= hi /\ BlockOf[d] \in Int /\ BlockOf[e] \in Int
      BY <1>1, <2>1, InOrder DEF Blocks
    <3>2. d \in D
      BY <2>1, <3>1 DEF Blocks
    <3>3. d \in W.todo => d = e
      <4>1. d \in Nat /\ e \in Nat
        BY <1>1, InOrder
      <4>2. QED
        BY <1>1, <2>1, <4>1
    <3>4. QED
      BY <1>1, <3>2, <3>3
  <2>2. ASSUME d \in D \ Rest(W)
        PROVE  lo < BlockOf[d] /\ d <= e
    <3>1. lo < BlockOf[d]
      BY <2>2 DEF Blocks
    <3>2. d # e => d \notin W.todo
      BY <1>1, <2>2
    <3>3. d \notin W.todo => ~(d >= e)
      BY <1>1, <2>2 DEF Ending
    <3>4. QED
      BY <1>1, <1>2, <2>2, <3>1, <3>2, <3>3
  <2>3. QED
    BY <2>1, <2>2
<1>4. Since(lo, e) = Counts(D, Rest(W))
  BY <1>3 DEF Since, Counts
<1>5. Ending(Rest(W), D)
  <2>1. ASSUME NEW x \in Rest(W), NEW d \in D, d >= x
        PROVE  d \in Rest(W)
    <3>1. d \in W.todo /\ x \in W.todo /\ x # e
      BY <1>1, <2>1 DEF Ending
    <3>2. d # e
      BY <1>1, <1>2, <2>1, <3>1 DEF Ending
    <3>3. QED
      BY <1>1, <3>1, <3>2
  <2>2. QED
    BY <1>1, <2>1 DEF Ending
<1>6. QED
  BY <1>4, <1>5

(* The last row accounts for all that was handled.                          *)
LEMMA LoadsHandled ==
    ASSUME TablesOK, NEW lo, NEW hi \in Int, NEW D, D = Blocks(lo, hi),
           NEW T, Ending(T, D), DOMAIN liq = D \ T,
           \A e \in DOMAIN liq : liq[e] = Since(lo, e)
    PROVE  LoadMarketState = Counts(D, T)
<1>1. D \subseteq Events
  BY DEF Blocks
<1>2. CASE DOMAIN liq = {}
  BY <1>2 DEF LoadMarketState, Empty, Counts
<1>3. CASE DOMAIN liq # {}
  <2> DEFINE m == CHOOSE e \in DOMAIN liq : \A d \in DOMAIN liq : d <= e
  <2>1. \E e \in DOMAIN liq : \A d \in DOMAIN liq : d <= e
    BY <1>3, LastExists DEF TablesOK
  <2>2. m \in DOMAIN liq /\ \A d \in DOMAIN liq : d <= m
    BY <2>1
  <2> HIDE DEF m
  <2>3. ASSUME NEW d \in Events
        PROVE  lo < BlockOf[d] /\ d <= m <=> d \in D \ T
    <3>1. m \in D /\ m \notin T /\ m \in Events /\ d \in Nat /\ m \in Nat
      BY <1>1, <2>2, InOrder
    <3>2. ASSUME lo < BlockOf[d], d <= m
          PROVE  d \in D \ T
      <4>1. BlockOf[d] <= BlockOf[m] /\ BlockOf[m] <= hi /\ BlockOf[d] \in Int /\ BlockOf[m] \in Int
        BY <3>1, <3>2, InOrder DEF Blocks
      <4>2. d \in D
        BY <3>2, <4>1 DEF Blocks
      <4>3. d \notin T
        BY <3>1, <3>2 DEF Ending
      <4>4. QED
        BY <4>2, <4>3
    <3>3. d \in D \ T => lo < BlockOf[d] /\ d <= m
      BY <2>2 DEF Blocks
    <3>4. QED
      BY <3>2, <3>3
  <2>4. liq[m] = Counts(D, T)
    BY <2>2, <2>3 DEF Since, Counts
  <2>5. LoadMarketState = liq[m]
    BY <1>3 DEF LoadMarketState, m
  <2>6. QED
    BY <2>4, <2>5
<1>4. QED
  BY <1>2, <1>3

(* An event's row is written: it is the row of all that was handled.         *)
LEMMA RowThrough ==
    ASSUME NEW lo, NEW hi \in Int, NEW D, D = Blocks(lo, hi), NEW W \in Workers, W.todo # {},
           Ending(W.todo, D), DOMAIN liq = D \ W.todo,
           \A e \in DOMAIN liq : liq[e] = Since(lo, e),
           InsertLiquidityEvent(Current(W), Counts(D, Rest(W)))
    PROVE  /\ DOMAIN liq' = D \ Rest(W)
           /\ \A e \in DOMAIN liq' : liq'[e] = Since(lo, e)
<1>1. PICK e : e = Current(W)
  OBVIOUS
<1>2. e \in W.todo /\ e \in D /\ Rest(W) = W.todo \ {e}
  BY <1>1, CurrentIs DEF Ending
<1>3. Since(lo, e) = Counts(D, Rest(W))
  BY <1>1, SinceIs
<1>4. liq' = [d \in DOMAIN liq \union {e} |-> IF d = e THEN Since(lo, e) ELSE liq[d]]
  BY <1>1, <1>2, <1>3 DEF InsertLiquidityEvent
<1>5. QED
  BY <1>2, <1>4

\* Each event is in the volume once at most, and none of T or outside D.
OnceIn(v, T, D) == \A e \in Events : v[e] <= 1 /\ (e \in T \/ e \notin D => v[e] = 0)

LEMMA AdvanceThrough ==
    ASSUME NEW lo, NEW D, NEW W \in Workers, NEW r, NEW v, Ending(Rest(W), D),
           DOMAIN r = D \ Rest(W), \A e \in DOMAIN r : r[e] = Since(lo, e),
           OnceIn(v, Rest(W), D), W.mem = Counts(D, Rest(W)), NEW W1, W1 = Advance(W)
    PROVE  Through(W1, lo, D, r, v)
<1>1. W1.todo = Rest(W) /\ W1.pc = (IF Rest(W) = {} THEN "done" ELSE "event") /\ W1.mem = W.mem
  BY DEF Advance, Workers
<1>2. QED
  BY <1>1 DEF Through, Ending, Unwritten, OnceIn

\* A step of processLogs that leaves W at its window.
Progress(W, W1, lo, D) ==
    /\ Through(W1, lo, D, liq', volume') /\ trades' \subseteq trades \union D
    /\ W1.job = W.job /\ W1.from = W.from /\ W1.last = W.last
    /\ W1.pc \in {"event", "rows", "candle", "done"}

LEMMA AdvanceIs ==
    ASSUME NEW W \in Workers, NEW W1, W1 = Advance(W)
    PROVE  /\ W1.job = W.job /\ W1.from = W.from /\ W1.last = W.last
           /\ W1.pc \in {"event", "done"}
BY DEF Advance, Workers

LEMMA LoadProgress ==
    ASSUME TablesOK, NEW lo, NEW hi \in Int, NEW D, D = Blocks(lo, hi), NEW W, NEW W1,
           WorkerOK(W, trades), Through(W, lo, D, liq, volume), LoadStep(W, W1)
    PROVE  Progress(W, W1, lo, D)
<1>1. W \in Workers /\ W.pc = "load" /\ UNCHANGED <<trades, liq, volume>>
  BY DEF WorkerOK, LoadStep, tables
<1>2. /\ Ending(W.todo, D) /\ DOMAIN liq = D \ W.todo
      /\ \A e \in DOMAIN liq : liq[e] = Since(lo, e)
  BY <1>1 DEF Through, Ending, Unwritten
<1>3. CASE W.todo = {}
  <2>1. W1 = [W EXCEPT !.pc = "done"]
    BY <1>3 DEF LoadStep
  <2>2. /\ W1.pc = "done" /\ W1.todo = W.todo
        /\ W1.job = W.job /\ W1.from = W.from /\ W1.last = W.last
    BY <1>1, <2>1 DEF Workers
  <2>3. QED
    BY <1>1, <1>2, <1>3, <2>2 DEF Progress, Through, Unwritten
<1>4. CASE W.todo # {}
  <2>1. W1 = [W EXCEPT !.pc = "event", !.mem = LoadMarketState]
    BY <1>4 DEF LoadStep
  <2>2. /\ W1.pc = "event" /\ W1.todo = W.todo /\ W1.mem = LoadMarketState
        /\ W1.job = W.job /\ W1.from = W.from /\ W1.last = W.last
    BY <1>1, <2>1 DEF Workers
  <2>3. LoadMarketState = Counts(D, W.todo)
    BY <1>2, LoadsHandled
  <2>4. QED
    BY <1>1, <1>2, <2>2, <2>3 DEF Progress, Through, Unwritten
<1>5. QED
  BY <1>3, <1>4

(* The event in hand is added to what was handled.                          *)
LEMMA CountsOne ==
    ASSUME NEW lo, NEW hi \in Int, NEW D, D = Blocks(lo, hi), NEW W \in Workers, W.todo # {},
           Ending(W.todo, D), W.mem = Counts(D, W.todo), NEW e, e = Current(W),
           NEW n, n = [W.mem EXCEPT ![e] = @ + 1]
    PROVE  n = Counts(D, Rest(W))
<1>1. e \in Events /\ e \in W.todo /\ e \in D /\ Rest(W) = W.todo \ {e}
  BY CurrentIs DEF Ending
<1>2. n = [d \in Events |-> IF d = e THEN 1 ELSE IF d \in D /\ d \notin W.todo THEN 1 ELSE 0]
  BY <1>1 DEF Counts
<1>3. QED
  BY <1>1, <1>2 DEF Counts

LEMMA FundingProgress ==
    ASSUME TablesOK, NEW lo, NEW hi \in Int, NEW D, D = Blocks(lo, hi), NEW W, NEW W1,
           WorkerOK(W, trades), Through(W, lo, D, liq, volume), FundingStep(W, W1)
    PROVE  Progress(W, W1, lo, D)
<1>1. W \in Workers /\ W.pc = "event" /\ W.todo # {} /\ UNCHANGED <<trades, volume>>
  BY DEF WorkerOK, FundingStep
<1>2. /\ Ending(W.todo, D) /\ DOMAIN liq = D \ W.todo
      /\ \A e \in DOMAIN liq : liq[e] = Since(lo, e)
      /\ W.mem = Counts(D, W.todo) /\ OnceIn(volume, W.todo, D)
  BY <1>1 DEF Through, Ending, Unwritten, OnceIn
<1>3. PICK e : e = Current(W)
  OBVIOUS
<1>4. PICK n : n = [W.mem EXCEPT ![e] = @ + 1]
  OBVIOUS
<1>5. PICK V : V = [W EXCEPT !.mem = n]
  OBVIOUS
<1>6. n = Counts(D, Rest(W)) /\ e \in Events
  BY <1>1, <1>2, <1>3, <1>4, CountsOne, CurrentIs
<1>7. n \in [Events -> Nat]
  BY <1>1, <1>4, <1>6, CountOne DEF Workers
<1>8. /\ V \in Workers /\ V.todo = W.todo /\ V.mem = n
      /\ V.job = W.job /\ V.from = W.from /\ V.last = W.last
  BY <1>1, <1>5, <1>7 DEF Workers
<1>9. Rest(V) = Rest(W)
  BY <1>8 DEF Rest, Current
<1>10. W1 = Advance(V) /\ InsertLiquidityEvent(e, n)
  BY <1>3, <1>4, <1>5 DEF FundingStep
<1>11. DOMAIN liq' = D \ Rest(W) /\ \A d \in DOMAIN liq' : liq'[d] = Since(lo, d)
  BY <1>1, <1>2, <1>3, <1>6, <1>10, RowThrough
<1>12. Ending(Rest(W), D)
  BY <1>1, <1>2, <1>3, SinceIs
<1>13. OnceIn(volume', Rest(W), D)
  BY <1>1, <1>2 DEF OnceIn, Rest
<1>14. Through(W1, lo, D, liq', volume')
  BY <1>6, <1>8, <1>9, <1>10, <1>11, <1>12, <1>13, AdvanceThrough
<1>15. /\ W1.job = W.job /\ W1.from = W.from /\ W1.last = W.last
       /\ W1.pc \in {"event", "done"}
  BY <1>8, <1>10, AdvanceIs
<1>16. QED
  BY <1>1, <1>14, <1>15 DEF Progress

LEMMA TradeProgress ==
    ASSUME TablesOK, NEW lo, NEW hi \in Int, NEW D, D = Blocks(lo, hi), NEW W, NEW W1,
           WorkerOK(W, trades), Through(W, lo, D, liq, volume), TradeStep(W, W1)
    PROVE  Progress(W, W1, lo, D)
<1>1. W \in Workers /\ W.pc = "event" /\ W.todo # {} /\ UNCHANGED <<liq, volume>>
  BY DEF WorkerOK, TradeStep
<1>2. /\ Ending(W.todo, D) /\ DOMAIN liq = D \ W.todo
      /\ \A e \in DOMAIN liq : liq[e] = Since(lo, e)
      /\ W.mem = Counts(D, W.todo) /\ OnceIn(volume, W.todo, D)
  BY <1>1 DEF Through, Ending, Unwritten, OnceIn
<1>3. PICK e : e = Current(W)
  OBVIOUS
<1>4. PICK n : n = [W.mem EXCEPT ![e] = @ + 1]
  OBVIOUS
<1>5. n = Counts(D, Rest(W)) /\ e \in D
  BY <1>1, <1>2, <1>3, <1>4, CountsOne, CurrentIs DEF Ending
<1>6. W1 = [W EXCEPT !.mem = n, !.pc = "rows"] /\ trades' = trades \union {e}
  BY <1>3, <1>4 DEF TradeStep
<1>7. /\ W1.pc = "rows" /\ W1.todo = W.todo /\ W1.mem = n
      /\ W1.job = W.job /\ W1.from = W.from /\ W1.last = W.last
  BY <1>1, <1>6 DEF Workers
<1>8. Rest(W1) = Rest(W)
  BY <1>7 DEF Rest, Current
<1>9. Through(W1, lo, D, liq', volume')
  BY <1>1, <1>2, <1>5, <1>7, <1>8 DEF Through, Ending, Unwritten, OnceIn
<1>10. QED
  BY <1>5, <1>6, <1>7, <1>9 DEF Progress

LEMMA RowsProgress ==
    ASSUME TablesOK, NEW lo, NEW hi \in Int, NEW D, D = Blocks(lo, hi), NEW W, NEW W1,
           WorkerOK(W, trades), Through(W, lo, D, liq, volume), RowsStep(W, W1)
    PROVE  Progress(W, W1, lo, D)
<1>1. W \in Workers /\ W.pc = "rows" /\ W.todo # {} /\ UNCHANGED <<trades, volume>>
  BY DEF WorkerOK, RowsStep
<1>2. /\ Ending(W.todo, D) /\ DOMAIN liq = D \ W.todo
      /\ \A e \in DOMAIN liq : liq[e] = Since(lo, e)
      /\ W.mem = Counts(D, Rest(W)) /\ OnceIn(volume, W.todo, D)
  BY <1>1 DEF Through, Ending, Unwritten, OnceIn
<1>3. InsertLiquidityEvent(Current(W), Counts(D, Rest(W))) /\ W1 = [W EXCEPT !.pc = "candle"]
  BY <1>2 DEF RowsStep
<1>4. DOMAIN liq' = D \ Rest(W) /\ \A d \in DOMAIN liq' : liq'[d] = Since(lo, d)
  BY <1>1, <1>2, <1>3, RowThrough
<1>5. /\ W1.pc = "candle" /\ W1.todo = W.todo /\ W1.mem = W.mem
      /\ W1.job = W.job /\ W1.from = W.from /\ W1.last = W.last
  BY <1>1, <1>3 DEF Workers
<1>6. Rest(W1) = Rest(W)
  BY <1>5 DEF Rest, Current
<1>7. Through(W1, lo, D, liq', volume')
  BY <1>1, <1>2, <1>4, <1>5, <1>6 DEF Through, Ending, Unwritten, OnceIn
<1>8. QED
  BY <1>1, <1>5, <1>7 DEF Progress

LEMMA CandleProgress ==
    ASSUME TablesOK, NEW lo, NEW hi \in Int, NEW D, D = Blocks(lo, hi), NEW W, NEW W1,
           WorkerOK(W, trades), Through(W, lo, D, liq, volume), CandleStep(W, W1)
    PROVE  Progress(W, W1, lo, D)
<1>1. W \in Workers /\ W.pc = "candle" /\ W.todo # {} /\ UNCHANGED <<trades, liq>>
  BY DEF WorkerOK, CandleStep
<1>2. /\ Ending(W.todo, D) /\ DOMAIN liq = D \ Rest(W)
      /\ \A e \in DOMAIN liq : liq[e] = Since(lo, e)
      /\ W.mem = Counts(D, Rest(W)) /\ OnceIn(volume, W.todo, D)
  BY <1>1 DEF Through, Ending, Unwritten, OnceIn
<1>3. PICK e : e = Current(W)
  OBVIOUS
<1>4. e \in W.todo /\ e \in Events /\ e \in D /\ Rest(W) = W.todo \ {e}
  BY <1>1, <1>2, <1>3, CurrentIs DEF Ending
<1>5. volume' = [volume EXCEPT ![e] = @ + 1] /\ W1 = Advance(W)
  BY <1>3 DEF CandleStep
<1>6. OnceIn(volume', Rest(W), D)
  <2>1. volume[e] = 0 /\ \A d \in Events : volume'[d] = IF d = e THEN volume[e] + 1 ELSE volume[d]
    BY <1>2, <1>4, <1>5 DEF OnceIn, TablesOK
  <2>2. QED
    BY <1>2, <1>4, <2>1 DEF OnceIn
<1>7. Ending(Rest(W), D)
  BY <1>1, <1>2, <1>3, SinceIs
<1>8. DOMAIN liq' = D \ Rest(W) /\ \A d \in DOMAIN liq' : liq'[d] = Since(lo, d)
  BY <1>1, <1>2
<1>9. Through(W1, lo, D, liq', volume')
  BY <1>1, <1>2, <1>5, <1>6, <1>7, <1>8, AdvanceThrough
<1>10. /\ W1.job = W.job /\ W1.from = W.from /\ W1.last = W.last
       /\ W1.pc \in {"event", "done"}
  BY <1>1, <1>5, AdvanceIs
<1>11. QED
  BY <1>1, <1>9, <1>10 DEF Progress

LEMMA ProcessProgress ==
    ASSUME TablesOK, NEW lo, NEW hi \in Int, NEW D, D = Blocks(lo, hi), NEW W, NEW W1,
           WorkerOK(W, trades), Through(W, lo, D, liq, volume), ProcessStep(W, W1)
    PROVE  Progress(W, W1, lo, D)
BY LoadProgress, FundingProgress, TradeProgress, RowsProgress, CandleProgress DEF ProcessStep

(* Between windows: whatever else W holds.                                  *)
LEMMA AtRest ==
    ASSUME NEW lo, NEW D, NEW r, NEW v, NEW W, NEW W1, Through(W, lo, D, r, v),
           W.todo = {}, W1.todo = {}, W1.pc \notin {"load", "event", "rows", "candle"}
    PROVE  Through(W1, lo, D, r, v)
BY DEF Through, Unwritten, Rest

(* The next window begins at the block after the last one.                  *)
LEMMA NextWindow ==
    ASSUME NEW lo, NEW m \in Int, NEW n \in Int, m <= n, lo <= m, lo \in Int,
           NEW D, D = Blocks(lo, m), NEW D1, D1 = Blocks(lo, n), NEW r, NEW v,
           NEW W, Through(W, lo, D, r, v), W.todo = {},
           NEW W1, W1.pc = "load", W1.todo = EventsIn(m + 1, n)
    PROVE  Through(W1, lo, D1, r, v)
<1>1. ASSUME NEW e \in Events
      PROVE  BlockOf[e] \in Int /\ e \in Nat
  <2>1. BlockOf[e] \in 1..MaxBlock /\ e \in Nat
    BY InOrder
  <2>2. QED
    BY <2>1
<1>2. \A e \in Events : e \in W1.todo <=> e \in D1 /\ e \notin D
  BY <1>1 DEF EventsIn, Blocks
<1>3. W1.todo \subseteq Events /\ D \subseteq D1 /\ D1 \subseteq Events
  BY <1>1 DEF EventsIn, Blocks
<1>4. ASSUME NEW e \in W1.todo, NEW d \in D1, d >= e
      PROVE  d \in W1.todo
  <2>1. e \in Events /\ d \in Events /\ BlockOf[e] <= BlockOf[d]
    BY <1>1, <1>3, <1>4, InOrder
  <2>2. m + 1 <= BlockOf[e] /\ BlockOf[d] <= n
    BY <1>4 DEF EventsIn, Blocks
  <2>3. QED
    BY <1>1, <2>1, <2>2 DEF EventsIn
<1>5. DOMAIN r = D
  BY DEF Through, Unwritten, Rest
<1>6. D = D1 \ W1.todo
  BY <1>2, <1>3
<1>7. \A e \in DOMAIN r : r[e] = Since(lo, e)
  BY DEF Through
<1>8. \A e \in Events : v[e] <= 1 /\ (e \in W1.todo \/ e \notin D1 => v[e] = 0)
  BY <1>2, <1>3 DEF Through
<1>9. QED
  BY <1>2, <1>3, <1>4, <1>5, <1>6, <1>7, <1>8 DEF Through, Unwritten

-----------------------------------------------------------------------------
(* What the environment has done. *)

Budgets == {"notices", "sweeps", "retries", "errors", "crashes"}

LEMMA SpendIs ==
    ASSUME LeftOK, NEW what \in Budgets, left[what] > 0, Spend(what)
    PROVE  /\ LeftOK' /\ left'[what] = left[what] - 1
           /\ \A x \in Budgets : x # what => left'[x] = left[x]
BY IndexerAssumption DEF LeftOK, Spend, Budgets

LEMMA LeftIs ==
    ASSUME LeftOK
    PROVE  /\ left.notices \in 0..MaxNotices /\ left.sweeps \in 0..MaxSweeps
           /\ left.retries \in 0..MaxRetries /\ left.errors \in 0..MaxErrors
           /\ left.crashes \in 0..MaxCrashes
BY DEF LeftOK

\* A step that spends nothing but perhaps a notice or a sweep.
Calmly ==
    \/ /\ \/ TxStart \/ TxProcess \/ TxFinish \/ SweepWorker \/ Mine \/ LockExpires
          \/ TxRequeue /\ Head(txq) > head
       /\ UNCHANGED <<left, ordered>>
    \/ /\ MaybeEnqueueSweep /\ UNCHANGED ordered
       /\ left' = [left EXCEPT !.sweeps = @ - 1] /\ left.sweeps > 0
    \/ \E b \in 1..MaxBlock : /\ Notify(b) /\ left.notices > 0
                              /\ left' = [left EXCEPT !.notices = @ - 1]

LEMMA FaultsCost ==
    ASSUME LeftOK, Faults \/ (left.retries > 0 /\ Spend("retries"))
    PROVE  LeftOK' /\ ~Unfailing' /\ left'.notices = left.notices /\ left'.sweeps = left.sweeps
<1>1. \E what \in {"retries", "errors", "crashes"} : left[what] > 0 /\ Spend(what)
  <2>1. CASE TxSkip
    BY <2>1 DEF TxSkip, SkipStep
  <2>2. CASE SweepSkip
    BY <2>2 DEF SweepSkip, SkipStep
  <2>3. QED
    BY <2>1, <2>2 DEF Faults, TxFail, TxFinishFail, SweepFail, SweepFailEarly, Crash
<1>2. PICK what \in {"retries", "errors", "crashes"} : left[what] > 0 /\ Spend(what)
  BY <1>1
<1>3. /\ LeftOK' /\ left'[what] = left[what] - 1
      /\ \A x \in Budgets : x # what => left'[x] = left[x]
  BY <1>2, SpendIs DEF Budgets
<1>4. left'.notices = left.notices /\ left'.sweeps = left.sweeps
  BY <1>2, <1>3 DEF Budgets
<1>5. ~Unfailing'
  BY <1>2, <1>3, LeftIs, IndexerAssumption DEF Unfailing
<1>6. QED
  BY <1>3, <1>4, <1>5

LEMMA NextCalmly ==
    ASSUME LeftOK, Next
    PROVE  Calmly \/ (LeftOK' /\ ~Unfailing')
<1>1. CASE TxRequeue /\ UNCHANGED ordered
  BY <1>1, FaultsCost DEF TxRequeue, Calmly
<1>2. CASE TxStart /\ UNCHANGED ordered
  BY <1>2 DEF TxStart, Calmly
<1>3. CASE TxProcess /\ UNCHANGED ordered
  BY <1>3 DEF TxProcess, Calmly
<1>4. CASE TxFinish /\ UNCHANGED ordered
  BY <1>4 DEF TxFinish, Calmly
<1>5. CASE SweepWorker /\ UNCHANGED ordered
  <2>1. UNCHANGED left
    BY <1>5 DEF SweepWorker, SweepStart, SweepRead, SweepBootstrap, SweepBatch, SweepProcess,
       SweepFinish
  <2>2. QED
    BY <1>5, <2>1 DEF Calmly
<1>6. CASE Faults
  BY <1>6, FaultsCost
<1>7. CASE (Mine \/ LockExpires) /\ UNCHANGED ordered
  BY <1>7 DEF Mine, LockExpires, Calmly
<1>8. CASE MaybeEnqueueSweep /\ UNCHANGED ordered
  BY <1>8 DEF MaybeEnqueueSweep, Spend, Calmly
<1>9. CASE \E b \in 1..MaxBlock : Notify(b)
  BY <1>9 DEF Notify, Spend, Calmly
<1>10. QED
  BY <1>1, <1>2, <1>3, <1>4, <1>5, <1>6, <1>7, <1>8, <1>9 DEF Next, TxWorker

(* What was not spent after a step was not spent before it.                  *)
LEMMA CalmLeft ==
    ASSUME LeftOK, Calmly
    PROVE  /\ LeftOK' /\ (Unfailing' => Unfailing)
           /\ left'.notices = MaxNotices =>
                left.notices = MaxNotices /\ ~\E b \in 1..MaxBlock : Notify(b)
           /\ left'.sweeps = MaxSweeps => left.sweeps = MaxSweeps /\ ~MaybeEnqueueSweep
<1>1. CASE UNCHANGED left
  <2>1. LeftOK' /\ (Unfailing' => Unfailing)
    BY <1>1 DEF LeftOK, Unfailing
  <2>2. ~\E b \in 1..MaxBlock : Notify(b)
    <3>1. ASSUME left' = [left EXCEPT !.notices = @ - 1], left' = left
          PROVE  FALSE
      BY <3>1, LeftIs DEF LeftOK
    <3>2. QED
      BY <1>1, <3>1 DEF Notify, Spend
  <2>3. ~MaybeEnqueueSweep
    <3>1. ASSUME left' = [left EXCEPT !.sweeps = @ - 1], left' = left
          PROVE  FALSE
      BY <3>1, LeftIs DEF LeftOK
    <3>2. QED
      BY <1>1, <3>1 DEF MaybeEnqueueSweep, Spend
  <2>4. QED
    BY <1>1, <2>1, <2>2, <2>3
<1>2. ASSUME left' = [left EXCEPT !.sweeps = @ - 1], left.sweeps > 0
      PROVE  /\ LeftOK' /\ (Unfailing' => Unfailing) /\ left'.notices = left.notices
             /\ left'.sweeps # MaxSweeps /\ left'.sweeps = left.sweeps - 1
  BY <1>2, LeftIs, IndexerAssumption DEF LeftOK, Unfailing
<1>3. ASSUME left' = [left EXCEPT !.notices = @ - 1], left.notices > 0
      PROVE  /\ LeftOK' /\ (Unfailing' => Unfailing) /\ left'.sweeps = left.sweeps
             /\ left'.notices # MaxNotices /\ left'.notices = left.notices - 1
  BY <1>3, LeftIs, IndexerAssumption DEF LeftOK, Unfailing
<1>4. CASE MaybeEnqueueSweep /\ left' = [left EXCEPT !.sweeps = @ - 1] /\ left.sweeps > 0
  <2>1. ASSUME NEW b \in 1..MaxBlock, Notify(b)
        PROVE  FALSE
    <3>1. left' = [left EXCEPT !.notices = @ - 1] /\ left.notices > 0
      BY <2>1 DEF Notify, Spend
    <3>2. QED
      BY <1>2, <1>3, <1>4, <3>1, LeftIs
  <2>2. QED
    BY <1>2, <1>4, <2>1
<1>5. CASE \E b \in 1..MaxBlock : Notify(b) /\ left' = [left EXCEPT !.notices = @ - 1]
                                  /\ left.notices > 0
  <2>1. ASSUME MaybeEnqueueSweep
        PROVE  FALSE
    <3>1. left' = [left EXCEPT !.sweeps = @ - 1] /\ left.sweeps > 0
      BY <2>1 DEF MaybeEnqueueSweep, Spend
    <3>2. QED
      BY <1>2, <1>3, <1>5, <3>1, LeftIs
  <2>2. QED
    BY <1>3, <1>5, <2>1
<1>6. QED
  BY <1>1, <1>4, <1>5 DEF Calmly

-----------------------------------------------------------------------------
(* The sweep worker alone. *)

LEMMA SweepWorkerIs ==
    ASSUME IndexerInv
    PROVE  /\ sw \in Workers /\ sw.last \in Int /\ sw.from \in Nat /\ sw.top \in Int
           /\ cursor \in Int /\ (cursor # NoRow => cursor >= 0) /\ TablesOK
           /\ WorkerOK(sw, trades) /\ head \in Int
<1>1. sw \in Workers /\ cursor \in NoRow..MaxBlock /\ head \in 0..MaxBlock
  BY DEF IndexerInv, WorkerOK, SyncOK
<1>2. sw.last \in NoRow..MaxBlock /\ sw.from \in Nat /\ sw.top \in 0..MaxBlock
  BY <1>1 DEF Workers
<1>3. QED
  BY <1>1, <1>2, IndexerAssumption DEF NoRow, IndexerInv

LEMMA IdleIs ==
    /\ Idle.pc = "idle" /\ Idle.todo = {}
    /\ [Idle EXCEPT !.pc = "read"].pc = "read" /\ [Idle EXCEPT !.pc = "read"].todo = {}
BY DEF Idle

LEMMA SweepGoesOn ==
    ASSUME IndexerInv, SweepWorker, NEW lo \in Nat, SweptFrom(lo)
    PROVE  SweptFrom(lo)' /\ cursor' # NoRow
<1>1. PICK D : D = Blocks(lo, Swept)
  OBVIOUS
<1>2. /\ Through(sw, lo, D, liq, volume) /\ trades \subseteq D /\ lo <= cursor /\ sw.pc # "boot"
      /\ sw.pc \notin {"idle", "read"} => sw.from = sw.last + 1 /\ cursor <= sw.last
  BY <1>1 DEF SweptFrom
<1>3. /\ sw \in Workers /\ sw.last \in Int /\ sw.from \in Nat /\ sw.top \in Int
      /\ cursor \in Int /\ TablesOK /\ WorkerOK(sw, trades) /\ head \in Int /\ cursor >= 0
  BY <1>2, SweepWorkerIs DEF NoRow
\* A step after which the worker is at rest and has swept as far as before.
<1>4. ASSUME UNCHANGED tables, lo <= cursor', sw.todo = {}, sw'.todo = {},
             sw'.pc \in {"idle", "read", "batch"}, Swept' = Swept,
             sw'.pc = "batch" => sw'.from = sw'.last + 1 /\ cursor' <= sw'.last
      PROVE  SweptFrom(lo)'
  <2>1. Through(sw', lo, D, liq', volume') /\ trades' \subseteq D
    BY <1>2, <1>4, AtRest DEF tables
  <2>2. QED
    BY <1>1, <1>4, <2>1 DEF SweptFrom
<1>5. CASE SweepStart
  <2>1. /\ sw.pc = "idle" /\ UNCHANGED tables /\ cursor' = MaxOf(cursor, 0)
        /\ sw' = [Idle EXCEPT !.pc = "read"]
    BY <1>5 DEF SweepStart, UpdateMarketSync
  <2>2. cursor' = cursor
    BY <1>3, <2>1 DEF MaxOf
  <2>3. sw'.pc = "read" /\ sw'.todo = {} /\ sw.todo = {}
    BY <1>2, <2>1, IdleIs DEF Through
  <2>4. Swept' = Swept
    BY <2>1, <2>2, <2>3 DEF Swept
  <2>5. QED
    BY <1>2, <1>3, <1>4, <2>1, <2>2, <2>3, <2>4 DEF NoRow
<1>6. CASE SweepRead
  <2>1. /\ sw.pc = "read" /\ UNCHANGED <<cursor, tables>> /\ sw.todo = {} /\ Swept = cursor
    BY <1>2, <1>6 DEF SweepRead, sync, Through, Swept
  <2>2. ~(cursor <= 0 /\ trades # {})
    <3>1. ASSUME cursor <= 0
          PROVE  D = {}
      <4>1. cursor = 0 /\ lo = 0
        BY <1>2, <1>3, <3>1
      <4>2. \A e \in Events : BlockOf[e] \in 1..MaxBlock
        BY InOrder
      <4>3. \A e \in Events : ~(BlockOf[e] <= 0)
        BY <4>2
      <4>4. QED
        BY <1>1, <2>1, <4>1, <4>3 DEF Blocks
    <3>2. QED
      BY <1>2, <3>1
  <2>3. CASE sw' = Idle
    <3>1. Swept' = Swept
      BY <2>1, <2>3, IdleIs DEF Swept
    <3>2. QED
      BY <1>2, <1>3, <1>4, <2>1, <2>3, <3>1, IdleIs DEF NoRow
  <2>4. CASE sw' = Scan(cursor)
    <3>1. /\ sw'.pc = "batch" /\ sw'.last = cursor /\ sw'.from = cursor + 1
          /\ sw'.todo = sw.todo
      BY <1>3, <2>4 DEF Scan, Workers
    <3>2. Swept' = Swept
      BY <2>1, <3>1 DEF Swept
    <3>3. QED
      BY <1>2, <1>3, <1>4, <2>1, <3>1, <3>2 DEF NoRow
  <2>5. QED
    BY <1>6, <2>2, <2>3, <2>4 DEF SweepRead
<1>7. CASE SweepBootstrap
  BY <1>2, <1>7 DEF SweepBootstrap
<1>8. CASE SweepBatch
  <2>1. PICK m : m = sw.last
    OBVIOUS
  <2>2. PICK n : n = IF sw.from + ScanBlocks - 1 > sw.top THEN sw.top ELSE sw.from + ScanBlocks - 1
    OBVIOUS
  <2>3. /\ sw.pc = "batch" /\ sw.from <= sw.top /\ UNCHANGED <<cursor, tables>>
        /\ sw' = [sw EXCEPT !.pc = "load", !.last = n, !.from = n + 1,
                            !.batches = @ + 1, !.todo = EventsIn(sw.from, n)]
    BY <1>8, <2>2 DEF SweepBatch, sync
  <2>4. /\ sw'.pc = "load" /\ sw'.last = n /\ sw'.from = n + 1
        /\ sw'.todo = EventsIn(sw.from, n)
    BY <1>3, <2>3 DEF Workers
  <2>5. sw.from = m + 1 /\ cursor <= m /\ sw.todo = {} /\ D = Blocks(lo, m) /\ m \in Int
    BY <1>1, <1>2, <1>3, <2>1, <2>3 DEF Through, Swept
  <2>6. m <= n /\ n \in Int /\ lo <= m
    BY <1>2, <1>3, <2>2, <2>3, <2>5, IndexerAssumption
  <2>7. PICK E : E = Blocks(lo, n)
    OBVIOUS
  <2>8. Through(sw', lo, E, liq, volume)
    <3>1. PICK V : V = sw'
      OBVIOUS
    <3>2. /\ V.pc = "load" /\ V.todo = EventsIn(m + 1, n)
          /\ m \in Int /\ n \in Int /\ lo \in Int /\ m <= n /\ lo <= m
      BY <2>4, <2>5, <2>6, <3>1
    <3>3. D = Blocks(lo, m) /\ sw.todo = {} /\ Through(sw, lo, D, liq, volume)
      BY <1>2, <2>5
    <3>4. Through(V, lo, E, liq, volume)
      BY <2>7, <3>2, <3>3, NextWindow
    <3>5. QED
      BY <3>1, <3>4
  <2>9. D \subseteq E
    <3>1. \A e \in Events : BlockOf[e] \in 1..MaxBlock
      BY InOrder
    <3>2. QED
      BY <2>5, <2>6, <2>7, <3>1 DEF Blocks
  <2>10. Swept' = n
    BY <2>4 DEF Swept
  <2>11. Through(sw', lo, Blocks(lo, Swept'), liq', volume') /\ trades' \subseteq Blocks(lo, Swept')
    BY <1>2, <2>3, <2>7, <2>8, <2>9, <2>10 DEF tables
  <2>12. lo <= cursor' /\ cursor' <= n /\ cursor' # NoRow
    BY <1>2, <1>3, <2>3, <2>5, <2>6 DEF NoRow
  <2>13. QED
    BY <2>4, <2>11, <2>12 DEF SweptFrom
<1>9. CASE SweepProcess
  <2>1. UNCHANGED cursor
    BY <1>9 DEF SweepProcess, sync
  <2>2. CASE ProcessStep(sw, sw')
    <3>1. sw.pc \notin {"idle", "read"}
      BY <2>2 DEF ProcessStep, LoadStep, FundingStep, TradeStep, RowsStep, CandleStep
    <3>2. PICK m : m = sw.last
      OBVIOUS
    <3>3. D = Blocks(lo, m) /\ m \in Int
      BY <1>1, <1>3, <3>1, <3>2 DEF Swept
    <3>4. Progress(sw, sw', lo, D)
      BY <1>2, <1>3, <2>2, <3>3, ProcessProgress
    <3>5. /\ Through(sw', lo, D, liq', volume') /\ trades' \subseteq D
          /\ sw'.from = sw.from /\ sw'.last = sw.last
          /\ sw'.pc \in {"event", "rows", "candle", "done"}
      BY <1>2, <3>4 DEF Progress
    <3>6. Swept' = m
      BY <3>2, <3>5 DEF Swept
    <3>7. QED
      BY <1>2, <1>3, <2>1, <3>1, <3>2, <3>3, <3>5, <3>6 DEF SweptFrom, NoRow
  <2>3. CASE sw.pc = "done" /\ sw' = [sw EXCEPT !.pc = "batch"] /\ UNCHANGED tables
    <3>1. /\ sw'.pc = "batch" /\ sw'.from = sw.from /\ sw'.last = sw.last
          /\ sw'.todo = sw.todo /\ sw.todo = {}
      BY <1>2, <1>3, <2>3 DEF Workers, Through
    <3>2. Swept' = Swept
      BY <2>3, <3>1 DEF Swept
    <3>3. QED
      BY <1>2, <1>3, <1>4, <2>1, <2>3, <3>1, <3>2 DEF NoRow
  <2>4. QED
    BY <1>9, <2>2, <2>3 DEF SweepProcess
<1>10. CASE SweepFinish
  <2>1. /\ sw.pc = "batch" /\ UNCHANGED tables /\ sw' = Idle /\ cursor' = MaxOf(cursor, sw.last)
    BY <1>10 DEF SweepFinish, UpdateMarketSync
  <2>2. cursor' = sw.last /\ lo <= cursor' /\ sw.todo = {}
    BY <1>2, <1>3, <2>1 DEF MaxOf, Through
  <2>3. Swept' = Swept
    BY <2>1, <2>2, IdleIs DEF Swept
  <2>4. QED
    BY <1>2, <1>3, <1>4, <2>1, <2>2, <2>3, IdleIs DEF NoRow
<1>11. QED
  BY <1>5, <1>6, <1>7, <1>8, <1>9, <1>10 DEF SweepWorker

LEMMA SameSweep ==
    ASSUME UNCHANGED <<txq, sweepq, cursor, tables, tx, sw>>, SweepOnly
    PROVE  SweepOnly'
<1>1. UNCHANGED <<txq, sweepq, cursor, trades, liq, volume, tx, sw>>
  BY DEF tables
<1>2. Swept' = Swept
  BY <1>1 DEF Swept
<1>3. ASSUME NEW lo, SweptFrom(lo)
      PROVE  SweptFrom(lo)'
  <2>1. PICK D : D = Blocks(lo, Swept)
    OBVIOUS
  <2>2. Through(sw, lo, D, liq, volume) /\ trades \subseteq D
    BY <1>3, <2>1 DEF SweptFrom
  <2>3. Through(sw', lo, D, liq', volume') /\ trades' \subseteq D
    BY <1>1, <2>2
  <2>4. QED
    BY <1>1, <1>2, <1>3, <2>1, <2>3 DEF SweptFrom
<1>4. CASE cursor = NoRow
  BY <1>1, <1>4 DEF SweepOnly
<1>5. CASE cursor # NoRow
  BY <1>1, <1>3, <1>5 DEF SweepOnly
<1>6. QED
  BY <1>4, <1>5

(* A market not seen before begins with nothing indexed up to its cursor.    *)
LEMMA SweepBegins ==
    ASSUME IndexerInv, SweepOnly, cursor = NoRow, NEW lo \in Nat, cursor' = lo,
           UNCHANGED <<tables, sw>>
    PROVE  SweptFrom(lo)'
<1>1. /\ sw.pc = "idle" /\ sw.todo = {} /\ trades = {} /\ DOMAIN liq = {} /\ volume = Empty
  BY DEF SweepOnly
<1>2. Swept' = lo
  BY <1>1 DEF Swept
<1>3. PICK D : D = Blocks(lo, lo)
  OBVIOUS
<1>4. \A e \in Events : volume[e] = 0
  BY <1>1 DEF Empty
<1>5. D = {}
  <2>1. \A e \in Events : BlockOf[e] \in 1..MaxBlock
    BY InOrder
  <2>2. \A e \in Events : ~(lo < BlockOf[e] /\ BlockOf[e] <= lo)
    BY <2>1
  <2>3. QED
    BY <1>3, <2>2 DEF Blocks
<1>6. Through(sw, lo, D, liq, volume)
  BY <1>1, <1>4, <1>5 DEF Through, Unwritten
<1>7. Through(sw', lo, D, liq', volume') /\ trades' \subseteq D
  BY <1>1, <1>6 DEF tables
<1>8. QED
  BY <1>1, <1>2, <1>3, <1>7 DEF SweptFrom

LEMMA SweepOnlyKeeps ==
    ASSUME IndexerInv, LeftOK, Calmly, left'.notices = MaxNotices, SweepOnly
    PROVE  SweepOnly'
<1>1. ~\E b \in 1..MaxBlock : Notify(b)
  BY CalmLeft
<1>2. tx.pc = "idle" /\ txq = <<>>
  BY DEF SweepOnly
<1>3. ~(TxStart \/ TxRequeue \/ TxProcess \/ TxFinish)
  BY <1>2 DEF TxStart, TxRequeue, TxProcess, TxFinish, ProcessStep, LoadStep, FundingStep,
     TradeStep, RowsStep, CandleStep
<1>4. CASE SweepWorker
  <2>1. UNCHANGED <<txq, tx>>
    BY <1>4 DEF SweepWorker, SweepStart, SweepRead, SweepBootstrap, SweepBatch, SweepProcess,
       SweepFinish, queues
  <2>2. cursor # NoRow
    <3>1. sw.pc # "idle" \/ sweepq > 0
      BY <1>4 DEF SweepWorker, SweepStart, SweepRead, SweepBootstrap, SweepBatch, SweepProcess,
         SweepFinish, ProcessStep, LoadStep, FundingStep, TradeStep, RowsStep, CandleStep
    <3>2. QED
      BY <3>1 DEF SweepOnly
  <2>3. PICK lo \in 0..MaxOf(MaxBlock - InitLag, Baseline) : SweptFrom(lo)
    BY <2>2 DEF SweepOnly
  <2>4. lo \in Nat
    BY <2>3, IndexerAssumption DEF MaxOf
  <2>5. SweptFrom(lo)' /\ cursor' # NoRow
    BY <1>4, <2>3, <2>4, SweepGoesOn
  <2>6. QED
    BY <1>2, <2>1, <2>3, <2>5 DEF SweepOnly
<1>5. CASE Mine \/ LockExpires
  <2>1. UNCHANGED <<txq, sweepq, cursor, tables, tx, sw>>
    BY <1>5 DEF Mine, LockExpires, queues, sync
  <2>2. QED
    BY <2>1, SameSweep
<1>6. CASE MaybeEnqueueSweep
  <2>1. UNCHANGED <<txq, tables, tx, sw>> /\ cursor' = Ensured
    BY <1>6 DEF MaybeEnqueueSweep
  <2>2. CASE cursor = NoRow
    <3>1. PICK lo : lo = MaxOf(head - InitLag, Baseline)
      OBVIOUS
    <3>2. /\ lo \in Nat /\ lo \in 0..MaxOf(MaxBlock - InitLag, Baseline) /\ lo # NoRow
      BY <3>1, IndexerAssumption DEF IndexerInv, SyncOK, MaxOf, NoRow
    <3>3. cursor' = lo
      BY <2>1, <2>2, <3>1 DEF Ensured
    <3>4. SweptFrom(lo)'
      BY <2>1, <2>2, <3>2, <3>3, SweepBegins
    <3>5. QED
      BY <1>2, <2>1, <3>2, <3>3, <3>4 DEF SweepOnly
  <2>3. CASE cursor # NoRow
    <3>1. PICK lo \in 0..MaxOf(MaxBlock - InitLag, Baseline) : SweptFrom(lo)
      BY <2>3 DEF SweepOnly
    <3>2. cursor' = cursor
      BY <2>1, <2>3 DEF Ensured
    <3>3. PICK D : D = Blocks(lo, Swept)
      OBVIOUS
    <3>4. Through(sw, lo, D, liq, volume) /\ trades \subseteq D
      BY <3>1, <3>3 DEF SweptFrom
    <3>5. Through(sw', lo, D, liq', volume') /\ trades' \subseteq D
      BY <2>1, <3>4 DEF tables
    <3>6. Swept' = Swept
      BY <2>1, <3>2 DEF Swept
    <3>7. SweptFrom(lo)'
      BY <2>1, <3>1, <3>2, <3>3, <3>5, <3>6 DEF SweptFrom
    <3>8. QED
      BY <1>2, <2>1, <2>3, <3>1, <3>2, <3>7 DEF SweepOnly
  <2>4. QED
    BY <2>2, <2>3
<1>7. QED
  BY <1>1, <1>3, <1>4, <1>5, <1>6 DEF Calmly

-----------------------------------------------------------------------------
(* The transaction worker alone. *)

LEMMA TakenIs ==
    ASSUME IndexerInv, LeftOK
    PROVE  Named \in Int /\ Len(txq) \in Nat /\ Taken \in Int
<1>1. Len(txq) \in Nat
  BY LenProperties DEF IndexerInv, SyncOK
<1>2. left.notices \in Int /\ MaxNotices \in Int
  BY LeftIs, IndexerAssumption
<1>3. Named \in Int
  BY <1>2 DEF Named
<1>4. QED
  BY <1>1, <1>3 DEF Taken

\* A step of another than the transaction worker, which names nothing.
LEMMA SameTx ==
    ASSUME IndexerInv, LeftOK, TxOnly, UNCHANGED <<txq, sweepq, tables, tx, sw, left>>,
           head <= head', head' \in Int
    PROVE  TxOnly'
<1>1. UNCHANGED <<txq, sweepq, trades, liq, volume, tx, sw, left>>
  BY DEF tables
<1>2. Named' = Named /\ Taken' = Taken
  BY <1>1 DEF Named, Taken
<1>3. PICK D : D = Blocks(0, Taken)
  OBVIOUS
<1>4. Through(tx', 0, D, liq', volume')
  BY <1>1, <1>3 DEF TxOnly
<1>5. Named' <= head'
  BY <1>2, TakenIs DEF TxOnly, IndexerInv, SyncOK
<1>6. QED
  BY <1>1, <1>2, <1>3, <1>4, <1>5 DEF TxOnly

\* The next block is named, once it is there.
LEMMA NameNext ==
    ASSUME IndexerInv, LeftOK, TxOnly, NEW b \in 1..MaxBlock, Notify(b), ordered'
    PROVE  TxOnly'
<1>1. /\ left.notices > 0 /\ left' = [left EXCEPT !.notices = @ - 1] /\ txq' = Append(txq, b)
      /\ b = MaxNotices - left.notices + 1 /\ b <= head
      /\ UNCHANGED <<head, sweepq, tables, tx, sw>>
  BY DEF Notify, Spend
<1>2. left'.notices = left.notices - 1
  BY <1>1 DEF LeftOK
<1>3. /\ b = Named + 1 /\ Named' = Named + 1
  <2>1. left.notices \in Int /\ MaxNotices \in Int
    BY LeftIs, IndexerAssumption
  <2>2. Named' = MaxNotices - (left.notices - 1)
    BY <1>2 DEF Named
  <2>3. QED
    BY <1>1, <2>1, <2>2 DEF Named
<1>4. /\ Len(txq') = Len(txq) + 1 /\ txq'[Len(txq) + 1] = b
      /\ \A i \in 1..Len(txq) : txq'[i] = txq[i]
  BY <1>1, AppendProperties DEF IndexerInv, SyncOK
<1>5. Taken' = Taken
  <2>1. Taken' = (Named + 1) - (Len(txq) + 1)
    BY <1>3, <1>4 DEF Taken
  <2>2. QED
    BY <2>1, TakenIs DEF Taken
<1>6. \A i \in 1..Len(txq') : txq'[i] = Taken' + i
  <2>1. Taken + (Len(txq) + 1) = b
    BY <1>3, TakenIs DEF Taken
  <2>2. ASSUME NEW i \in 1..Len(txq')
        PROVE  txq'[i] = Taken + i
    <3>1. i \in 1..Len(txq) \/ i = Len(txq) + 1
      BY <1>4, TakenIs
    <3>2. QED
      BY <1>4, <2>1, <3>1 DEF TxOnly
  <2>3. QED
    BY <1>5, <2>2
<1>7. PICK D : D = Blocks(0, Taken)
  OBVIOUS
<1>8. Through(tx', 0, D, liq', volume')
  BY <1>1, <1>7 DEF TxOnly, tables
<1>9. QED
  BY <1>1, <1>3, <1>5, <1>6, <1>7, <1>8 DEF TxOnly

\* The next block named is taken.
LEMMA TakeNext ==
    ASSUME IndexerInv, LeftOK, TxOnly, TxStart
    PROVE  TxOnly'
<1>1. /\ tx.pc = "idle" /\ txq # <<>> /\ txq' = Tail(txq)
      /\ tx' = [Idle EXCEPT !.pc = "load", !.job = Head(txq),
                            !.todo = EventsIn(Head(txq), Head(txq))]
      /\ UNCHANGED <<head, sweepq, tables, sw, left>>
  BY DEF TxStart
<1>2. /\ Len(txq') = Len(txq) - 1 /\ Head(txq) = txq[1] /\ 1 \in 1..Len(txq)
      /\ \A i \in 1..Len(txq') : txq'[i] = txq[i + 1]
  BY <1>1, HeadTailProperties DEF IndexerInv, SyncOK
<1>3. PICK m : m = Taken
  OBVIOUS
<1>4. m \in Int /\ m >= 0 /\ Head(txq) = m + 1
  BY <1>2, <1>3, TakenIs DEF TxOnly
<1>5. Named' = Named /\ Taken' = m + 1
  BY <1>1, <1>2, <1>3, TakenIs DEF Named, Taken
<1>6. \A i \in 1..Len(txq') : txq'[i] = Taken' + i
  <2>1. ASSUME NEW i \in 1..Len(txq')
        PROVE  txq'[i] = m + 1 + i
    <3>1. i + 1 \in 1..Len(txq) /\ i \in Int
      BY <1>2, TakenIs
    <3>2. txq[i + 1] = m + (i + 1)
      BY <1>3, <3>1 DEF TxOnly
    <3>3. QED
      BY <1>2, <1>4, <3>1, <3>2
  <2>2. QED
    BY <1>5, <2>1
<1>7. PICK V : V = tx'
  OBVIOUS
<1>8. /\ V.pc = "load" /\ V.job = m + 1 /\ V.todo = EventsIn(m + 1, m + 1)
  BY <1>1, <1>4, <1>7 DEF Idle
<1>9. PICK D : D = Blocks(0, m)
  OBVIOUS
<1>10. Through(tx, 0, D, liq, volume) /\ tx.todo = {}
  BY <1>1, <1>3, <1>9 DEF TxOnly, Through
<1>11. PICK E : E = Blocks(0, m + 1)
  OBVIOUS
<1>12. m \in Int /\ m + 1 \in Int /\ m <= m + 1 /\ 0 <= m /\ 0 \in Int
  BY <1>4
<1>13. PICK n : n = m + 1
  OBVIOUS
<1>14. Through(V, 0, E, liq, volume)
  BY <1>8, <1>9, <1>10, <1>11, <1>12, <1>13, NextWindow
<1>15. Through(tx', 0, E, liq', volume')
  BY <1>1, <1>7, <1>14 DEF tables
<1>16. Named' <= head' /\ Taken' >= 0 /\ tx'.job = Taken'
  BY <1>1, <1>4, <1>5, <1>7, <1>8 DEF TxOnly
<1>17. QED
  BY <1>1, <1>5, <1>6, <1>11, <1>15, <1>16 DEF TxOnly

LEMMA TxOnlyKeeps ==
    ASSUME IndexerInv, LeftOK, Calmly, left'.sweeps = MaxSweeps, ordered', TxOnly
    PROVE  TxOnly'
<1>1. ~MaybeEnqueueSweep
  BY CalmLeft
<1>2. sw.pc = "idle" /\ sweepq = 0
  BY DEF TxOnly
<1>3. ~SweepWorker
  BY <1>2 DEF SweepWorker, SweepStart, SweepRead, SweepBootstrap, SweepBatch, SweepProcess,
     SweepFinish, ProcessStep, LoadStep, FundingStep, TradeStep, RowsStep, CandleStep
<1>4. ~(TxRequeue /\ Head(txq) > head)
  <2>1. ASSUME txq # <<>>
        PROVE  Head(txq) <= head
    <3>1. Head(txq) = txq[1] /\ 1 \in 1..Len(txq)
      BY <2>1, HeadTailProperties DEF IndexerInv, SyncOK
    <3>2. Head(txq) = Taken + 1
      BY <3>1 DEF TxOnly
    <3>3. Taken + 1 <= Named /\ Taken + 1 \in Int
      BY <3>1, TakenIs DEF Taken
    <3>4. QED
      BY <3>2, <3>3, TakenIs DEF TxOnly, IndexerInv, SyncOK
  <2>2. \A x \in Int : ~(x > head /\ x <= head)
    BY DEF IndexerInv, SyncOK
  <2>3. ASSUME TxRequeue, Head(txq) > head
        PROVE  FALSE
    <3>1. txq # <<>>
      BY <2>3 DEF TxRequeue
    <3>2. Head(txq) \in Int
      <4>1. Head(txq) \in 1..MaxBlock
        BY <3>1, HeadTailProperties DEF IndexerInv, SyncOK
      <4>2. QED
        BY <4>1
    <3>3. QED
      BY <2>1, <2>2, <2>3, <3>1, <3>2
  <2>4. QED
    BY <2>3
<1>5. CASE Mine \/ LockExpires
  <2>1. UNCHANGED <<txq, sweepq, tables, tx, sw, left>>
    BY <1>5 DEF Mine, LockExpires, queues
  <2>2. head <= head' /\ head' \in Int
    BY <1>5 DEF Mine, LockExpires, IndexerInv, SyncOK
  <2>3. QED
    BY <2>1, <2>2, SameTx
<1>6. CASE \E b \in 1..MaxBlock : Notify(b)
  BY <1>6, NameNext
<1>7. CASE TxStart
  BY <1>7, TakeNext
\* A step of the worker within its block: the rows and volume are through it.
<1>8. PICK D : D = Blocks(0, Taken)
  OBVIOUS
<1>9. Through(tx, 0, D, liq, volume)
  BY <1>8 DEF TxOnly
<1>10. ASSUME UNCHANGED <<head, txq, sweepq, sw, left>>, Through(tx', 0, D, liq', volume'),
              tx'.pc = "idle" \/ tx'.job = Taken
       PROVE  TxOnly'
  <2>1. Named' = Named /\ Taken' = Taken
    BY <1>10 DEF Named, Taken
  <2>2. QED
    BY <1>8, <1>10, <2>1 DEF TxOnly
<1>11. CASE TxProcess
  <2>1. ProcessStep(tx, tx') /\ UNCHANGED <<head, txq, sweepq, sw, left>>
    BY <1>11 DEF TxProcess, queues
  <2>2. tx.pc # "idle"
    BY <2>1 DEF ProcessStep, LoadStep, FundingStep, TradeStep, RowsStep, CandleStep
  <2>3. PICK m : m = Taken
    OBVIOUS
  <2>4. m \in Int /\ D = Blocks(0, m) /\ tx.job = m
    BY <1>8, <2>2, <2>3, TakenIs DEF TxOnly
  <2>5. TablesOK /\ WorkerOK(tx, trades)
    BY DEF IndexerInv
  <2>6. Progress(tx, tx', 0, D)
    BY <1>9, <2>1, <2>4, <2>5, ProcessProgress
  <2>7. Through(tx', 0, D, liq', volume') /\ tx'.job = m
    BY <2>4, <2>6 DEF Progress
  <2>8. QED
    BY <1>10, <2>1, <2>3, <2>7
<1>12. CASE TxFinish
  <2>1. tx.pc = "done" /\ tx' = Idle /\ UNCHANGED <<head, txq, sweepq, tables, sw, left>>
    BY <1>12 DEF TxFinish
  <2>2. tx.todo = {}
    BY <1>9, <2>1 DEF Through
  <2>3. Through(tx', 0, D, liq, volume)
    BY <1>9, <2>1, <2>2, AtRest, IdleIs
  <2>4. QED
    BY <1>10, <2>1, <2>3, IdleIs DEF tables
<1>13. QED
  BY <1>1, <1>3, <1>4, <1>5, <1>6, <1>7, <1>11, <1>12 DEF Calmly

-----------------------------------------------------------------------------
LEMMA InitExactInv == Init => ExactInv
<1> SUFFICES ASSUME Init PROVE ExactInv
  OBVIOUS
<1>1. LeftOK
  BY IndexerAssumption DEF Init, LeftOK
<1>2. SweepOnly
  BY IdleIs DEF Init, SweepOnly
<1>3. /\ txq = <<>> /\ Len(txq) = 0 /\ Named = 0 /\ head = 0 /\ tx = Idle /\ sw = Idle
      /\ sweepq = 0
  BY IndexerAssumption DEF Init, Named
<1>4. Taken = 0
  <2>1. Taken = Named - Len(txq)
    BY DEF Taken
  <2>2. Taken = 0 - 0
    BY <1>3, <2>1
  <2>3. QED
    BY <2>2
<1>5. PICK D : D = Blocks(0, 0)
  OBVIOUS
<1>6. D = {}
  <2>1. \A e \in Events : BlockOf[e] \in 1..MaxBlock
    BY InOrder
  <2>2. \A e \in Events : ~(0 < BlockOf[e] /\ BlockOf[e] <= 0)
    BY <2>1
  <2>3. QED
    BY <1>5, <2>2 DEF Blocks
<1>7. DOMAIN liq = {} /\ \A e \in Events : volume[e] = 0
  BY DEF Init, Empty
<1>8. Through(tx, 0, D, liq, volume)
  BY <1>3, <1>6, <1>7, IdleIs DEF Through, Unwritten
<1>9. TxOnly
  BY <1>3, <1>4, <1>5, <1>8, IdleIs DEF TxOnly
<1>10. QED
  BY <1>1, <1>2, <1>9 DEF ExactInv

LEMMA NextExactInv == IndexerInv /\ ExactInv /\ [Next]_vars => ExactInv'
<1> SUFFICES ASSUME IndexerInv, ExactInv, [Next]_vars PROVE ExactInv'
  OBVIOUS
<1>1. LeftOK
  BY DEF ExactInv
<1>2. CASE UNCHANGED vars
  <2>1. /\ UNCHANGED <<txq, sweepq, cursor, tables, tx, sw, left, ordered, head>>
    BY <1>2 DEF vars, work, queues, sync
  <2>2. LeftOK' /\ Unfailing' = Unfailing
    BY <1>1, <2>1 DEF LeftOK, Unfailing
  <2>3. SweepOnly => SweepOnly'
    BY <2>1, SameSweep
  <2>4. head <= head' /\ head' \in Int
    BY <2>1 DEF IndexerInv, SyncOK
  <2>5. TxOnly => TxOnly'
    BY <1>1, <2>1, <2>4, SameTx
  <2>6. QED
    BY <2>1, <2>2, <2>3, <2>5 DEF ExactInv
<1>3. CASE Next /\ LeftOK' /\ ~Unfailing'
  BY <1>3 DEF ExactInv
<1>4. CASE Next /\ Calmly
  <2>1. /\ LeftOK' /\ (Unfailing' => Unfailing)
        /\ left'.notices = MaxNotices => left.notices = MaxNotices
        /\ left'.sweeps = MaxSweeps => left.sweeps = MaxSweeps
    BY <1>1, <1>4, CalmLeft
  <2>2. ordered' => ordered
    BY <1>4 DEF Calmly, Notify, MaybeEnqueueSweep
  <2>3. ASSUME Unfailing', left'.notices = MaxNotices
        PROVE  SweepOnly'
    <3>1. SweepOnly
      BY <2>1, <2>3 DEF ExactInv
    <3>2. QED
      BY <1>1, <1>4, <2>3, <3>1, SweepOnlyKeeps
  <2>4. ASSUME Unfailing', left'.sweeps = MaxSweeps, ordered'
        PROVE  TxOnly'
    <3>1. TxOnly
      BY <2>1, <2>2, <2>4 DEF ExactInv
    <3>2. QED
      BY <1>1, <1>4, <2>4, <3>1, TxOnlyKeeps
  <2>5. QED
    BY <2>1, <2>3, <2>4 DEF ExactInv
<1>5. QED
  BY <1>1, <1>2, <1>3, <1>4, NextCalmly

LEMMA ThroughExact ==
    ASSUME NEW W, NEW lo, NEW D, Through(W, lo, D, liq, volume)
    PROVE  (\A e \in DOMAIN liq : liq[e] = Since(lo, e)) /\ \A e \in Events : volume[e] <= 1
BY DEF Through

(* Where nothing failed and one worker had every block handed to it once and *)
(* in order, the reserves stored at an event account for each event since    *)
(* the index began, up to it, once, and a trade is in the volume once at     *)
(* most: for any chain, however long the windows and the batches are.        *)
THEOREM CountsExactly == Spec => []Exact
<1>1. IndexerInv /\ ExactInv => Exact
  <2> SUFFICES ASSUME IndexerInv, ExactInv, Undisturbed PROVE Exact
    BY DEF Exact
  <2>1. 0 \in 0..MaxOf(MaxBlock - InitLag, Baseline)
    BY IndexerAssumption DEF MaxOf
  <2>2. CASE left.notices = MaxNotices
    <3>1. SweepOnly
      BY <2>2 DEF ExactInv, Undisturbed, Unfailing
    <3>2. CASE cursor = NoRow
      <4>1. DOMAIN liq = {} /\ volume = Empty
        BY <3>1, <3>2 DEF SweepOnly
      <4>2. \A e \in Events : volume[e] <= 1
        BY <4>1 DEF Empty
      <4>3. QED
        BY <2>1, <4>1, <4>2 DEF Exact
    <3>3. CASE cursor # NoRow
      <4>1. PICK lo \in 0..MaxOf(MaxBlock - InitLag, Baseline) : SweptFrom(lo)
        BY <3>1, <3>3 DEF SweepOnly
      <4>2. PICK D : D = Blocks(lo, Swept)
        OBVIOUS
      <4>3. Through(sw, lo, D, liq, volume)
        BY <4>1, <4>2 DEF SweptFrom
      <4>4. QED
        BY <4>1, <4>3, ThroughExact DEF Exact
    <3>4. QED
      BY <3>2, <3>3
  <2>3. CASE left.sweeps = MaxSweeps /\ ordered
    <3>1. TxOnly
      BY <2>3 DEF ExactInv, Undisturbed, Unfailing
    <3>2. PICK D : D = Blocks(0, Taken)
      OBVIOUS
    <3>3. Through(tx, 0, D, liq, volume)
      BY <3>1, <3>2 DEF TxOnly
    <3>4. QED
      BY <2>1, <3>3, ThroughExact DEF Exact
  <2>4. QED
    BY <2>2, <2>3 DEF Undisturbed
<1>2. QED
  BY <1>1, InitExactInv, NextExactInv, IndexerInvariant, PTL DEF Spec

===============================================================================
