---------------------------- MODULE ContractProofs ----------------------------
(***************************************************************************)
(* Theorems about the contracts: about Oracle, for every set of actors,    *)
(* questions, slot counts and payout vectors; and about the two ledgers of *)
(* MC_ConditionalTokens, for any finite sets that name them.               *)
(***************************************************************************)
EXTENDS Oracle, MC_ConditionalTokens, ConditionalTokensProofs

(* What ctf may do in a step, whoever called: stay, prepare, or report.    *)
CtfStep ==
    \/ UNCHANGED ctf
    \/ \E c \in ConditionIds : Abstract!Prepare(c)
    \/ \E c \in ConditionIds, v \in Results : Abstract!Report(c, v)

(* A vector that is reported is one of Results, and the step is one of the *)
(* abstract specification.                                                 *)
LEMMA ReportIsAbstract ==
    ASSUME NEW q \in Questions, NEW n \in Slots,
           NEW v \in Results \union {Zero}, CtfReport(q, n, v)
    PROVE  \E c \in ConditionIds, r \in Results : Abstract!Report(c, r)
<1>1. v \in Results /\ <<q, n>> \in ConditionIds
  BY DEF CtfReport, ConditionIds
<1>2. Abstract!Report(<<q, n>>, v)
  BY DEF CtfReport, Abstract!Report
<1>3. QED
  BY <1>1, <1>2

LEMMA PrepareIsAbstract ==
    ASSUME NEW q \in Questions, NEW n \in Slots, CtfPrepare(q, n)
    PROVE  \E c \in ConditionIds : Abstract!Prepare(c)
<1>1. <<q, n>> \in ConditionIds
  BY DEF ConditionIds
<1>2. Abstract!Prepare(<<q, n>>)
  BY DEF CtfPrepare, Abstract!Prepare
<1>3. QED
  BY <1>1, <1>2

(* Every call of the three contracts does to the conditions what the       *)
(* abstract specification allows.                                          *)
LEMMA StepIsAbstract == ASSUME Next PROVE CtfStep
<1>1. ASSUME NEW a \in Callers, Administer(a)
      PROVE  CtfStep
  BY <1>1 DEF Administer, SetRole, TransferOwnership, SetManager,
     SetAllowedOracle, CtfStep
<1>2. ASSUME NEW q \in Questions, NEW n \in Slots, PrepareDirectly(q, n)
      PROVE  CtfStep
  BY <1>2, PrepareIsAbstract DEF PrepareDirectly, CtfStep
<1>3. ASSUME NEW q \in Questions, NEW n \in Slots, SyncResolution(q, n)
      PROVE  CtfStep
  BY <1>3 DEF SyncResolution, CtfStep
<1>4. ASSUME NEW q \in Questions, NEW n \in Slots, NEW a \in Callers,
             OracleCall(a, q, n)
      PROVE  CtfStep
  <2>1. CASE PrepareThroughOracle(a, q, n)
    BY <2>1, PrepareIsAbstract DEF PrepareThroughOracle, CtfStep
  <2>2. CASE Invalidate(a, q, n)
    <3>1. CtfReport(q, n, Equal)
      BY <2>2 DEF Invalidate, Resolve
    <3>2. Equal \in Results \union {Zero}
      BY OracleAssumption
    <3>3. QED
      BY <3>1, <3>2, ReportIsAbstract DEF CtfStep
  <2>3. ASSUME NEW v \in Results \union {Zero}, Resolve(a, q, n, v)
        PROVE  CtfStep
    BY <2>3, ReportIsAbstract DEF Resolve, CtfStep
  <2>4. ASSUME NEW v \in Results \union {Zero}, ReportThroughOracle(a, q, n, v)
        PROVE  CtfStep
    BY <2>4, ReportIsAbstract DEF ReportThroughOracle, CtfStep
  <2>5. QED
    BY <1>4, <2>1, <2>2, <2>3, <2>4 DEF OracleCall
<1>5. ASSUME NEW q \in Questions, NEW n \in Slots, NEW a \in Callers,
             AdapterCall(a, q, n)
      PROVE  CtfStep
  <2>1. CASE InitializeCondition(a, q, n)
    BY <2>1, PrepareIsAbstract DEF InitializeCondition, CtfStep
  <2>2. ASSUME NEW v \in Results \union {Zero}, RequestResolve(a, q, n, v)
        PROVE  CtfStep
    BY <2>2, ReportIsAbstract DEF RequestResolve, ReportThroughOracle, CtfStep
  <2>3. QED
    BY <1>5, <2>1, <2>2 DEF AdapterCall
<1>6. QED
  BY <1>1, <1>2, <1>3, <1>4, <1>5 DEF Next

(* The three contracts together implement Resolution: a condition is       *)
(* prepared once and reported once, whoever calls what in which order.     *)
THEOREM StackImplementsResolution == Spec => OneResult
<1>1. Init => Abstract!Init
  BY DEF Init, Abstract!Init
<1>2. [Next]_vars => [Abstract!Next]_ctf
  <2>1. SUFFICES ASSUME [Next]_vars PROVE [Abstract!Next]_ctf
    OBVIOUS
  <2>2. CASE UNCHANGED vars
    BY <2>2 DEF vars
  <2>3. CASE Next
    BY <2>3, StepIsAbstract DEF CtfStep, Abstract!Next
  <2>4. QED
    BY <2>1, <2>2, <2>3
<1>3. QED
  BY <1>1, <1>2, PTL DEF Spec, OneResult, Abstract!Spec

-----------------------------------------------------------------------------
(* The caches. *)

CtfType == ctf \in [ConditionIds -> {"unprepared", "open"} \union Results]

(* A step keeps every result, and every condition keeps its type. *)
LEMMA ResultsStay ==
    ASSUME CtfType, CtfStep
    PROVE  CtfType' /\ \A c \in ConditionIds : ctf[c] \in Results => ctf'[c] = ctf[c]
<1>1. CASE UNCHANGED ctf
  BY <1>1 DEF CtfType
<1>2. ASSUME NEW c \in ConditionIds, Abstract!Prepare(c)
      PROVE  CtfType' /\ \A d \in ConditionIds : ctf[d] \in Results => ctf'[d] = ctf[d]
  BY <1>2, OracleAssumption DEF CtfType, Abstract!Prepare
<1>3. ASSUME NEW c \in ConditionIds, NEW v \in Results, Abstract!Report(c, v)
      PROVE  CtfType' /\ \A d \in ConditionIds : ctf[d] \in Results => ctf'[d] = ctf[d]
  BY <1>3, OracleAssumption DEF CtfType, Abstract!Report
<1>4. QED
  BY <1>1, <1>2, <1>3 DEF CtfStep

\* Only syncResolution writes the cache.
CacheInv ==
    /\ CtfType
    /\ synced \in [ConditionIds -> {"none", Zero} \union Results]
    /\ flagged \subseteq ConditionIds
    /\ SyncedIsTrue

(* Every action but SyncResolution leaves the cache alone. *)
LEMMA CacheWriter ==
    ASSUME Next
    PROVE  \/ UNCHANGED <<flagged, synced>>
           \/ \E q \in Questions, n \in Slots : SyncResolution(q, n)
<1>1. ASSUME NEW a \in Callers, Administer(a)
      PROVE  UNCHANGED <<flagged, synced>>
  BY <1>1 DEF Administer, SetRole, TransferOwnership, SetManager,
     SetAllowedOracle, adapterVars
<1>2. ASSUME NEW q \in Questions, NEW n \in Slots, PrepareDirectly(q, n)
      PROVE  UNCHANGED <<flagged, synced>>
  BY <1>2 DEF PrepareDirectly, adapterVars
<1>3. ASSUME NEW q \in Questions, NEW n \in Slots, NEW a \in Callers,
             OracleCall(a, q, n) \/ AdapterCall(a, q, n)
      PROVE  UNCHANGED <<flagged, synced>>
  BY <1>3 DEF OracleCall, AdapterCall, PrepareThroughOracle, Invalidate, Resolve,
     InitializeCondition, RequestResolve, adapterVars
<1>4. QED
  BY <1>1, <1>2, <1>3 DEF Next

(* The adapter's cache never contradicts the conditional-token contract.   *)
THEOREM CacheIsTrue == Spec => []SyncedIsTrue
<1>1. Init => CacheInv
  BY DEF Init, CacheInv, CtfType, SyncedIsTrue
<1>2. CacheInv /\ [Next]_vars => CacheInv'
  <2>1. SUFFICES ASSUME CacheInv, [Next]_vars PROVE CacheInv'
    OBVIOUS
  <2>2. CASE UNCHANGED vars
    BY <2>1, <2>2 DEF vars, adapterVars, CacheInv, CtfType, SyncedIsTrue
  <2>3. CASE Next
    <3>1. CtfType' /\ \A c \in ConditionIds : ctf[c] \in Results => ctf'[c] = ctf[c]
      BY <2>1, <2>3, StepIsAbstract, ResultsStay DEF CacheInv
    <3>2. CASE UNCHANGED <<flagged, synced>>
      BY <2>1, <3>1, <3>2 DEF CacheInv, SyncedIsTrue
    <3>3. ASSUME NEW q \in Questions, NEW n \in Slots, SyncResolution(q, n)
          PROVE  CacheInv'
      <4> DEFINE c0 == <<q, n>>
      <4>1. c0 \in ConditionIds
        BY DEF ConditionIds
      <4>2. ctf' = ctf
        BY <3>3 DEF SyncResolution
      <4>3. synced' = [synced EXCEPT ![c0] =
                          IF ctf[c0] \in Results THEN ctf[c0] ELSE Zero]
        BY <3>3 DEF SyncResolution
      <4>4. flagged' = IF ctf[c0] \in Results
                       THEN flagged \union {c0} ELSE flagged \ {c0}
        BY <3>3 DEF SyncResolution
      <4> HIDE DEF c0
      <4>5. QED
        BY <2>1, <4>1, <4>2, <4>3, <4>4 DEF CacheInv, CtfType, SyncedIsTrue
    <3>4. QED
      BY <2>3, <3>2, <3>3, CacheWriter
  <2>4. QED
    BY <2>1, <2>2, <2>3
<1>3. CacheInv => SyncedIsTrue
  BY DEF CacheInv
<1>4. QED
  BY <1>1, <1>2, <1>3, PTL DEF Spec

-----------------------------------------------------------------------------
(* The two ledgers of one run.                                             *)

Race3 == INSTANCE ConditionalTokensProofs
           WITH Accounts <- Holders, Conditions <- Race, Outcomes <- Runners,
                Endowment <- 1, Amounts <- {1}, MaxSupply <- 1

LEMMA RaceIsLedger == Race3!CtfAssumption
<1>1. 1 \in Nat /\ {1} \subseteq Nat \ {0} /\ MaxNumerator \in Nat \ {0}
  BY CtfAssumption
<1>2. /\ IsFiniteSet(Holders) /\ IsFiniteSet(Race)
      /\ IsFiniteSet(Runners) /\ Cardinality(Runners) > 1
  BY RaceAssumption
<1>3. \A S : Race3!IsFiniteSet(S) = IsFiniteSet(S)
  BY DEF Race3!IsFiniteSet, IsFiniteSet
<1>4. \A S : Race3!Cardinality(S) = Cardinality(S)
  BY DEF Race3!Cardinality, Cardinality
<1>5. QED
  BY <1>1, <1>2, <1>3, <1>4 DEF Race3!CtfAssumption

\* Naming the instance twice gives the same ledger.
LEMMA SameSteps == ThreeWay!LedgerNext = Race3!LedgerNext
BY DEF ThreeWay!LedgerNext, ThreeWay!PrepareCondition,
   ThreeWay!ReportPayouts, ThreeWay!SplitPosition,
   ThreeWay!MergePositions, ThreeWay!RedeemPositions,
   ThreeWay!SetApprovalForAll, ThreeWay!SafeTransferFrom,
   ThreeWay!PayoutVectors, ThreeWay!VectorSum, ThreeWay!Parents,
   ThreeWay!Positions, ThreeWay!Root, ThreeWay!IndexSets,
   ThreeWay!Partitions, ThreeWay!ValidPartition, ThreeWay!Whole,
   ThreeWay!Pieces, ThreeWay!Extend, ThreeWay!Credit, ThreeWay!Supply,
   ThreeWay!Holding, ThreeWay!TakeCollateral, ThreeWay!GiveCollateral,
   ThreeWay!RedeemPayout, ThreeWay!IndexSetNumerator,
   ThreeWay!Cardinality, ThreeWay!SumFunction,
   ThreeWay!SumFunctionOnSet, ThreeWay!FoldFunction,
   ThreeWay!FoldFunctionOnSet, ThreeWay!MapThenFoldSet,
   Race3!LedgerNext, Race3!PrepareCondition, Race3!ReportPayouts,
   Race3!SplitPosition, Race3!MergePositions, Race3!RedeemPositions,
   Race3!SetApprovalForAll, Race3!SafeTransferFrom, Race3!PayoutVectors,
   Race3!VectorSum, Race3!Parents, Race3!Positions, Race3!Root,
   Race3!IndexSets, Race3!Partitions, Race3!ValidPartition, Race3!Whole,
   Race3!Pieces, Race3!Extend, Race3!Credit, Race3!Supply,
   Race3!Holding, Race3!TakeCollateral, Race3!GiveCollateral,
   Race3!RedeemPayout, Race3!IndexSetNumerator, Race3!Cardinality,
   Race3!SumFunction, Race3!SumFunctionOnSet, Race3!FoldFunction,
   Race3!FoldFunctionOnSet, Race3!MapThenFoldSet

LEMMA SameProperties ==
    /\ ThreeWay!Solvent = Race3!Solvent
    /\ ThreeWay!ExactBacking = Race3!ExactBacking
BY DEF ThreeWay!Solvent, ThreeWay!ExactBacking, ThreeWay!Worlds,
   ThreeWay!Owed, ThreeWay!Worth, ThreeWay!Product, ThreeWay!Factor,
   ThreeWay!IndexSetNumerator, ThreeWay!Supply, ThreeWay!Positions,
   ThreeWay!Root, ThreeWay!IndexSets, ThreeWay!SumFunction,
   ThreeWay!SumFunctionOnSet, ThreeWay!FoldFunction,
   ThreeWay!FoldFunctionOnSet, ThreeWay!MapThenFoldSet, Race3!Solvent,
   Race3!ExactBacking, Race3!Worlds, Race3!Owed, Race3!Worth,
   Race3!Product, Race3!Factor, Race3!IndexSetNumerator, Race3!Supply,
   Race3!Positions, Race3!Root, Race3!IndexSets, Race3!SumFunction,
   Race3!SumFunctionOnSet, Race3!FoldFunction, Race3!FoldFunctionOnSet,
   Race3!MapThenFoldSet

(* What holds of both ledgers, each while the behaviour is its own.        *)
BothInv ==
    /\ nested \in BOOLEAN
    /\ nested => LedgerInv
    /\ ~nested => Race3!LedgerInv

LEMMA BothBacked == MCSpec => []BothInv
<1>1. MCInit => BothInv
  <2>1. ASSUME MCInit, nested
        PROVE  LedgerInv
    BY <2>1, StartsBacked DEF MCInit
  <2>2. ASSUME MCInit, ~nested
        PROVE  Race3!LedgerInv
    <3>1. Race3!LedgerInit
      BY <2>2 DEF MCInit, ThreeWay!LedgerInit, Race3!LedgerInit,
         ThreeWay!Positions, Race3!Positions, ThreeWay!IndexSets, Race3!IndexSets
    <3>2. QED
      BY <3>1, RaceIsLedger, Race3!StartsBacked
  <2>3. QED
    BY <2>1, <2>2 DEF BothInv, MCInit
<1>2. BothInv /\ [MCNext]_<<ledgerVars, nested>> => BothInv'
  <2>1. ASSUME BothInv, [MCNext]_<<ledgerVars, nested>>, nested
        PROVE  LedgerInv'
    BY <2>1, StepsKeep DEF BothInv, MCNext
  <2>2. ASSUME BothInv, [MCNext]_<<ledgerVars, nested>>, ~nested
        PROVE  Race3!LedgerInv'
    <3>1. [Race3!LedgerNext]_(Race3!ledgerVars)
      BY <2>2, SameSteps DEF MCNext, ledgerVars, Race3!ledgerVars
    <3>2. QED
      BY <2>2, <3>1, RaceIsLedger, Race3!StepsKeep DEF BothInv
  <2>3. QED
    BY <2>1, <2>2 DEF BothInv, MCNext
<1>3. QED
  BY <1>1, <1>2, PTL DEF MCSpec

(* In either ledger the collateral covers the face value of everything     *)
(* outstanding, whatever the open conditions turn out to be: nothing that  *)
(* split, merge, redemption or transfer does leaves a holder short.        *)
THEOREM LedgersSolvent == MCSpec => []LedgerSolvent
<1>1. BothInv => LedgerSolvent
  BY SameProperties DEF BothInv, LedgerSolvent, LedgerInv, Race3!LedgerInv
<1>2. QED
  BY <1>1, BothBacked, PTL

(* In either ledger the books balance to the token until some condition is *)
(* reported.                                                               *)
THEOREM LedgersExact == MCSpec => []LedgerExact
<1>1. BothInv => LedgerExact
  BY SameProperties DEF BothInv, LedgerExact, LedgerInv, Race3!LedgerInv
<1>2. QED
  BY <1>1, BothBacked, PTL
=============================================================================
