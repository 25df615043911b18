-------------------------------- MODULE Oracle --------------------------------
(***************************************************************************)
(* How a market's condition gets its result: the adapter the API calls     *)
(* (contracts-hardhat/contracts/DirectOracleAdapter.sol), the oracle it    *)
(* forwards to (DirectCTFOracle.sol) and the part of ConditionalTokens.sol *)
(* they call.  Every condition here has the direct oracle as its oracle,   *)
(* so it is known by its question and its number of outcome slots.         *)
(* A payout vector is a member of Results, or Zero.                        *)
(***************************************************************************)
EXTENDS Integers

CONSTANTS Actors,     \* accounts; the adapter contract is one of them
          Adapter,    \* the adapter as a caller of the oracle
          Admin,      \* who deployed both contracts
          Questions,  \* question ids
          Slots,      \* outcome slot counts
          U8,         \* 2^8: the adapter and the oracle keep counts in a uint8
          Results,    \* payout vectors with a positive sum
          Equal,      \* the vector of ones that `invalidate' reports
          Zero        \* the vector of zeros

ASSUME OracleAssumption ==
    /\ Adapter \in Actors /\ Admin \in Actors \ {Adapter}
    /\ U8 \in Nat \ {0}
    /\ Slots \subseteq 2..U8
    /\ Equal \in Results /\ Zero \notin Results
    /\ {"unprepared", "open"} \intersect (Results \union {Zero}) = {}

VARIABLES ctf,        \* ConditionalTokens: condition -> "unprepared", "open", result
          index,      \* DirectCTFOracle.conditions: question -> meta
          isPrepared, \* DirectCTFOracle.isPrepared
          creators,   \* holders of CREATOR_ROLE
          resolvers,  \* holders of RESOLVER_ROLE
          known,      \* DirectOracleAdapter.conditions that are prepared
          flagged,    \* those whose `resolved' is set
          synced,     \* lastSyncedPayouts: condition -> vector or "none"
          owner,      \* the adapter's owner
          managers,   \* isManager
          allowed     \* allowedOracles of the direct oracle

oracleVars == <<index, isPrepared, creators, resolvers>>
adapterVars == <<known, flagged, synced, owner, managers, allowed>>
vars == <<ctf, oracleVars, adapterVars>>

ConditionIds == Questions \X Slots
Callers == Actors \ {Adapter}  \* the adapter calls only when it forwards
Having(S, b, on) == IF on THEN S \union {b} ELSE S \ {b}
NoMeta == [prepared |-> FALSE, resolved |-> FALSE, slots |-> 0]

Init ==
    /\ ctf = [c \in ConditionIds |-> "unprepared"]
    /\ index = [q \in Questions |-> NoMeta]
    /\ isPrepared = {}
    /\ creators = {Admin} /\ resolvers = {Admin}
    /\ known = {} /\ flagged = {}
    /\ synced = [c \in ConditionIds |-> "none"]
    /\ owner = Admin /\ managers = {} /\ allowed = FALSE

-----------------------------------------------------------------------------
(* ConditionalTokens. *)

CtfPrepare(q, n) ==
    /\ ctf[<<q, n>>] = "unprepared"
    /\ ctf' = [ctf EXCEPT ![<<q, n>>] = "open"]

\* Mutant of CtfReport: the denominator is not checked.
CtfReportAgain(q, n, v) ==
    /\ ctf[<<q, n>>] # "unprepared"
    /\ v # Zero
    /\ ctf' = [ctf EXCEPT ![<<q, n>>] = v]

CtfReport(q, n, v) ==
    /\ ctf[<<q, n>>] = "open"
    /\ v # Zero
    /\ ctf' = [ctf EXCEPT ![<<q, n>>] = v]

\* Anyone may prepare a condition for any oracle.
PrepareDirectly(q, n) ==
    /\ CtfPrepare(q, n)
    /\ UNCHANGED <<oracleVars, adapterVars>>

-----------------------------------------------------------------------------
(* DirectCTFOracle. *)

PrepareThroughOracle(a, q, n) ==
    /\ a \in creators
    /\ n < U8
    /\ <<q, n>> \notin isPrepared
    /\ CtfPrepare(q, n)
    /\ index' = [index EXCEPT ![q] = [prepared |-> TRUE, resolved |-> FALSE, slots |-> n]]
    /\ isPrepared' = isPrepared \union {<<q, n>>}
    /\ UNCHANGED <<creators, resolvers, adapterVars>>

\* What resolve and invalidate ask of the local index before they report.
Resolvable(q, n) == index[q].prepared /\ ~index[q].resolved /\ index[q].slots = n

Resolve(a, q, n, v) ==
    /\ a \in resolvers
    /\ Resolvable(q, n)
    /\ CtfReport(q, n, v)
    /\ index' = [index EXCEPT ![q].resolved = TRUE]
    /\ UNCHANGED <<isPrepared, creators, resolvers, adapterVars>>

Invalidate(a, q, n) == Resolve(a, q, n, Equal)

\* A question with an entry is marked resolved whichever of its conditions
\* was reported; one without gets an entry, its slot count cast to uint8.
Backfill(q, n) ==
    index' = IF index[q].prepared
             THEN [index EXCEPT ![q].resolved = TRUE]
             ELSE [index EXCEPT ![q] = [prepared |-> TRUE, resolved |-> TRUE, slots |-> n % U8]]

ReportThroughOracle(a, q, n, v) ==
    /\ a \in resolvers
    /\ CtfReport(q, n, v)
    /\ Backfill(q, n)
    /\ UNCHANGED <<isPrepared, creators, resolvers>>

\* AccessControl: the admin grants and revokes a role, its holder renounces it.
SetRole(a, b, on) ==
    /\ a = Admin \/ (a = b /\ ~on)
    /\ \/ creators' = Having(creators, b, on) /\ UNCHANGED resolvers
       \/ resolvers' = Having(resolvers, b, on) /\ UNCHANGED creators
    /\ UNCHANGED <<ctf, index, isPrepared, adapterVars>>

-----------------------------------------------------------------------------
(* DirectOracleAdapter. *)

ManagerOrOwner(a) == a = owner \/ a \in managers

SetManager(a, b, on) ==
    /\ a = owner
    /\ managers' = Having(managers, b, on)
    /\ UNCHANGED <<ctf, oracleVars, known, flagged, synced, owner, allowed>>

SetAllowedOracle(a, on) ==
    /\ a = owner
    /\ allowed' = on
    /\ UNCHANGED <<ctf, oracleVars, known, flagged, synced, owner, managers>>

TransferOwnership(a, b) ==
    /\ a = owner
    /\ owner' = b
    /\ UNCHANGED <<ctf, oracleVars, known, flagged, synced, managers, allowed>>

InitializeCondition(a, q, n) ==
    /\ ManagerOrOwner(a)
    /\ allowed
    /\ n < U8
    /\ CtfPrepare(q, n)
    /\ <<q, n>> \notin known
    /\ known' = known \union {<<q, n>>}
    /\ UNCHANGED <<oracleVars, flagged, synced, owner, managers, allowed>>

\* Mutant of RequestResolve: forwards to the oracle's `resolve'.
RequestThroughResolve(a, q, n, v) ==
    /\ ManagerOrOwner(a)
    /\ <<q, n>> \in known
    /\ Resolve(Adapter, q, n, v)

\* The adapter's own record of the condition is left as it was.
RequestResolve(a, q, n, v) ==
    /\ ManagerOrOwner(a)
    /\ <<q, n>> \in known
    /\ ReportThroughOracle(Adapter, q, n, v)
    /\ UNCHANGED adapterVars

\* Mutant of SyncResolution: an open condition is flagged as well.
SyncAny(q, n) ==
    /\ <<q, n>> \in known
    /\ flagged' = flagged \union {<<q, n>>}
    /\ synced' = [synced EXCEPT ![<<q, n>>] =
                     IF ctf[<<q, n>>] \in Results THEN ctf[<<q, n>>] ELSE Zero]
    /\ UNCHANGED <<ctf, oracleVars, known, owner, managers, allowed>>

\* Anyone: copies the vector, zeros while the condition is open.
SyncResolution(q, n) ==
    /\ <<q, n>> \in known
    /\ flagged' = IF ctf[<<q, n>>] \in Results
                  THEN flagged \union {<<q, n>>} ELSE flagged \ {<<q, n>>}
    /\ synced' = [synced EXCEPT ![<<q, n>>] =
                     IF ctf[<<q, n>>] \in Results THEN ctf[<<q, n>>] ELSE Zero]
    /\ UNCHANGED <<ctf, oracleVars, known, owner, managers, allowed>>

-----------------------------------------------------------------------------

OracleCall(a, q, n) ==
    \/ PrepareThroughOracle(a, q, n)
    \/ Invalidate(a, q, n)
    \/ \E v \in Results \union {Zero} :
         \/ Resolve(a, q, n, v)
         \/ ReportThroughOracle(a, q, n, v) /\ UNCHANGED adapterVars

AdapterCall(a, q, n) ==
    \/ InitializeCondition(a, q, n)
    \/ \E v \in Results \union {Zero} : RequestResolve(a, q, n, v)

Administer(a) ==
    \/ \E b \in Actors, on \in BOOLEAN : SetRole(a, b, on)
    \/ \E b \in Callers : TransferOwnership(a, b) \/ \E on \in BOOLEAN : SetManager(a, b, on)
    \/ \E on \in BOOLEAN : SetAllowedOracle(a, on)

Next ==
    \/ \E a \in Callers : Administer(a)
    \/ \E q \in Questions, n \in Slots :
         \/ PrepareDirectly(q, n)
         \/ SyncResolution(q, n)
         \/ \E a \in Callers : OracleCall(a, q, n) \/ AdapterCall(a, q, n)

Spec == Init /\ [][Next]_vars

\* A manager asks until the condition is resolved.
FairSpec ==
    /\ Spec
    /\ \A q \in Questions, n \in Slots :
         WF_vars(\E a \in Callers, v \in Results : RequestResolve(a, q, n, v))

-----------------------------------------------------------------------------
(* Properties. *)

Metas == [prepared : BOOLEAN, resolved : BOOLEAN, slots : 0..U8-1]

TypeOK ==
    /\ ctf \in [ConditionIds -> {"unprepared", "open"} \union Results]
    /\ index \in [Questions -> Metas]
    /\ isPrepared \subseteq ConditionIds
    /\ creators \subseteq Actors /\ resolvers \subseteq Actors
    /\ known \subseteq ConditionIds /\ flagged \subseteq known
    /\ synced \in [ConditionIds -> {"none", Zero} \union Results]
    /\ owner \in Actors /\ managers \subseteq Actors /\ allowed \in BOOLEAN

Abstract == INSTANCE Resolution WITH Conditions <- ConditionIds, status <- ctf

(* Whoever calls which contract in which order, the stack of three only     *)
(* ever prepares a condition once and reports it once.                      *)
OneResult == Abstract!Spec

(* The adapter's cached resolution is never wrong: a condition flagged as   *)
(* resolved has its result, and the cached vector is that result.           *)
SyncedIsTrue == \A c \in flagged : ctf[c] \in Results /\ synced[c] = ctf[c]

(* As long as the adapter keeps the resolver role, every condition created  *)
(* through it can be brought to a result through it: no use of the oracle's *)
(* own functions, other slot counts of the question included, wedges it.    *)
AdapterResolves ==
    <>[](Adapter \in resolvers) =>
        \A c \in ConditionIds : c \in known ~> ctf[c] \in Results
=============================================================================
