------------------------------- MODULE Factory -------------------------------
(***************************************************************************)
(* The factory of market makers (FixedProductMarketMakerFactory and the    *)
(* constructor of its clones): an owner, a collateral and a fee that may   *)
(* change between two calls, and the terms and positions each market maker *)
(* was made with, which nothing changes any more.  A call is one           *)
(* transaction; what the clone's constructor requires reverts it whole.    *)
(*                                                                         *)
(* A position is the set of <<condition, slot>> it stands for, as in       *)
(* ConditionalTokens; the bytes of the clone and its address are left out. *)
(***************************************************************************)
EXTENDS Integers, Sequences, FiniteSets, SequencesExt

CONSTANTS Users,      \* callers
          Tokens,     \* ERC-20 collateral
          MAX_FEE,    \* 5 per cent
          Fees,       \* fees the callers pass
          Lists,      \* lists of conditions the callers pass
          SlotCounts, \* outcome slots of a condition that is prepared
          MaxMakers   \* bound on the market makers made

FactoryAssumption ==
    /\ MAX_FEE \in Nat /\ Fees \subseteq Nat /\ 0 \in Fees
    /\ SlotCounts \subseteq Nat \ {0, 1}
    /\ MaxMakers \in Nat
    \* No list names a condition twice: those that create markets name one.
    /\ \A list \in Lists : list \in Seq(Range(list)) /\ IsInjective(list)

VARIABLES owner,
          allowedCollateralToken,
          defaultFee,
          slots,   \* getOutcomeSlotCount: 0 while not prepared
          makers   \* the market makers, in order: who called with which
                   \* arguments, and the clone's collateral, fee, positionIds

terms == <<owner, allowedCollateralToken, defaultFee>>
vars == <<terms, slots, makers>>

AnyToken == 0  \* the zero address: whatever is allowed
Conditions == UNION {Range(list) : list \in Lists}

\* The deployer's constructor.
Init ==
    /\ owner \in Users
    /\ allowedCollateralToken \in Tokens
    /\ defaultFee \in Fees /\ defaultFee <= MAX_FEE
    /\ slots = [c \in Conditions |-> 0]
    /\ makers = <<>>

TransferOwnership(u, v) ==
    /\ u = owner
    /\ owner' = v
    /\ UNCHANGED <<allowedCollateralToken, defaultFee, slots, makers>>

SetAllowedCollateralToken(u, t) ==
    /\ u = owner
    /\ allowedCollateralToken' = t
    /\ UNCHANGED <<owner, defaultFee, slots, makers>>

SetDefaultFee(u, f) ==
    /\ u = owner /\ f <= MAX_FEE
    /\ defaultFee' = f
    /\ UNCHANGED <<owner, allowedCollateralToken, slots, makers>>

-----------------------------------------------------------------------------
(* cloneConstructor. *)

\* _recordCollectionIDsForAllConditions: the last condition's slots outermost.
AddCondition(c, parents) ==
    FlattenSeq([p \in DOMAIN parents |->
                   [i \in 1..slots[c] |-> parents[p] \union {<<c, i>>}]])

PositionIds(list) == FoldRight(AddCondition, list, <<{}>>)

AtomicOutcomes(list) == FoldLeft(LAMBDA n, c : n * slots[c], 1, list)

Constructed(list) ==
    AtomicOutcomes(list) > 1 /\ Len(PositionIds(list)) = AtomicOutcomes(list)

\* A fee of zero asks for the default, no other fee than that is accepted.
CreateFixedProductMarketMaker(u, t, list, f) ==
    /\ u = owner
    /\ t \in {AnyToken, allowedCollateralToken}
    /\ f \in {0, defaultFee}
    /\ Constructed(list)
    /\ Len(makers) < MaxMakers
    /\ makers' = Append(makers,
                    [creator |-> u, token |-> t, asked |-> f, conditions |-> list,
                     collateralToken |-> allowedCollateralToken,
                     fee |-> defaultFee, positionIds |-> PositionIds(list)])
    /\ UNCHANGED <<terms, slots>>

\* Somebody prepares a condition at the conditional-token contract.
PrepareCondition(c, n) ==
    /\ slots[c] = 0
    /\ slots' = [slots EXCEPT ![c] = n]
    /\ UNCHANGED <<terms, makers>>

Next ==
    \/ \E u \in Users :
         \/ \E v \in Users : TransferOwnership(u, v)
         \/ \E t \in Tokens : SetAllowedCollateralToken(u, t)
         \/ \E f \in Fees : SetDefaultFee(u, f)
         \/ \E t \in Tokens \union {AnyToken}, list \in Lists, f \in Fees :
              CreateFixedProductMarketMaker(u, t, list, f)
    \/ \E c \in Conditions, n \in SlotCounts : PrepareCondition(c, n)

Spec == Init /\ [][Next]_vars

-----------------------------------------------------------------------------
(* Properties. *)

\* One position for every joint outcome of its conditions, and each once.
Complete(m) ==
    LET named   == Range(m.conditions)
        choices == {f \in [named -> UNION {1..slots[c] : c \in named}] :
                       \A c \in named : f[c] <= slots[c]}
    IN  /\ IsInjective(m.positionIds)
        /\ Range(m.positionIds) = {{<<c, f[c]>> : c \in named} : f \in choices}

(* The owner, the collateral and the fee may change between a caller's       *)
(* reading them and the call: who names a token or a fee gets a market maker *)
(* with exactly those or none, and none takes more than MAX_FEE.  Its        *)
(* positions are the joint outcomes of its conditions for good, whatever was *)
(* and is prepared beside them, so that what it splits it can merge.         *)
TermsHold ==
    \A m \in Range(makers) :
        /\ m.fee <= MAX_FEE
        /\ m.token \in {AnyToken, m.collateralToken} /\ m.asked \in {0, m.fee}
        /\ Complete(m)
===============================================================================
