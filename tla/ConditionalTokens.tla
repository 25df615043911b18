-------------------------- MODULE ConditionalTokens --------------------------
(***************************************************************************)
(* The Gnosis conditional-token ledger that every market settles in        *)
(* (contracts-hardhat/contracts/ConditionalTokens.sol).                    *)
(*                                                                         *)
(* A position is the collection it stands for: a function from the         *)
(* conditions it was split on to the index set it keeps of each.  The      *)
(* code's position ids are hashes of exactly that (CTHelpers); the hash is *)
(* taken to be injective.  Root, the empty function, is plain collateral.  *)
(* A collection that names one condition twice is not represented.         *)
(***************************************************************************)
EXTENDS Integers, FiniteSets, Functions

CONSTANTS Accounts,      \* callers of the contract
          Conditions,    \* condition ids; the oracle is part of the id
          Outcomes,      \* outcome slots, the same for every condition
          Endowment,     \* collateral each account starts with
          Amounts,       \* arguments callers pass
          MaxNumerator,  \* bound on a reported payout numerator
          MaxSupply      \* bound on the units of a position a call may leave:
                         \* worthless tokens of a resolved condition pile up

ASSUME CtfAssumption ==
    /\ Endowment \in Nat
    /\ Amounts \subseteq Nat \ {0}
    /\ MaxNumerator \in Nat \ {0}
    /\ MaxSupply \in Nat
    /\ IsFiniteSet(Accounts) /\ IsFiniteSet(Conditions)
    /\ IsFiniteSet(Outcomes) /\ Cardinality(Outcomes) > 1

VARIABLES bal,        \* _balances: account -> position -> amount
          approvals,  \* _operatorApprovals: pairs <<owner, operator>>
          wallet,     \* ERC-20 collateral of each account
          pot,        \* ERC-20 collateral of the contract itself
          prepared,   \* conditions whose payoutNumerators array exists
          numerator,  \* payoutNumerators: condition -> outcome -> Nat
          den         \* payoutDenominator: condition -> Nat

ledgerVars == <<bal, approvals, wallet, pot, prepared, numerator, den>>

IndexSets == (SUBSET Outcomes) \ {{}, Outcomes}
Root == [c \in {} |-> {}]
Positions == UNION {[D -> IndexSets] : D \in (SUBSET Conditions) \ {{}}}

Extend(p, c, S) == [d \in DOMAIN p \union {c} |-> IF d = c THEN S ELSE p[d]]
PayoutVectors == [Outcomes -> 0..MaxNumerator]
VectorSum(v) == SumFunctionOnSet(v, Outcomes)

LedgerInit ==
    /\ bal = [a \in Accounts |-> [p \in Positions |-> 0]]
    /\ approvals = {}
    /\ wallet = [a \in Accounts |-> Endowment]
    /\ pot = 0
    /\ prepared = {}
    /\ numerator = [c \in Conditions |-> [o \in Outcomes |-> 0]]
    /\ den = [c \in Conditions |-> 0]

-----------------------------------------------------------------------------
(* Ledger helpers. *)

Credit(b, a, ps, n) ==
    [b EXCEPT ![a] = [p \in Positions |-> @[p] + IF p \in ps THEN n ELSE 0]]

Supply(p) == SumFunction([a \in Accounts |-> bal[a][p]])

Holding(a, p) == IF p = Root THEN wallet[a] ELSE bal[a][p]

\* n units of p leave account a: collateral goes to the pot, tokens are burnt.
TakeCollateral(a, p, n) ==
    IF p = Root
    THEN /\ wallet' = [wallet EXCEPT ![a] = @ - n]
         /\ pot' = pot + n
    ELSE UNCHANGED <<wallet, pot>>

\* The inverse; the transfer out of the pot reverts when the pot is short.
GiveCollateral(a, p, n) ==
    IF p = Root
    THEN /\ pot >= n
         /\ wallet' = [wallet EXCEPT ![a] = @ + n]
         /\ pot' = pot - n
    ELSE UNCHANGED <<wallet, pot>>

\* Mutant of ValidPartition: the index sets may overlap.
OverlappingPartition(partition) ==
    /\ partition \subseteq IndexSets
    /\ Cardinality(partition) > 1

\* The loop over `partition' in splitPosition and mergePositions.
ValidPartition(partition) ==
    /\ partition \subseteq IndexSets
    /\ Cardinality(partition) > 1
    /\ \A S, T \in partition : S # T => S \intersect T = {}

Partitions == {P \in SUBSET IndexSets : ValidPartition(P)}

\* The position a partition is carved from: the parent itself when the whole
\* outcome set is covered, else the parent restricted to the union.
Whole(parent, c, partition) ==
    IF UNION partition = Outcomes
    THEN parent ELSE Extend(parent, c, UNION partition)

Pieces(parent, c, indexSets) == {Extend(parent, c, S) : S \in indexSets}

Parents(c) == {p \in Positions \union {Root} : c \notin DOMAIN p}

-----------------------------------------------------------------------------
(* The external functions. *)

PrepareCondition(c) ==
    /\ c \notin prepared
    /\ prepared' = prepared \union {c}
    /\ UNCHANGED <<bal, approvals, wallet, pot, numerator, den>>

\* msg.sender is hashed into the condition id, so only the oracle gets here.
ReportPayouts(c, payouts) ==
    /\ c \in prepared
    /\ den[c] = 0
    /\ VectorSum(payouts) > 0
    /\ numerator' = [numerator EXCEPT ![c] = payouts]
    /\ den' = [den EXCEPT ![c] = VectorSum(payouts)]
    /\ UNCHANGED <<bal, approvals, wallet, pot, prepared>>

SplitPosition(a, parent, c, partition, n) ==
    LET source == Whole(parent, c, partition)
        split  == Credit(bal, a, Pieces(parent, c, partition), n)
    IN  /\ c \in prepared
        /\ Holding(a, source) >= n
        /\ \A p \in Pieces(parent, c, partition) : Supply(p) + n <= MaxSupply
        /\ bal' = Credit(split, a, {source}, -n)
        /\ TakeCollateral(a, source, n)
        /\ UNCHANGED <<approvals, prepared, numerator, den>>

MergePositions(a, parent, c, partition, n) ==
    LET target == Whole(parent, c, partition)
        merged == Credit(bal, a, Pieces(parent, c, partition), -n)
    IN  /\ c \in prepared
        /\ \A p \in Pieces(parent, c, partition) : bal[a][p] >= n
        /\ target # Root => Supply(target) + n <= MaxSupply
        /\ bal' = Credit(merged, a, {target}, n)
        /\ GiveCollateral(a, target, n)
        /\ UNCHANGED <<approvals, prepared, numerator, den>>

IndexSetNumerator(c, S) == SumFunctionOnSet(numerator[c], S)

\* Mutant of RedeemPayout: rounds up.
RedeemPayoutCeil(a, parent, c, indexSets) ==
    SumFunction([S \in indexSets |->
        (bal[a][Extend(parent, c, S)] * IndexSetNumerator(c, S) + den[c] - 1) \div den[c]])

\* Each position is paid on its own and rounded down.
RedeemPayout(a, parent, c, indexSets) ==
    SumFunction([S \in indexSets |->
        (bal[a][Extend(parent, c, S)] * IndexSetNumerator(c, S)) \div den[c]])

RedeemPositions(a, parent, c, indexSets) ==
    LET payout == RedeemPayout(a, parent, c, indexSets)
        burnt  == [p \in Positions |->
                      IF p \in Pieces(parent, c, indexSets) THEN 0 ELSE bal[a][p]]
    IN  /\ den[c] > 0
        /\ parent # Root => Supply(parent) + payout <= MaxSupply
        /\ bal' = Credit([bal EXCEPT ![a] = burnt], a, {parent}, payout)
        /\ GiveCollateral(a, parent, payout)
        /\ UNCHANGED <<approvals, prepared, numerator, den>>

SetApprovalForAll(a, op, approved) ==
    /\ approvals' = IF approved THEN approvals \union {<<a, op>>}
                                ELSE approvals \ {<<a, op>>}
    /\ UNCHANGED <<bal, wallet, pot, prepared, numerator, den>>

\* safeTransferFrom, and safeBatchTransferFrom with one value for each id.
SafeTransferFrom(op, from, to, ps, n) ==
    /\ op = from \/ <<from, op>> \in approvals
    /\ \A p \in ps : bal[from][p] >= n
    /\ bal' = Credit(Credit(bal, from, ps, -n), to, ps, n)
    /\ UNCHANGED <<approvals, wallet, pot, prepared, numerator, den>>

LedgerNext ==
    \/ \E c \in Conditions :
         \/ PrepareCondition(c)
         \/ \E v \in PayoutVectors : ReportPayouts(c, v)
    \/ \E a \in Accounts, c \in Conditions : \E parent \in Parents(c) :
         \/ \E P \in Partitions, n \in Amounts :
              \/ SplitPosition(a, parent, c, P, n)
              \/ MergePositions(a, parent, c, P, n)
         \/ \E I \in SUBSET IndexSets : RedeemPositions(a, parent, c, I)
    \/ \E a, b \in Accounts :  \* approving oneself changes nothing: left out
         \/ \E yes \in BOOLEAN : a # b /\ SetApprovalForAll(a, b, yes)
         \/ \E op \in Accounts, p \in Positions, n \in Amounts :
              SafeTransferFrom(op, a, b, {p}, n)

LedgerSpec == LedgerInit /\ [][LedgerNext]_ledgerVars

-----------------------------------------------------------------------------
(* Properties. *)

LedgerTypeOK ==
    /\ bal \in [Accounts -> [Positions -> Nat]]
    /\ approvals \subseteq Accounts \X Accounts
    /\ wallet \in [Accounts -> Nat]
    /\ pot \in Nat
    /\ prepared \subseteq Conditions
    /\ numerator \in [Conditions -> [Outcomes -> Nat]]
    /\ den \in [Conditions -> Nat]

\* A world fixes the outcome of every condition.
Worlds == [Conditions -> Outcomes]

\* What one unit of p is worth in world w, times the product of the
\* denominators reported so far: an unresolved condition pays all or nothing,
\* a resolved one pays its reported fraction.
Factor(p, c, w) ==
    CASE den[c] > 0 /\ c \in DOMAIN p    -> IndexSetNumerator(c, p[c])
      [] den[c] > 0 /\ c \notin DOMAIN p -> den[c]
      [] den[c] = 0 /\ c \in DOMAIN p    -> IF w[c] \in p[c] THEN 1 ELSE 0
      [] OTHER                           -> 1

Product(f) == FoldFunction(LAMBDA x, y : x * y, 1, f)
Worth(p, w) == Product([c \in Conditions |-> Factor(p, c, w)])

Owed(w) == SumFunction([p \in Positions |-> Supply(p) * Worth(p, w)])

(* Whatever the unresolved conditions turn out to be, the collateral in the *)
(* contract covers the face value of every position outstanding, nested and *)
(* partial ones included: no order of splits, merges, transfers, reports    *)
(* and redemptions can leave a holder behind an empty pot.                  *)
Solvent == \A w \in Worlds : Owed(w) <= pot * Worth(Root, w)

(* Until some condition is resolved the books balance exactly: in every     *)
(* world the positions that win there are the collateral taken in.          *)
ExactBacking ==
    (\A c \in Conditions : den[c] = 0) => \A w \in Worlds : Owed(w) = pot

=============================================================================
