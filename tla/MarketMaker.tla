----------------------------- MODULE MarketMaker -----------------------------
(***************************************************************************)
(* One fixed-product market maker over a binary condition                  *)
(* (FixedProductMarketMaker, contracts-hardhat/contracts/                  *)
(* FixedProductMarketMakerFactory.sol) with the accounts that fund it and  *)
(* trade against it.  The conditional-token ledger is kept to what the     *)
(* market maker touches: basic YES/NO positions split from and merged into *)
(* collateral (module ConditionalTokens has the whole ledger).  A call is  *)
(* one transaction, hence one step; a require that fails is a guard.       *)
(***************************************************************************)
EXTENDS Integers, Functions

CONSTANTS Accounts,    \* funders and traders
          ONE,         \* the fixed-point unit, 10^18 in the code
          Fee,         \* the pool's fee, as a share of ONE
          Endowment,   \* collateral each account starts with
          Stakes,      \* amounts the callers pass
          Hints,       \* distribution hints of a first funding
          MaxShares,   \* bound on the share supply
          MaxWeight    \* bound on feePoolWeight, which fees only raise

ASSUME FpmmAssumption ==
    /\ ONE \in Nat \ {0}
    /\ Fee \in Nat /\ Fee < ONE
    /\ Endowment \in Nat
    /\ Stakes \subseteq Nat \ {0}
    /\ Hints \subseteq [{0, 1} -> Nat \ {0}]
    /\ MaxShares \in Nat /\ MaxWeight \in Nat

VARIABLES pool,       \* getPoolBalances(): outcome -> tokens of the pool
          held,       \* account -> outcome -> tokens
          wallet,     \* account -> collateral
          pot,        \* collateral in the conditional-token contract
          cash,       \* collateralToken.balanceOf(the market maker)
          shares,     \* ERC-20 pool shares: account -> amount
          supply,     \* totalSupply of pool shares
          feeWeight,  \* feePoolWeight
          withdrawn,  \* withdrawnFees: account -> amount
          allWithdrawn \* totalWithdrawnFees

ledger == <<pool, held, wallet, pot, cash>>
shareVars == <<shares, supply>>
feeVars == <<feeWeight, withdrawn, allWithdrawn>>
vars == <<ledger, shareVars, feeVars>>

Outcomes == {0, 1}
Other(o) == 1 - o
NoHint == [o \in Outcomes |-> 1]  \* an empty hint: equal odds

\* Mutant of ceildiv: rounds down.
floordiv(x, y) == x \div y

ceildiv(x, y) == IF x > 0 THEN ((x - 1) \div y) + 1 ELSE x \div y
Larger(f) == IF f[0] >= f[1] THEN f[0] ELSE f[1]

Init ==
    /\ pool = [o \in Outcomes |-> 0]
    /\ held = [a \in Accounts |-> [o \in Outcomes |-> 0]]
    /\ wallet = [a \in Accounts |-> Endowment]
    /\ pot = 0 /\ cash = 0
    /\ shares = [a \in Accounts |-> 0]
    /\ supply = 0
    /\ feeWeight = 0
    /\ withdrawn = [a \in Accounts |-> 0]
    /\ allWithdrawn = 0

-----------------------------------------------------------------------------
(* Pool shares (ERC20).  An allowance decides who may move an account's      *)
(* shares and nothing else: here anybody may, at any time.                   *)

MoveShares(a, b, n) ==
    /\ shares[a] >= n
    /\ shares' = [[shares EXCEPT ![a] = @ - n] EXCEPT ![b] = @ + n]
    /\ UNCHANGED supply

MintShares(a, m) ==
    /\ shares' = [shares EXCEPT ![a] = @ + m]
    /\ supply' = supply + m

BurnShares(a, s) ==
    /\ shares[a] >= s /\ supply >= s
    /\ shares' = [shares EXCEPT ![a] = @ - s]
    /\ supply' = supply - s

-----------------------------------------------------------------------------
(* Fee accounting. *)

\* feePoolWeight.mul(x) / totalSupply()
FeeShare(x) == (feeWeight * x) \div supply

\* What withdrawFees(a) pays out; SafeMath reverts on a negative result.
Withdrawable(a) == FeeShare(shares[a]) - withdrawn[a]

CanWithdraw(a) ==
    /\ supply > 0
    /\ Withdrawable(a) >= 0
    /\ cash >= Withdrawable(a)

\* Mutant of PayFees: pays the whole share again at every withdrawal.
PayRawFees(a) ==
    /\ wallet' = [wallet EXCEPT ![a] = @ + FeeShare(shares[a])]
    /\ cash' = cash - FeeShare(shares[a])

\* withdrawFees leaves withdrawnFees[a] at the raw amount in both branches.
PayFees(a) ==
    /\ wallet' = [wallet EXCEPT ![a] = @ + Withdrawable(a)]
    /\ cash' = cash - Withdrawable(a)

WithdrawFees(a) ==
    /\ CanWithdraw(a)
    /\ PayFees(a)
    /\ withdrawn' = [withdrawn EXCEPT ![a] = FeeShare(shares[a])]
    /\ allWithdrawn' = allWithdrawn + Withdrawable(a)
    /\ UNCHANGED <<pool, held, pot, shareVars, feeWeight>>

\* _beforeTokenTransfer in _transfer: the sender is paid first, then the fees
\* the moved shares have drawn move with them.
TransferShares(a, b, n) ==
    LET moved == FeeShare(n)
        paid  == [withdrawn EXCEPT ![a] = FeeShare(shares[a]) - moved]
    IN  /\ MoveShares(a, b, n)
        /\ CanWithdraw(a)
        /\ FeeShare(shares[a]) >= moved
        /\ allWithdrawn + Withdrawable(a) >= moved
        /\ PayFees(a)
        /\ withdrawn' = [paid EXCEPT ![b] = @ + moved]
        /\ allWithdrawn' = allWithdrawn + Withdrawable(a)
        /\ UNCHANGED <<pool, held, pot, feeWeight>>

-----------------------------------------------------------------------------
(* Liquidity. *)

\* Tokens of o that stay in the pool when n is added; the rest goes back.
Kept(n, hint, o) ==
    IF supply > 0 THEN (n * pool[o]) \div Larger(pool)
                  ELSE (n * hint[o]) \div Larger(hint)

MintAmount(n) == IF supply > 0 THEN (n * supply) \div Larger(pool) ELSE n

\* What _beforeTokenTransfer adds for new shares, as if they had been there
\* from the start and had withdrawn their part already.
MintFees(m) == IF supply = 0 THEN m ELSE FeeShare(m)

AddFunding(a, n, hint) ==
    LET m == MintAmount(n)
    IN  /\ wallet[a] >= n
        /\ supply > 0 => hint = NoHint /\ Larger(pool) > 0
        /\ supply = 0 => \A o \in Outcomes : Kept(n, hint, o) > 0
        /\ supply + m <= MaxShares /\ feeWeight + MintFees(m) <= MaxWeight
        /\ wallet' = [wallet EXCEPT ![a] = @ - n]
        /\ pot' = pot + n
        /\ pool' = [o \in Outcomes |-> pool[o] + Kept(n, hint, o)]
        /\ held' = [held EXCEPT ![a] =
                       [o \in Outcomes |-> @[o] + (n - Kept(n, hint, o))]]
        /\ MintShares(a, m)
        /\ feeWeight' = feeWeight + MintFees(m)
        /\ withdrawn' = [withdrawn EXCEPT ![a] = @ + MintFees(m)]
        /\ allWithdrawn' = allWithdrawn + MintFees(m)
        /\ UNCHANGED cash

\* Tokens of o that s shares are worth.
SendAmount(s, o) == (pool[o] * s) \div supply

RemoveFunding(a, s) ==
    LET burnt == FeeShare(s)
    IN  /\ BurnShares(a, s)
        /\ CanWithdraw(a)
        /\ FeeShare(shares[a]) >= burnt
        /\ allWithdrawn + Withdrawable(a) >= burnt
        /\ feeWeight >= burnt
        /\ PayFees(a)
        /\ pool' = [o \in Outcomes |-> pool[o] - SendAmount(s, o)]
        /\ held' = [held EXCEPT ![a] =
                       [o \in Outcomes |-> @[o] + SendAmount(s, o)]]
        /\ withdrawn' = [withdrawn EXCEPT ![a] = FeeShare(shares[a]) - burnt]
        /\ allWithdrawn' = allWithdrawn + Withdrawable(a) - burnt
        /\ feeWeight' = feeWeight - burnt
        /\ UNCHANGED pot

-----------------------------------------------------------------------------
(* Trading. *)

BuyFee(n) == (n * Fee) \div ONE

\* endingOutcomeBalance of calcBuyAmount, still scaled by ONE.
BuyEnding(net, o) ==
    ceildiv(pool[o] * ONE * pool[Other(o)], pool[Other(o)] + net)

Buy(a, n, o) ==
    LET net    == n - BuyFee(n)
        ending == BuyEnding(net, o)
        bought == pool[o] + net - ceildiv(ending, ONE)
    IN  /\ wallet[a] >= n
        /\ pool[Other(o)] + net > 0
        /\ ending > 0
        /\ bought >= 0
        /\ feeWeight + BuyFee(n) <= MaxWeight
        /\ wallet' = [wallet EXCEPT ![a] = @ - n]
        /\ cash' = cash + BuyFee(n)
        /\ pot' = pot + net
        /\ feeWeight' = feeWeight + BuyFee(n)
        /\ pool' = [pool EXCEPT ![o] = @ + net - bought, ![Other(o)] = @ + net]
        /\ held' = [held EXCEPT ![a][o] = @ + bought]
        /\ UNCHANGED <<shareVars, withdrawn, allWithdrawn>>

SellFee(r) == (r * Fee) \div (ONE - Fee)
SellGross(r) == (r * ONE) \div (ONE - Fee)  \* returnAmountPlusFees of the quote

SellEnding(gross, o) ==
    ceildiv(pool[o] * ONE * pool[Other(o)], pool[Other(o)] - gross)

Sell(a, r, o) ==
    LET gross  == SellGross(r)
        ending == SellEnding(gross, o)
        sold   == gross + ceildiv(ending, ONE) - pool[o]
        merged == r + SellFee(r)
    IN  /\ pool[Other(o)] > gross
        /\ ending > 0
        /\ sold >= 0
        /\ feeWeight + SellFee(r) <= MaxWeight
        /\ held[a][o] >= sold
        /\ pool[o] + sold >= merged /\ pool[Other(o)] >= merged
        /\ pot >= merged
        /\ held' = [held EXCEPT ![a][o] = @ - sold]
        /\ pool' = [pool EXCEPT ![o] = @ + sold - merged, ![Other(o)] = @ - merged]
        /\ pot' = pot - merged
        /\ feeWeight' = feeWeight + SellFee(r)
        /\ cash' = cash + SellFee(r)
        /\ wallet' = [wallet EXCEPT ![a] = @ + r]
        /\ UNCHANGED <<shareVars, withdrawn, allWithdrawn>>

-----------------------------------------------------------------------------
(* What accounts do without the market maker: split and merge complete     *)
(* sets at the conditional-token contract.  Collateral sent to the market  *)
(* maker outside these calls would only add to cash and is left out.       *)

SplitSet(a, n) ==
    /\ wallet[a] >= n
    /\ wallet' = [wallet EXCEPT ![a] = @ - n]
    /\ pot' = pot + n
    /\ held' = [held EXCEPT ![a] = [o \in Outcomes |-> @[o] + n]]
    /\ UNCHANGED <<pool, cash, shareVars, feeVars>>

MergeSet(a, n) ==
    /\ \A o \in Outcomes : held[a][o] >= n
    /\ pot >= n
    /\ wallet' = [wallet EXCEPT ![a] = @ + n]
    /\ pot' = pot - n
    /\ held' = [held EXCEPT ![a] = [o \in Outcomes |-> @[o] - n]]
    /\ UNCHANGED <<pool, cash, shareVars, feeVars>>

Trade(a) == \E n \in Stakes, o \in Outcomes : Buy(a, n, o) \/ Sell(a, n, o)

Liquidity(a) ==
    \/ \E n \in Stakes, hint \in Hints \union {NoHint} : AddFunding(a, n, hint)
    \/ \E s \in Stakes : RemoveFunding(a, s)
    \/ WithdrawFees(a)
    \/ \E b \in Accounts, s \in Stakes : TransferShares(a, b, s)

Outside(a) == \E n \in Stakes : SplitSet(a, n) \/ MergeSet(a, n)

Next == \E a \in Accounts : Trade(a) \/ Liquidity(a) \/ Outside(a)

Spec == Init /\ [][Next]_vars

-----------------------------------------------------------------------------
(* Properties. *)

TypeOK ==
    /\ pool \in [Outcomes -> Nat]
    /\ held \in [Accounts -> [Outcomes -> Nat]]
    /\ wallet \in [Accounts -> Nat]
    /\ pot \in Nat /\ cash \in Nat
    /\ shares \in [Accounts -> Nat]
    /\ supply \in Nat
    /\ feeWeight \in Nat
    /\ withdrawn \in [Accounts -> Nat]
    /\ allWithdrawn \in Nat

(* The market maker holds exactly the fees it has collected and not paid:   *)
(* the virtual weights that minting, moving and burning shares add and take *)
(* away cancel out, so collectedFees() is its collateral.                   *)
FeesBacked == cash = feeWeight - allWithdrawn

(* A trade never lowers the product of the two reserves, whichever way the  *)
(* quotes round: no sequence of buys and sells takes value out of the pool. *)
Product(p) == p[0] * p[1]
ProductKept == [][UNCHANGED supply => Product(pool') >= Product(pool)]_vars
=============================================================================
