--------------------------- MODULE IndexedReserves ---------------------------
(***************************************************************************)
(* The market maker composed with the reserves the API derives from its    *)
(* events.  Every FPMM transaction emits one event; handleFpmmEvent        *)
(* (apps/api/src/services/indexer.ts) applies it to marketState.yesReserve *)
(* and noReserve, from which every stored price and TVL comes.  Events are *)
(* taken in order and once here; module Indexer has the deliveries.        *)
(***************************************************************************)
EXTENDS MarketMaker

CONSTANT MaxDrift  \* bound on how far trades may drive the two apart

VARIABLES indexed,  \* marketState: outcome -> reserve
          owed      \* history: net investment of the buys of an outcome, less
                    \* what its sales took out with the fee

allVars == <<vars, indexed, owed>>

\* subtractWithFloor
Less(value, delta) == IF value > delta THEN value - delta ELSE 0

IndexedInit ==
    /\ Init
    /\ indexed = [o \in Outcomes |-> 0]
    /\ owed = [o \in Outcomes |-> 0]

(* The amounts of the four events, as the contract computes them. *)

\* amountsAdded: the added funds less what was sent back.
AmountAdded(n, hint, o) == n - (n - Kept(n, hint, o))
\* outcomeTokensBought: calcBuyAmount before the trade.
TokensBought(n, o) ==
    pool[o] + (n - BuyFee(n)) - ceildiv(BuyEnding(n - BuyFee(n), o), ONE)
\* outcomeTokensSold: calcSellAmount before the trade.
TokensSold(r, o) ==
    SellGross(r) + ceildiv(SellEnding(SellGross(r), o), ONE) - pool[o]

\* Mutant of FundingAdded: the indexer counts the tokens sent back too.
FundingAddedWhole(a, n, hint) ==
    /\ AddFunding(a, n, hint)
    /\ indexed' = [o \in Outcomes |-> indexed[o] + n]
    /\ UNCHANGED owed

FundingAdded(a, n, hint) ==
    /\ AddFunding(a, n, hint)
    /\ indexed' = [o \in Outcomes |-> indexed[o] + AmountAdded(n, hint, o)]
    /\ UNCHANGED owed

\* amountsRemoved are the contract's sendAmounts.
FundingRemoved(a, s) ==
    /\ RemoveFunding(a, s)
    /\ indexed' = [o \in Outcomes |-> Less(indexed[o], SendAmount(s, o))]
    /\ UNCHANGED owed

\* The bought side loses outcomeTokensBought whole; the other side gains the
\* investment net of the fee.
BuyIndexed(a, n, o) ==
    /\ Buy(a, n, o)
    /\ indexed' = [indexed EXCEPT ![o] = Less(@, TokensBought(n, o)),
                                  ![Other(o)] = @ + (n - BuyFee(n))]
    /\ owed' = [owed EXCEPT ![o] = @ + (n - BuyFee(n))]

\* The sold side gains outcomeTokensSold whole; the other side loses the
\* returned amount and the fee.
SellIndexed(a, r, o) ==
    /\ Sell(a, r, o)
    /\ indexed' = [indexed EXCEPT ![o] = @ + TokensSold(r, o),
                                  ![Other(o)] = Less(@, r + SellFee(r))]
    /\ owed' = [owed EXCEPT ![o] = @ - (r + SellFee(r))]

\* Calls whose events the indexer does not handle.
Unindexed(a) ==
    /\ \/ WithdrawFees(a)
       \/ \E b \in Accounts, s \in Stakes : TransferShares(a, b, s)
       \/ Outside(a)
    /\ UNCHANGED <<indexed, owed>>

Funded(a) ==
    \/ \E n \in Stakes, hint \in Hints \union {NoHint} : FundingAdded(a, n, hint)
    \/ \E s \in Stakes : FundingRemoved(a, s)

Traded(a) ==
    /\ \E n \in Stakes, o \in Outcomes : BuyIndexed(a, n, o) \/ SellIndexed(a, n, o)
    /\ \A o \in Outcomes : /\ indexed'[o] \in pool'[o] - MaxDrift..pool'[o] + MaxDrift
                          /\ owed'[o] \in -MaxDrift..MaxDrift

IndexedNext == \E a \in Accounts : Funded(a) \/ Traded(a) \/ Unindexed(a)

IndexedSpec == IndexedInit /\ [][IndexedNext]_allVars

-----------------------------------------------------------------------------
(* Properties. *)

\* What trades do not explain of the difference between the two.
Drift(o) == indexed[o] - pool[o] + owed[o]

(* The indexed reserve of an outcome errs by exactly what its trades put in *)
(* and took out, whatever the odds and the rounding of funding, its removal *)
(* and the trades, until a subtraction is cut at zero                       *)
(* (subtractWithFloor): what is cut there stays in it, and no later event   *)
(* takes it out again.                                                      *)
DriftStays ==
    [][\A o \in Outcomes : \/ Drift(o)' = Drift(o)
                           \/ Drift(o)' > Drift(o) /\ indexed'[o] = 0]_allVars

(* The indexed reserves are the pool's.  For a buy this is what the comment *)
(* in handleFpmmEvent says: the other side receives the collateral and the  *)
(* bought side loses the excess over the newly minted net investment.       *)
Mirrors == indexed = pool
=============================================================================
