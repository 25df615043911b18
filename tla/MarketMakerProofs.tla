--------------------------- MODULE MarketMakerProofs ---------------------------
(***************************************************************************)
(* Theorems about MarketMaker, the reserves that IndexedReserves derives   *)
(* from its events, and the pages: the orders that TradeDesk sends the     *)
(* market maker, the swaps of USDF for the collateral (Vending), the tape  *)
(* of a market's page (LivePage) and the holdings that pages show          *)
(* (Holdings), for any accounts, unit, fee, amounts and wallets.           *)
(***************************************************************************)
EXTENDS MC_Pool, MC_Pages, Sequences, WellFoundedInduction, TLAPS

-----------------------------------------------------------------------------
(* Arithmetic. *)

(* Integer division: the quotient is the largest multiple that fits. *)
LEMMA DivBounds ==
    ASSUME NEW a \in Nat, NEW b \in Nat \ {0}
    PROVE  /\ a \div b \in Nat
           /\ b * (a \div b) <= a
           /\ a < b * (a \div b) + b
OBVIOUS

(* A multiple that fits is at most the quotient. *)
LEMMA DivLargest ==
    ASSUME NEW a \in Nat, NEW b \in Nat \ {0}, NEW q \in Nat, b * q <= a
    PROVE  q <= a \div b
<1>. DEFINE d == a \div b
<1>1. d \in Nat /\ a < b * d + b
  BY DivBounds
<1>. HIDE DEF d
<1>2. SUFFICES ASSUME d < q PROVE FALSE
  BY <1>1 DEF d
<1>3. d + 1 <= q
  BY <1>1, <1>2
<1>4. b * (d + 1) <= b * q
  BY <1>1, <1>3
<1>5. b * (d + 1) = b * d + b
  BY <1>1
<1>. QED BY <1>1, <1>4, <1>5

(* A fraction of n with a numerator no larger than its denominator is at    *)
(* most n: what addFunding keeps of the added funds, what a fee takes.      *)
LEMMA FractionBound ==
    ASSUME NEW n \in Nat, NEW x \in Nat, NEW y \in Nat \ {0}, x <= y
    PROVE  (n * x) \div y \in Nat /\ (n * x) \div y <= n
<1>. DEFINE d == (n * x) \div y
<1>1. n * x \in Nat /\ n * x <= n * y
  OBVIOUS
<1>2. d \in Nat /\ y * d <= n * x
  BY <1>1, DivBounds
<1>. HIDE DEF d
<1>3. SUFFICES ASSUME n < d PROVE FALSE
  BY <1>2 DEF d
<1>4. y * (n + 1) <= y * d
  BY <1>2, <1>3
<1>5. y * (n + 1) = n * y + y
  OBVIOUS
<1>. QED BY <1>1, <1>2, <1>4, <1>5

(* CeilDiv rounds up: the result times the divisor covers the dividend. *)
LEMMA CeilDivCovers ==
    ASSUME NEW x \in Nat, NEW y \in Nat \ {0}
    PROVE  ceildiv(x, y) \in Nat /\ x <= ceildiv(x, y) * y
<1>1. CASE x = 0
  BY <1>1 DEF ceildiv
<1>2. CASE x > 0
  <2>. DEFINE q == (x - 1) \div y
  <2>1. q \in Nat /\ x - 1 < y * q + y
    BY <1>2, DivBounds
  <2>2. ceildiv(x, y) = q + 1
    BY <1>2 DEF ceildiv
  <2>. HIDE DEF q
  <2>3. (q + 1) * y = y * q + y
    BY <2>1
  <2>. QED BY <2>1, <2>2, <2>3
<1>. QED BY <1>1, <1>2

(* The quotient is the only q with b*q <= a < b*q + b. *)
LEMMA DivUnique ==
    ASSUME NEW a \in Nat, NEW b \in Nat \ {0}, NEW q \in Nat,
           b * q <= a, a < b * q + b
    PROVE  a \div b = q
<1>. DEFINE d == a \div b
<1>1. d \in Nat /\ b * d <= a /\ q <= d
  BY DivBounds, DivLargest
<1>. HIDE DEF d
<1>2. SUFFICES ASSUME q < d PROVE FALSE
  BY <1>1 DEF d
<1>3. b * (q + 1) <= b * d
  BY <1>1, <1>2
<1>4. b * (q + 1) = b * q + b
  OBVIOUS
<1>. QED BY <1>1, <1>3, <1>4

(* The amount a sell quotes with its fee is the amount it merges: two       *)
(* differently rounded divisions in calcSellAmount and sell agree.          *)
LEMMA GrossIsReturnPlusFee ==
    ASSUME NEW r \in Nat
    PROVE  SellGross(r) = r + SellFee(r) /\ SellFee(r) \in Nat
<1>. DEFINE d == ONE - Fee
            q == (r * Fee) \div d
<1>1. d \in Nat \ {0} /\ r * Fee \in Nat /\ r * ONE \in Nat
  BY FpmmAssumption
<1>2. q \in Nat /\ d * q <= r * Fee /\ r * Fee < d * q + d
  BY <1>1, DivBounds
<1>3. r * ONE = r * d + r * Fee
  BY FpmmAssumption
<1>4. q = SellFee(r) /\ SellGross(r) = (r * ONE) \div d
  BY DEF SellFee, SellGross
<1>. HIDE DEF d, q
<1>5. d * (r + q) = r * d + d * q
  BY <1>1, <1>2
<1>6. (r * ONE) \div d = r + q
  BY <1>1, <1>2, <1>3, <1>5, DivUnique
<1>. QED BY <1>2, <1>4, <1>6

(* Two roundings up in a row: the reserve a trade leaves, times the other   *)
(* reserve it leaves, is no less than the product of the old reserves.      *)
LEMMA EndingCovers ==
    ASSUME NEW p \in Nat, NEW q \in Nat, NEW y \in Nat \ {0}
    PROVE  /\ ceildiv(ceildiv(p * ONE * q, y), ONE) \in Nat
           /\ p * q <= ceildiv(ceildiv(p * ONE * q, y), ONE) * y
<1>. DEFINE e == ceildiv(p * ONE * q, y)
            c == ceildiv(e, ONE)
<1>1. ONE \in Nat \ {0} /\ p * ONE * q \in Nat
  BY FpmmAssumption
<1>2. e \in Nat /\ p * ONE * q <= e * y
  BY <1>1, CeilDivCovers
<1>3. c \in Nat /\ e <= c * ONE
  BY <1>1, <1>2, CeilDivCovers
<1>. HIDE DEF e, c
<1>4. e * y <= (c * ONE) * y
  BY <1>1, <1>2, <1>3
<1>5. (c * ONE) * y = ONE * (c * y) /\ p * ONE * q = ONE * (p * q)
  BY <1>1, <1>3
<1>6. ONE * (p * q) <= ONE * (c * y)
  BY <1>1, <1>2, <1>3, <1>4, <1>5
<1>7. p * q <= c * y
  <2>1. p * q \in Nat /\ c * y \in Nat
    BY <1>3
  <2>2. SUFFICES ASSUME c * y < p * q PROVE FALSE
    BY <2>1
  <2>3. ONE * (c * y + 1) <= ONE * (p * q)
    BY <1>1, <2>1, <2>2
  <2>4. ONE * (c * y + 1) = ONE * (c * y) + ONE
    BY <1>1, <2>1
  <2>. QED BY <1>1, <1>6, <2>1, <2>3, <2>4
<1>. QED BY <1>3, <1>7 DEF e, c

-----------------------------------------------------------------------------
(* Type correctness: no balance, share, weight or withdrawn total ever      *)
(* goes below zero.                                                         *)

LEMMA LargerIsBound ==
    ASSUME NEW f \in [Outcomes -> Nat]
    PROVE  Larger(f) \in Nat /\ \A o \in Outcomes : f[o] \in Nat /\ f[o] <= Larger(f)
BY DEF Larger, Outcomes

LEMMA FeeShareType ==
    ASSUME TypeOK, supply > 0, NEW x \in Nat
    PROVE  FeeShare(x) \in Nat
<1>1. feeWeight * x \in Nat /\ supply \in Nat \ {0}
  BY DEF TypeOK
<1>. QED BY <1>1, DivBounds DEF FeeShare

(* What withdrawFees(a) pays and records. *)
LEMMA WithdrawType ==
    ASSUME TypeOK, NEW a \in Accounts, CanWithdraw(a)
    PROVE  /\ FeeShare(shares[a]) \in Nat
           /\ Withdrawable(a) \in Nat
           /\ Withdrawable(a) = FeeShare(shares[a]) - withdrawn[a]
           /\ Withdrawable(a) <= cash
<1>1. shares[a] \in Nat /\ supply > 0 /\ withdrawn[a] \in Nat
  BY DEF TypeOK, CanWithdraw
<1>2. FeeShare(shares[a]) \in Nat
  BY <1>1, FeeShareType
<1>. QED BY <1>1, <1>2 DEF Withdrawable, CanWithdraw

LEMMA PayFeesType ==
    ASSUME TypeOK, NEW a \in Accounts, CanWithdraw(a), PayFees(a)
    PROVE  wallet' \in [Accounts -> Nat] /\ cash' \in Nat
BY WithdrawType DEF PayFees, TypeOK

LEMMA InitType == Init => TypeOK
BY FpmmAssumption DEF Init, TypeOK, Outcomes

LEMMA WithdrawFeesType ==
    ASSUME TypeOK, NEW a \in Accounts, WithdrawFees(a)
    PROVE  TypeOK'
<1>1. CanWithdraw(a) /\ PayFees(a)
  BY DEF WithdrawFees
<1>2. wallet' \in [Accounts -> Nat] /\ cash' \in Nat
  BY <1>1, PayFeesType
<1>3. withdrawn' \in [Accounts -> Nat] /\ allWithdrawn' \in Nat
  BY <1>1, WithdrawType DEF WithdrawFees, TypeOK
<1>. QED BY <1>2, <1>3 DEF WithdrawFees, TypeOK, shareVars

LEMMA TransferSharesType ==
    ASSUME TypeOK, NEW a \in Accounts, NEW b \in Accounts, NEW n \in Nat,
           TransferShares(a, b, n)
    PROVE  TypeOK'
<1>. DEFINE moved == FeeShare(n)
            paid  == [withdrawn EXCEPT ![a] = FeeShare(shares[a]) - moved]
<1>1. CanWithdraw(a) /\ PayFees(a) /\ shares[a] >= n
  BY DEF TransferShares, MoveShares
<1>2. wallet' \in [Accounts -> Nat] /\ cash' \in Nat
  BY <1>1, PayFeesType
<1>3. moved \in Nat
  BY <1>1, FeeShareType DEF CanWithdraw
<1>4. FeeShare(shares[a]) - moved \in Nat
  BY <1>1, <1>3, WithdrawType DEF TransferShares, MoveShares
<1>5. paid \in [Accounts -> Nat]
  BY <1>4 DEF TypeOK
<1>6. withdrawn' = [paid EXCEPT ![b] = @ + moved]
  BY DEF TransferShares, MoveShares
<1>. HIDE DEF paid, moved
<1>7. withdrawn' \in [Accounts -> Nat]
  BY <1>3, <1>5, <1>6
<1>8. allWithdrawn' \in Nat
  BY <1>1, WithdrawType DEF TransferShares, MoveShares, TypeOK
<1>9. shares' \in [Accounts -> Nat]
  <2>. DEFINE less == [shares EXCEPT ![a] = @ - n]
  <2>1. less \in [Accounts -> Nat]
    BY <1>1 DEF TypeOK
  <2>2. shares' = [less EXCEPT ![b] = @ + n]
    BY DEF TransferShares, MoveShares
  <2>. HIDE DEF less
  <2>. QED BY <2>1, <2>2
<1>. QED BY <1>2, <1>7, <1>8, <1>9 DEF TransferShares, MoveShares, TypeOK

(* The tokens addFunding keeps are at most the funds added. *)
LEMMA KeptBound ==
    ASSUME TypeOK, NEW n \in Nat, NEW hint \in Hints \union {NoHint},
           NEW o \in Outcomes, supply > 0 => Larger(pool) > 0
    PROVE  Kept(n, hint, o) \in Nat /\ Kept(n, hint, o) <= n
<1>1. CASE supply > 0
  <2>1. pool[o] \in Nat /\ pool[o] <= Larger(pool) /\ Larger(pool) \in Nat \ {0}
    BY <1>1, LargerIsBound DEF TypeOK
  <2>. QED BY <1>1, <2>1, FractionBound DEF Kept
<1>2. CASE ~(supply > 0)
  <2>1. hint \in [Outcomes -> Nat \ {0}]
    BY FpmmAssumption DEF Outcomes, NoHint
  <2>2. hint[o] \in Nat /\ hint[o] <= Larger(hint) /\ Larger(hint) \in Nat \ {0}
    BY <2>1 DEF Larger, Outcomes
  <2>. QED BY <1>2, <2>2, FractionBound DEF Kept
<1>. QED BY <1>1, <1>2

LEMMA MintType ==
    ASSUME TypeOK, NEW n \in Nat, supply > 0 => Larger(pool) > 0
    PROVE  MintAmount(n) \in Nat /\ MintFees(MintAmount(n)) \in Nat
<1>1. MintAmount(n) \in Nat
  <2>1. CASE supply > 0
    <3>1. n * supply \in Nat /\ Larger(pool) \in Nat \ {0}
      BY <2>1, LargerIsBound DEF TypeOK
    <3>. QED BY <2>1, <3>1, DivBounds DEF MintAmount
  <2>. QED BY <2>1 DEF MintAmount
<1>2. CASE supply = 0
  BY <1>1, <1>2 DEF MintFees
<1>3. CASE supply > 0
  <2>1. FeeShare(MintAmount(n)) \in Nat
    BY <1>1, <1>3, FeeShareType
  <2>. QED BY <1>1, <1>3, <2>1 DEF MintFees
<1>. QED BY <1>2, <1>3 DEF TypeOK

LEMMA AddFundingType ==
    ASSUME TypeOK, NEW a \in Accounts, NEW n \in Nat,
           NEW hint \in Hints \union {NoHint}, AddFunding(a, n, hint)
    PROVE  TypeOK'
<1>. DEFINE m == MintAmount(n)
            back == [o \in Outcomes |-> held[a][o] + (n - Kept(n, hint, o))]
<1>1. supply > 0 => Larger(pool) > 0
  BY DEF AddFunding, MintShares
<1>2. m \in Nat /\ MintFees(m) \in Nat
  BY <1>1, MintType
<1>3. \A o \in Outcomes : Kept(n, hint, o) \in Nat /\ Kept(n, hint, o) <= n
  BY <1>1, KeptBound
<1>4. pool' \in [Outcomes -> Nat]
  BY <1>3 DEF AddFunding, MintShares, TypeOK
<1>5. back \in [Outcomes -> Nat]
  BY <1>3 DEF TypeOK
<1>6. held' = [held EXCEPT ![a] = back]
  BY DEF AddFunding, MintShares
<1>. HIDE DEF back
<1>7. held' \in [Accounts -> [Outcomes -> Nat]]
  BY <1>5, <1>6 DEF TypeOK
<1>8. wallet' \in [Accounts -> Nat] /\ pot' \in Nat /\ cash' \in Nat
  BY DEF AddFunding, MintShares, TypeOK
<1>9. /\ shares' \in [Accounts -> Nat] /\ supply' \in Nat /\ feeWeight' \in Nat
      /\ withdrawn' \in [Accounts -> Nat] /\ allWithdrawn' \in Nat
  BY <1>2 DEF AddFunding, MintShares, TypeOK
<1>. QED BY <1>4, <1>7, <1>8, <1>9 DEF TypeOK

LEMMA RemoveFundingType ==
    ASSUME TypeOK, NEW a \in Accounts, NEW s \in Nat, RemoveFunding(a, s)
    PROVE  TypeOK'
<1>. DEFINE more == [o \in Outcomes |-> held[a][o] + SendAmount(s, o)]
<1>1. CanWithdraw(a) /\ PayFees(a) /\ shares[a] >= s /\ supply >= s
  BY DEF RemoveFunding, BurnShares
<1>2. supply \in Nat \ {0}
  BY <1>1 DEF CanWithdraw, TypeOK
<1>3. \A o \in Outcomes : SendAmount(s, o) \in Nat /\ SendAmount(s, o) <= pool[o]
  <2>1. TAKE o \in Outcomes
  <2>2. pool[o] \in Nat
    BY DEF TypeOK
  <2>. QED BY <1>1, <1>2, <2>2, FractionBound DEF SendAmount
<1>4. pool' \in [Outcomes -> Nat]
  BY <1>3 DEF RemoveFunding, BurnShares, TypeOK
<1>5. more \in [Outcomes -> Nat]
  BY <1>3 DEF TypeOK
<1>6. held' = [held EXCEPT ![a] = more]
  BY DEF RemoveFunding, BurnShares
<1>. HIDE DEF more
<1>7. held' \in [Accounts -> [Outcomes -> Nat]]
  BY <1>5, <1>6 DEF TypeOK
<1>8. wallet' \in [Accounts -> Nat] /\ cash' \in Nat
  BY <1>1, PayFeesType
<1>9. FeeShare(s) \in Nat
  BY <1>1, FeeShareType DEF CanWithdraw
<1>10. FeeShare(shares[a]) - FeeShare(s) \in Nat
  BY <1>1, <1>9, WithdrawType DEF RemoveFunding, BurnShares
<1>11. /\ withdrawn' \in [Accounts -> Nat] /\ allWithdrawn' \in Nat
       /\ feeWeight' \in Nat
  BY <1>1, <1>9, <1>10, WithdrawType DEF RemoveFunding, BurnShares, TypeOK
<1>12. shares' \in [Accounts -> Nat] /\ supply' \in Nat
  BY <1>1, <1>2 DEF RemoveFunding, BurnShares, TypeOK
<1>. QED BY <1>4, <1>7, <1>8, <1>11, <1>12 DEF RemoveFunding, BurnShares, TypeOK

(* A buy's fee is at most the investment. *)
LEMMA BuyFeeBound ==
    ASSUME NEW n \in Nat
    PROVE  BuyFee(n) \in Nat /\ BuyFee(n) <= n
BY FpmmAssumption, FractionBound DEF BuyFee

(* The bought side ends at the twice rounded quotient, the other side gains *)
(* the net investment.                                                      *)
LEMMA BuyPool ==
    ASSUME TypeOK, NEW a \in Accounts, NEW n \in Nat, NEW o \in Outcomes,
           Buy(a, n, o)
    PROVE  /\ pool' \in [Outcomes -> Nat]
           /\ pool'[o] = ceildiv(BuyEnding(n - BuyFee(n), o), ONE)
           /\ pool'[Other(o)] = pool[Other(o)] + (n - BuyFee(n))
<1>. DEFINE net == n - BuyFee(n)
            c   == ceildiv(BuyEnding(net, o), ONE)
            bought == pool[o] + net - c
<1>1. net \in Nat
  BY BuyFeeBound
<1>2. Other(o) \in Outcomes /\ Other(o) # o
  BY DEF Other, Outcomes
<1>3. pool[o] \in Nat /\ pool[Other(o)] \in Nat
  BY <1>2 DEF TypeOK
<1>4. pool[Other(o)] + net \in Nat \ {0}
  BY <1>1, <1>3 DEF Buy
<1>5. c \in Nat
  BY <1>3, <1>4, EndingCovers DEF BuyEnding
<1>6. pool' = [pool EXCEPT ![o] = @ + net - bought, ![Other(o)] = @ + net]
  BY DEF Buy
<1>7. pool[o] + net - bought = c
  BY <1>1, <1>3, <1>5
<1>. HIDE DEF c, net, bought
<1>8. /\ pool' \in [Outcomes -> Nat]
      /\ pool'[o] = c
      /\ pool'[Other(o)] = pool[Other(o)] + net
  BY <1>1, <1>2, <1>3, <1>5, <1>6, <1>7 DEF TypeOK
<1>. QED BY <1>8 DEF c, net

LEMMA BuyType ==
    ASSUME TypeOK, NEW a \in Accounts, NEW n \in Nat, NEW o \in Outcomes,
           Buy(a, n, o)
    PROVE  TypeOK'
<1>. DEFINE net == n - BuyFee(n)
            bought == pool[o] + net - ceildiv(BuyEnding(net, o), ONE)
<1>1. net \in Nat /\ BuyFee(n) \in Nat
  BY BuyFeeBound
<1>2. pool' \in [Outcomes -> Nat]
  BY BuyPool
<1>3. bought \in Nat
  <2>1. pool'[o] \in Nat /\ pool'[o] = ceildiv(BuyEnding(net, o), ONE)
    BY BuyPool
  <2>2. pool[o] \in Nat
    BY DEF TypeOK
  <2>. QED BY <1>1, <2>1, <2>2 DEF Buy
<1>4. held' = [held EXCEPT ![a][o] = @ + bought]
  BY DEF Buy
<1>5. /\ wallet' \in [Accounts -> Nat] /\ cash' \in Nat /\ pot' \in Nat
      /\ feeWeight' \in Nat
  BY <1>1 DEF Buy, TypeOK
<1>. HIDE DEF bought, net
<1>6. held' \in [Accounts -> [Outcomes -> Nat]]
  BY <1>3, <1>4 DEF TypeOK
<1>. QED BY <1>2, <1>5, <1>6 DEF Buy, TypeOK, shareVars

(* A sell leaves the same form of reserves, with the gross return gone from *)
(* the other side: the tokens merged are the tokens quoted.                 *)
LEMMA SellPool ==
    ASSUME TypeOK, NEW a \in Accounts, NEW r \in Nat, NEW o \in Outcomes,
           Sell(a, r, o)
    PROVE  /\ pool' \in [Outcomes -> Nat]
           /\ SellGross(r) \in Nat
           /\ pool'[o] = ceildiv(SellEnding(SellGross(r), o), ONE)
           /\ pool'[Other(o)] = pool[Other(o)] - SellGross(r)
           /\ pool[Other(o)] - SellGross(r) \in Nat \ {0}
<1>. DEFINE gross == SellGross(r)
            c == ceildiv(SellEnding(gross, o), ONE)
            sold == gross + c - pool[o]
<1>1. gross = r + SellFee(r) /\ SellFee(r) \in Nat /\ gross \in Nat
  BY GrossIsReturnPlusFee
<1>2. Other(o) \in Outcomes /\ Other(o) # o
  BY DEF Other, Outcomes
<1>3. pool[o] \in Nat /\ pool[Other(o)] \in Nat
  BY <1>2 DEF TypeOK
<1>4. pool[Other(o)] - gross \in Nat \ {0}
  BY <1>1, <1>3 DEF Sell
<1>5. c \in Nat
  BY <1>3, <1>4, EndingCovers DEF SellEnding
<1>6. pool' = [pool EXCEPT ![o] = @ + sold - gross, ![Other(o)] = @ - gross]
  BY <1>1 DEF Sell
<1>7. pool[o] + sold - gross = c
  BY <1>1, <1>3, <1>5
<1>. HIDE DEF c, gross, sold
<1>8. /\ pool' \in [Outcomes -> Nat]
      /\ pool'[o] = c
      /\ pool'[Other(o)] = pool[Other(o)] - gross
  BY <1>2, <1>3, <1>4, <1>5, <1>6, <1>7 DEF TypeOK
<1>. QED BY <1>1, <1>4, <1>8 DEF c, gross

LEMMA SellType ==
    ASSUME TypeOK, NEW a \in Accounts, NEW r \in Nat, NEW o \in Outcomes,
           Sell(a, r, o)
    PROVE  TypeOK'
<1>. DEFINE gross == SellGross(r)
            sold == gross + ceildiv(SellEnding(gross, o), ONE) - pool[o]
<1>1. gross = r + SellFee(r) /\ SellFee(r) \in Nat /\ gross \in Nat
  BY GrossIsReturnPlusFee
<1>2. pool' \in [Outcomes -> Nat]
  BY SellPool
<1>3. sold \in Nat
  <2>1. pool'[o] \in Nat /\ pool'[o] = ceildiv(SellEnding(gross, o), ONE)
    BY SellPool
  <2>2. pool[o] \in Nat
    BY DEF TypeOK
  <2>. QED BY <1>1, <2>1, <2>2 DEF Sell
<1>4. held' = [held EXCEPT ![a][o] = @ - sold] /\ held[a][o] >= sold
  BY DEF Sell
<1>5. /\ wallet' \in [Accounts -> Nat] /\ cash' \in Nat /\ pot' \in Nat
      /\ feeWeight' \in Nat
  BY <1>1 DEF Sell, TypeOK
<1>. HIDE DEF sold, gross
<1>6. held' \in [Accounts -> [Outcomes -> Nat]]
  <2>1. held[a] \in [Outcomes -> Nat]
    BY DEF TypeOK
  <2>2. held[a][o] - sold \in Nat
    BY <1>3, <1>4, <2>1
  <2>. QED BY <1>4, <2>1, <2>2 DEF TypeOK
<1>. QED BY <1>2, <1>5, <1>6 DEF Sell, TypeOK, shareVars

LEMMA SetsType ==
    ASSUME TypeOK, NEW a \in Accounts, NEW n \in Nat,
           SplitSet(a, n) \/ MergeSet(a, n)
    PROVE  TypeOK'
<1>1. CASE SplitSet(a, n)
  BY <1>1 DEF SplitSet, TypeOK, shareVars, feeVars
<1>2. CASE MergeSet(a, n)
  BY <1>2 DEF MergeSet, TypeOK, shareVars, feeVars
<1>. QED BY <1>1, <1>2

(* TypeOK is inductive on its own: every subtraction in the code is behind  *)
(* a SafeMath or balance check, or bounded by the arithmetic above.         *)
LEMMA TypeInductive == TypeOK /\ [Next]_vars => TypeOK'
<1>. SUFFICES ASSUME TypeOK, [Next]_vars PROVE TypeOK'
  OBVIOUS
<1>1. Stakes \subseteq Nat
  BY FpmmAssumption
<1>2. CASE UNCHANGED vars
  BY <1>2 DEF TypeOK, vars, ledger, shareVars, feeVars
<1>3. ASSUME NEW a \in Accounts, Trade(a) PROVE TypeOK'
  BY <1>1, <1>3, BuyType, SellType DEF Trade
<1>4. ASSUME NEW a \in Accounts, Liquidity(a) PROVE TypeOK'
  BY <1>1, <1>4, AddFundingType, RemoveFundingType, WithdrawFeesType,
     TransferSharesType DEF Liquidity
<1>5. ASSUME NEW a \in Accounts, Outside(a) PROVE TypeOK'
  BY <1>1, <1>5, SetsType DEF Outside
<1>. QED BY <1>2, <1>3, <1>4, <1>5 DEF Next

(* No balance, share, weight or withdrawn total of the market maker goes    *)
(* below zero, for any fee, unit and amounts.                               *)
THEOREM TypeCorrect == Spec => []TypeOK
BY InitType, TypeInductive, PTL DEF Spec

-----------------------------------------------------------------------------
(* Fees. *)

LEMMA FeesInductive == TypeOK /\ FeesBacked /\ [Next]_vars => FeesBacked'
<1>. SUFFICES ASSUME TypeOK, FeesBacked, [Next]_vars PROVE FeesBacked'
  OBVIOUS
<1>1. CASE UNCHANGED vars
  BY <1>1 DEF FeesBacked, vars, ledger, feeVars
<1>2. ASSUME NEW a \in Accounts, NEW n \in Stakes, NEW o \in Outcomes, Buy(a, n, o)
      PROVE  FeesBacked'
  BY <1>2, BuyFeeBound, FpmmAssumption DEF Buy, FeesBacked, TypeOK
<1>3. ASSUME NEW a \in Accounts, NEW r \in Stakes, NEW o \in Outcomes, Sell(a, r, o)
      PROVE  FeesBacked'
  BY <1>3, GrossIsReturnPlusFee, FpmmAssumption DEF Sell, FeesBacked, TypeOK
<1>4. ASSUME NEW a \in Accounts, NEW n \in Stakes,
             NEW hint \in Hints \union {NoHint}, AddFunding(a, n, hint)
      PROVE  FeesBacked'
  <2>1. MintFees(MintAmount(n)) \in Nat
    BY <1>4, MintType, FpmmAssumption DEF AddFunding, MintShares
  <2>. QED BY <1>4, <2>1 DEF AddFunding, MintShares, FeesBacked, TypeOK
<1>5. ASSUME NEW a \in Accounts, NEW s \in Stakes, RemoveFunding(a, s)
      PROVE  FeesBacked'
  <2>1. FeeShare(s) \in Nat
    BY <1>5, FeeShareType, FpmmAssumption DEF RemoveFunding, BurnShares, CanWithdraw
  <2>2. Withdrawable(a) \in Nat
    BY <1>5, WithdrawType DEF RemoveFunding, BurnShares
  <2>. QED BY <1>5, <2>1, <2>2 DEF RemoveFunding, BurnShares, PayFees, FeesBacked, TypeOK
<1>6. ASSUME NEW a \in Accounts, WithdrawFees(a) PROVE FeesBacked'
  <2>1. Withdrawable(a) \in Nat
    BY <1>6, WithdrawType DEF WithdrawFees
  <2>. QED BY <1>6, <2>1 DEF WithdrawFees, PayFees, FeesBacked, TypeOK
<1>7. ASSUME NEW a \in Accounts, NEW b \in Accounts, NEW s \in Stakes,
             TransferShares(a, b, s)
      PROVE  FeesBacked'
  <2>1. Withdrawable(a) \in Nat
    BY <1>7, WithdrawType DEF TransferShares, MoveShares
  <2>. QED BY <1>7, <2>1 DEF TransferShares, MoveShares, PayFees, FeesBacked, TypeOK
<1>8. ASSUME NEW a \in Accounts, Outside(a) PROVE FeesBacked'
  BY <1>8 DEF Outside, SplitSet, MergeSet, FeesBacked, feeVars
<1>. QED BY <1>1, <1>2, <1>3, <1>4, <1>5, <1>6, <1>7, <1>8
         DEF Next, Trade, Liquidity

(* The market maker's collateral is exactly the fees collected and not yet  *)
(* paid, for any accounts, fee, unit and amounts.                           *)
THEOREM FeesAlwaysBacked == Spec => []FeesBacked
<1>1. Init => FeesBacked
  BY DEF Init, FeesBacked
<1>. QED BY <1>1, FeesInductive, TypeCorrect, PTL DEF Spec

-----------------------------------------------------------------------------
(* Reserves. *)

LEMMA ProductStep ==
    TypeOK /\ [Next]_vars => (UNCHANGED supply => Product(pool') >= Product(pool))
<1>. SUFFICES ASSUME TypeOK, [Next]_vars, supply' = supply
              PROVE  Product(pool') >= Product(pool)
  OBVIOUS
<1>0. TypeOK' /\ Stakes \subseteq Nat \ {0}
  BY TypeInductive, FpmmAssumption
<1>1. pool[0] \in Nat /\ pool[1] \in Nat /\ pool'[0] \in Nat /\ pool'[1] \in Nat
  BY <1>0 DEF TypeOK, Outcomes
<1>2. CASE pool' = pool
  <2>1. Product(pool) \in Nat
    BY <1>1 DEF Product
  <2>. QED BY <1>2, <2>1
<1>3. ASSUME NEW a \in Accounts, NEW n \in Stakes, NEW o \in Outcomes, Buy(a, n, o)
      PROVE  Product(pool') >= Product(pool)
  <2>. DEFINE net == n - BuyFee(n)
              y == pool[Other(o)] + net
  <2>1. net \in Nat
    BY <1>0, BuyFeeBound
  <2>2. y \in Nat \ {0}
    BY <1>1, <1>3, <2>1 DEF Buy, Other, Outcomes
  <2>3. pool'[o] = ceildiv(BuyEnding(net, o), ONE) /\ pool'[Other(o)] = y
    BY <1>0, <1>3, BuyPool
  <2>4. pool[o] * pool[Other(o)] <= ceildiv(BuyEnding(net, o), ONE) * y
    <3>1. pool[o] \in Nat /\ pool[Other(o)] \in Nat
      BY <1>1 DEF Other, Outcomes
    <3>. QED BY <2>2, <3>1, EndingCovers DEF BuyEnding
  <2>. HIDE DEF net, y
  <2>5. pool[o] * pool[Other(o)] <= pool'[o] * pool'[Other(o)]
    BY <2>3, <2>4
  <2>. QED BY <1>1, <2>5 DEF Product, Other, Outcomes
<1>4. ASSUME NEW a \in Accounts, NEW r \in Stakes, NEW o \in Outcomes, Sell(a, r, o)
      PROVE  Product(pool') >= Product(pool)
  <2>. DEFINE gross == SellGross(r)
              y == pool[Other(o)] - gross
  <2>1. y \in Nat \ {0}
    BY <1>0, <1>4, SellPool
  <2>2. pool'[o] = ceildiv(SellEnding(gross, o), ONE) /\ pool'[Other(o)] = y
    BY <1>0, <1>4, SellPool
  <2>3. pool[o] * pool[Other(o)] <= ceildiv(SellEnding(gross, o), ONE) * y
    <3>1. pool[o] \in Nat /\ pool[Other(o)] \in Nat
      BY <1>1 DEF Other, Outcomes
    <3>. QED BY <2>1, <3>1, EndingCovers DEF SellEnding
  <2>. HIDE DEF gross, y
  <2>4. pool[o] * pool[Other(o)] <= pool'[o] * pool'[Other(o)]
    BY <2>2, <2>3
  <2>. QED BY <1>1, <2>4 DEF Product, Other, Outcomes
<1>5. ASSUME NEW a \in Accounts, NEW n \in Stakes,
             NEW hint \in Hints \union {NoHint}, AddFunding(a, n, hint)
      PROVE  Product(pool') >= Product(pool)
  <2>1. \A o \in Outcomes : Kept(n, hint, o) \in Nat
    BY <1>0, <1>5, KeptBound DEF AddFunding, MintShares
  <2>2. pool'[0] >= pool[0] /\ pool'[1] >= pool[1]
    BY <1>1, <1>5, <2>1 DEF AddFunding, MintShares, Outcomes
  <2>3. pool'[0] * pool'[1] >= pool[0] * pool'[1]
    BY <1>1, <2>2
  <2>4. pool[0] * pool'[1] >= pool[0] * pool[1]
    BY <1>1, <2>2
  <2>. QED BY <1>1, <2>3, <2>4 DEF Product
<1>6. ASSUME NEW a \in Accounts, NEW s \in Stakes, RemoveFunding(a, s)
      PROVE  FALSE
  BY <1>0, <1>6 DEF RemoveFunding, BurnShares, TypeOK
<1>7. ASSUME NEW a \in Accounts, WithdrawFees(a) PROVE pool' = pool
  BY <1>7 DEF WithdrawFees
<1>8. ASSUME NEW a \in Accounts, NEW b \in Accounts, NEW s \in Stakes,
             TransferShares(a, b, s)
      PROVE  pool' = pool
  BY <1>8 DEF TransferShares, MoveShares
<1>9. ASSUME NEW a \in Accounts, Outside(a) PROVE pool' = pool
  BY <1>9 DEF Outside, SplitSet, MergeSet
<1>10. CASE UNCHANGED vars
  BY <1>2, <1>10 DEF vars, ledger
<1>. QED BY <1>2, <1>3, <1>4, <1>5, <1>6, <1>7, <1>8, <1>9, <1>10
         DEF Next, Trade, Liquidity

(* No sequence of trades lowers the product of the reserves, whatever the   *)
(* fee, the unit and the amounts: every rounding is in the pool's favour.   *)
THEOREM ProductNeverFalls == Spec => ProductKept
BY ProductStep, TypeCorrect, PTL DEF Spec, ProductKept
-----------------------------------------------------------------------------
(* The reserves an index derives. *)

LEMMA IndexedIsNext == [IndexedNext]_allVars => [Next]_vars
<1>1. ASSUME NEW a \in Accounts, Funded(a) PROVE Next
  BY <1>1 DEF Funded, FundingAdded, FundingRemoved, Next, Liquidity
<1>2. ASSUME NEW a \in Accounts, Traded(a) PROVE Next
  BY <1>2 DEF Traded, BuyIndexed, SellIndexed, Next, Trade
<1>3. ASSUME NEW a \in Accounts, Unindexed(a) PROVE Next
  BY <1>3 DEF Unindexed, Next, Liquidity
<1>. QED BY <1>1, <1>2, <1>3 DEF IndexedNext, allVars

(* What a subtraction leaves is the difference, or zero when that is more. *)
LEMMA LessCuts ==
    ASSUME NEW v \in Nat, NEW d \in Nat
    PROVE  /\ Less(v, d) \in Nat
           /\ Less(v, d) = v - d \/ (Less(v, d) > v - d /\ Less(v, d) = 0)
BY DEF Less

BooksType == indexed \in [Outcomes -> Nat] /\ owed \in [Outcomes -> Int]

\* What DriftStays says of one step.
DriftKept(o) ==
    \/ Drift(o)' = Drift(o)
    \/ Drift(o)' > Drift(o) /\ indexed'[o] = 0

LEMMA AddedDrift ==
    ASSUME TypeOK, BooksType, NEW a \in Accounts, NEW n \in Stakes,
           NEW hint \in Hints \union {NoHint}, FundingAdded(a, n, hint)
    PROVE  BooksType' /\ \A o \in Outcomes : DriftKept(o)
<1>1. n \in Nat /\ \A o \in Outcomes : pool[o] \in Nat
  BY FpmmAssumption DEF TypeOK
<1>2. AddFunding(a, n, hint) /\ owed' = owed
      /\ indexed' = [o \in Outcomes |-> indexed[o] + AmountAdded(n, hint, o)]
  BY DEF FundingAdded
<1>3. \A o \in Outcomes : Kept(n, hint, o) \in Nat /\ pool'[o] = pool[o] + Kept(n, hint, o)
  <2>1. supply > 0 => Larger(pool) > 0
    BY <1>2 DEF AddFunding
  <2>2. pool' = [o \in Outcomes |-> pool[o] + Kept(n, hint, o)]
    BY <1>2 DEF AddFunding
  <2>. QED BY <1>1, <2>1, <2>2, KeptBound
<1>4. \A o \in Outcomes : indexed[o] \in Nat /\ indexed'[o] = indexed[o] + Kept(n, hint, o)
  BY <1>1, <1>2, <1>3 DEF AmountAdded, BooksType
<1>5. indexed' = [o \in Outcomes |-> indexed'[o]] /\ \A o \in Outcomes : indexed'[o] \in Nat
  BY <1>2, <1>3, <1>4
<1>6. BooksType'
  BY <1>2, <1>5 DEF BooksType
<1>7. \A o \in Outcomes : DriftKept(o)
  BY <1>1, <1>2, <1>3, <1>4 DEF DriftKept, Drift, BooksType
<1>. QED BY <1>6, <1>7

LEMMA RemovedDrift ==
    ASSUME TypeOK, BooksType, NEW a \in Accounts, NEW s \in Stakes, FundingRemoved(a, s)
    PROVE  BooksType' /\ \A o \in Outcomes : DriftKept(o)
<1>1. s \in Nat \ {0} /\ \A o \in Outcomes : pool[o] \in Nat /\ indexed[o] \in Nat
  BY FpmmAssumption DEF TypeOK, BooksType
<1>2. RemoveFunding(a, s) /\ owed' = owed
      /\ indexed' = [o \in Outcomes |-> Less(indexed[o], SendAmount(s, o))]
  BY DEF FundingRemoved
<1>3. \A o \in Outcomes : SendAmount(s, o) \in Nat /\ pool'[o] = pool[o] - SendAmount(s, o)
  <2>1. supply \in Nat \ {0}
    BY <1>1, <1>2 DEF RemoveFunding, BurnShares, TypeOK
  <2>2. \A o \in Outcomes : pool[o] * s \in Nat
    BY <1>1
  <2>3. \A o \in Outcomes : SendAmount(s, o) \in Nat
    BY <2>1, <2>2, DivBounds DEF SendAmount
  <2>. QED BY <1>2, <2>3 DEF RemoveFunding
<1>4. \A o \in Outcomes :
        /\ indexed'[o] \in Nat
        /\ \/ indexed'[o] = indexed[o] - SendAmount(s, o)
           \/ indexed'[o] > indexed[o] - SendAmount(s, o) /\ indexed'[o] = 0
  BY <1>1, <1>2, <1>3, LessCuts
<1>5. BooksType'
  BY <1>2, <1>4 DEF BooksType
<1>6. \A o \in Outcomes : DriftKept(o)
  BY <1>1, <1>2, <1>3, <1>4 DEF DriftKept, Drift, BooksType
<1>. QED BY <1>5, <1>6

LEMMA BoughtDrift ==
    ASSUME TypeOK, BooksType, NEW a \in Accounts, NEW n \in Stakes, NEW o \in Outcomes,
           BuyIndexed(a, n, o)
    PROVE  BooksType' /\ \A p \in Outcomes : DriftKept(p)
<1>. DEFINE net == n - BuyFee(n)
<1>1. n \in Nat /\ net \in Nat
  BY FpmmAssumption, BuyFeeBound
<1>2. Buy(a, n, o)
  BY DEF BuyIndexed
<1>3. /\ pool'[o] = pool[o] + net - TokensBought(n, o)
      /\ pool'[Other(o)] = pool[Other(o)] + net
      /\ TokensBought(n, o) \in Nat
  <2>1. pool' \in [Outcomes -> Nat] /\ pool'[o] = ceildiv(BuyEnding(net, o), ONE)
        /\ pool'[Other(o)] = pool[Other(o)] + net
    BY <1>1, <1>2, BuyPool
  <2>2. TokensBought(n, o) = pool[o] + net - pool'[o]
    BY <2>1 DEF TokensBought
  <2>3. TokensBought(n, o) >= 0
    BY <1>2 DEF Buy, TokensBought
  <2>4. pool[o] \in Nat /\ pool'[o] \in Nat
    BY <2>1 DEF TypeOK
  <2>. QED BY <1>1, <2>1, <2>2, <2>3, <2>4
<1>4. /\ indexed' = [indexed EXCEPT ![o] = Less(@, TokensBought(n, o)), ![Other(o)] = @ + net]
      /\ owed' = [owed EXCEPT ![o] = @ + net]
  BY DEF BuyIndexed
<1>. HIDE DEF net
<1>5. /\ Other(o) \in Outcomes /\ Other(o) # o
      /\ \A p \in Outcomes : p = o \/ p = Other(o)
      /\ \A p \in Outcomes : pool[p] \in Nat /\ indexed[p] \in Nat /\ owed[p] \in Int
  BY DEF TypeOK, BooksType, Other, Outcomes
<1>6. /\ indexed'[o] = Less(indexed[o], TokensBought(n, o))
      /\ indexed'[Other(o)] = indexed[Other(o)] + net
      /\ owed'[o] = owed[o] + net /\ owed'[Other(o)] = owed[Other(o)]
  BY <1>4, <1>5 DEF BooksType
<1>7. /\ indexed'[o] \in Nat
      /\ \/ indexed'[o] = indexed[o] - TokensBought(n, o)
         \/ indexed'[o] > indexed[o] - TokensBought(n, o) /\ indexed'[o] = 0
  BY <1>3, <1>5, <1>6, LessCuts
<1>8. BooksType'
  <2>1. indexed'[o] \in Nat /\ indexed'[Other(o)] \in Nat
    BY <1>1, <1>5, <1>6, <1>7
  <2>2. owed'[o] \in Int /\ owed'[Other(o)] \in Int
    BY <1>1, <1>5, <1>6
  <2>. QED BY <1>4, <1>5, <2>1, <2>2 DEF BooksType
<1>9. DriftKept(o)
  BY <1>1, <1>3, <1>5, <1>6, <1>7 DEF DriftKept, Drift
<1>10. DriftKept(Other(o))
  BY <1>1, <1>3, <1>5, <1>6 DEF DriftKept, Drift
<1>. QED BY <1>5, <1>8, <1>9, <1>10

LEMMA SoldDrift ==
    ASSUME TypeOK, BooksType, NEW a \in Accounts, NEW r \in Stakes, NEW o \in Outcomes,
           SellIndexed(a, r, o)
    PROVE  BooksType' /\ \A p \in Outcomes : DriftKept(p)
<1>. DEFINE merged == r + SellFee(r)
<1>1. r \in Nat /\ merged \in Nat /\ SellGross(r) = merged
  BY FpmmAssumption, GrossIsReturnPlusFee
<1>2. Sell(a, r, o)
  BY DEF SellIndexed
<1>3. /\ pool'[o] = pool[o] + TokensSold(r, o) - merged
      /\ pool'[Other(o)] = pool[Other(o)] - merged
      /\ TokensSold(r, o) \in Nat
  <2>1. pool' \in [Outcomes -> Nat] /\ pool'[o] = ceildiv(SellEnding(SellGross(r), o), ONE)
        /\ pool'[Other(o)] = pool[Other(o)] - SellGross(r)
    BY <1>1, <1>2, SellPool
  <2>2. TokensSold(r, o) = SellGross(r) + pool'[o] - pool[o]
    BY <2>1 DEF TokensSold
  <2>3. TokensSold(r, o) >= 0
    BY <1>2 DEF Sell, TokensSold
  <2>4. pool[o] \in Nat /\ pool'[o] \in Nat
    BY <2>1 DEF TypeOK
  <2>. QED BY <1>1, <2>1, <2>2, <2>3, <2>4
<1>4. /\ indexed' = [indexed EXCEPT ![o] = @ + TokensSold(r, o), ![Other(o)] = Less(@, merged)]
      /\ owed' = [owed EXCEPT ![o] = @ - merged]
  BY DEF SellIndexed
<1>. HIDE DEF merged
<1>5. /\ Other(o) \in Outcomes /\ Other(o) # o
      /\ \A p \in Outcomes : p = o \/ p = Other(o)
      /\ \A p \in Outcomes : pool[p] \in Nat /\ indexed[p] \in Nat /\ owed[p] \in Int
  BY DEF TypeOK, BooksType, Other, Outcomes
<1>6. /\ indexed'[o] = indexed[o] + TokensSold(r, o)
      /\ indexed'[Other(o)] = Less(indexed[Other(o)], merged)
      /\ owed'[o] = owed[o] - merged /\ owed'[Other(o)] = owed[Other(o)]
  BY <1>4, <1>5 DEF BooksType
<1>7. /\ indexed'[Other(o)] \in Nat
      /\ \/ indexed'[Other(o)] = indexed[Other(o)] - merged
         \/ indexed'[Other(o)] > indexed[Other(o)] - merged /\ indexed'[Other(o)] = 0
  BY <1>1, <1>5, <1>6, LessCuts
<1>8. BooksType'
  <2>1. indexed'[o] \in Nat /\ indexed'[Other(o)] \in Nat
    BY <1>3, <1>5, <1>6, <1>7
  <2>2. owed'[o] \in Int /\ owed'[Other(o)] \in Int
    BY <1>1, <1>5, <1>6
  <2>. QED BY <1>4, <1>5, <2>1, <2>2 DEF BooksType
<1>9. DriftKept(o)
  BY <1>1, <1>3, <1>5, <1>6 DEF DriftKept, Drift
<1>10. DriftKept(Other(o))
  BY <1>1, <1>3, <1>5, <1>6, <1>7 DEF DriftKept, Drift
<1>. QED BY <1>5, <1>8, <1>9, <1>10

LEMMA DriftStep ==
    ASSUME TypeOK, BooksType, [IndexedNext]_allVars
    PROVE  BooksType' /\ \A o \in Outcomes : DriftKept(o)
<1>1. ASSUME NEW a \in Accounts, Funded(a)
      PROVE  BooksType' /\ \A o \in Outcomes : DriftKept(o)
  BY <1>1, AddedDrift, RemovedDrift DEF Funded
<1>2. ASSUME NEW a \in Accounts, Traded(a)
      PROVE  BooksType' /\ \A o \in Outcomes : DriftKept(o)
  BY <1>2, BoughtDrift, SoldDrift DEF Traded
<1>3. ASSUME UNCHANGED <<pool, indexed, owed>>
      PROVE  BooksType' /\ \A o \in Outcomes : DriftKept(o)
  BY <1>3 DEF BooksType, DriftKept, Drift
<1>4. ASSUME NEW a \in Accounts, Unindexed(a) PROVE UNCHANGED <<pool, indexed, owed>>
  BY <1>4 DEF Unindexed, WithdrawFees, TransferShares, Outside, SplitSet, MergeSet
<1>5. ASSUME UNCHANGED allVars PROVE UNCHANGED <<pool, indexed, owed>>
  BY <1>5 DEF allVars, vars, ledger
<1>. QED BY <1>1, <1>2, <1>3, <1>4, <1>5 DEF IndexedNext

(* For any fee, amounts and odds, the reserves the indexer derives err by    *)
(* what trades put in and took out and by what a subtraction cut at zero,    *)
(* and the second part never shrinks (handleFpmmEvent, subtractWithFloor).   *)
THEOREM DriftStaysForGood == IndexedSpec => DriftStays
<1>1. IndexedInit => TypeOK /\ BooksType
  BY InitType DEF IndexedInit, BooksType
<1>2. TypeOK /\ BooksType /\ [IndexedNext]_allVars => (TypeOK /\ BooksType)'
  BY IndexedIsNext, TypeInductive, DriftStep
<1>3. TypeOK /\ BooksType /\ [IndexedNext]_allVars =>
        [\A o \in Outcomes : \/ Drift(o)' = Drift(o)
                             \/ Drift(o)' > Drift(o) /\ indexed'[o] = 0]_allVars
  BY DriftStep DEF DriftKept
<1>. QED BY <1>1, <1>2, <1>3, PTL DEF IndexedSpec, DriftStays
-----------------------------------------------------------------------------
(* The orders of a page. *)

Early == {"pool", "quote", "last", "check", "approve", "sign"}
Late == {"idle", "wait", "refresh", "tokens"}
States == {"none", "pending", "success", "reverted"}
OrderType ==
    [pc : Early \union Late, side : Sides, out : Outcomes,
     n : Nat, min : Nat, quote : Int, lo : Int, hi : Int, steps : Nat, moved : BOOLEAN,
     approval : States, trade : States, lost : BOOLEAN, report : {"none", "error", "success"},
     usdf : Int, blind : BOOLEAN]
SignedType == [kind : {"approval", "trade"}, side : Sides, out : Outcomes, n : Nat, min : Nat]

\* What a trade of this account cost and brought, whichever order it was of.
GainOK(g) ==
    g.of # "none" => /\ g.paid <= g.n
                     /\ g.side = "BUY" => g.paid = g.n /\ g.got >= g.min
                     /\ g.side = "SELL" => g.got = g.min

\* A read of the balances that no trade has crossed holds the wallet's.
PeekOK(p, b) ==
    /\ p \in [on : BOOLEAN, usdf : Int, old : BOOLEAN]
    /\ p.on /\ ~p.old => p.usdf = b[1]

\* An order that is not signed has no trade, the last trade is the order's if
\* and only if the order's succeeded, and then nothing earlier is left.
PageOK(o, g, e, s, b) ==
    /\ o \in OrderType
    /\ g.of = "order" <=> o.trade = "success"
    /\ o.trade = "success" => e = <<>>
    /\ o.pc \in Early => o.trade = "none" /\ o.report = "none"
    /\ o.report = "success" => o.trade = "success"
    /\ o.pc \in {"refresh", "tokens"} => o.report = "success"
    /\ o.pc = "tokens" => o.usdf = b[1]
    /\ o.report = "success" /\ o.pc = "idle" /\ ~o.blind => s = b
    /\ o.report = "error" /\ ~o.lost => o.trade \notin {"pending", "success"}

DeskInv ==
    /\ TypeOK /\ Me \in Accounts
    /\ earlier \in Seq(SignedType)
    /\ GainOK(gain) /\ PeekOK(peek, MyBalances)
    /\ PageOK(order, gain, earlier, shown, MyBalances)

\* Nothing but the order changes, and what the page knows of its pool.
Only(o) == order' = o /\ UNCHANGED <<vars, signed, shown, peek>>

LEMMA ChainLeft ==
    ASSUME DeskInv, UNCHANGED vars
    PROVE  TypeOK' /\ MyBalances' = MyBalances
BY DEF DeskInv, TypeOK, MyBalances, vars, ledger, shareVars, feeVars

LEMMA MyUsdf ==
    ASSUME DeskInv
    PROVE  MyBalances[1] = wallet[Me] /\ wallet[Me] \in Int
BY DEF DeskInv, TypeOK, MyBalances

(* An order that changes, and nothing that was signed or read with it.      *)
LEMMA OnlyKeeps ==
    ASSUME DeskInv, NEW o, Only(o), PageOK(o, gain, earlier, shown, MyBalances)
    PROVE  DeskInv'
<1>1. order' = o /\ UNCHANGED <<vars, earlier, gain, shown, peek>>
  BY DEF Only, signed
<1>2. TypeOK' /\ MyBalances' = MyBalances
  BY <1>1, ChainLeft
<1>. QED BY <1>1, <1>2 DEF DeskInv

LEMMA StepIsOnly ==
    ASSUME NEW o, Step(o)
    PROVE  Only(o)
BY DEF Step, Only, wholePage

LEMMA DeskInitType == DeskInit => TypeOK
<1>. SUFFICES ASSUME DeskInit PROVE TypeOK
  OBVIOUS
<1>1. Depth \in Nat /\ Tokens \in Nat /\ Endowment \in Nat
  BY DeskAssumption, FpmmAssumption
<1>2. PICK lp \in Crowd :
        /\ shares = [a \in Accounts |-> IF a = lp THEN Depth ELSE 0]
        /\ withdrawn = [a \in Accounts |-> IF a = lp THEN Depth ELSE 0]
  BY DEF DeskInit
<1>3. shares \in [Accounts -> Nat] /\ withdrawn \in [Accounts -> Nat]
  BY <1>1, <1>2
<1>. QED BY <1>1, <1>3 DEF DeskInit, TypeOK

(* What the others do leaves the balances of this account alone.            *)
LEMMA OthersLeaveMe ==
    ASSUME DeskInv, Others
    PROVE  TypeOK' /\ MyBalances' = MyBalances
<1>. PICK a \in Crowd : Trade(a) \/ (shares[a] > 0 /\ RemoveFunding(a, shares[a]))
  BY DEF Others
<1>0. a \in Accounts /\ a # Me /\ TypeOK /\ Me \in Accounts /\ Stakes \subseteq Nat
  BY FpmmAssumption DEF Crowd, DeskInv
<1>1. ASSUME NEW n \in Stakes, NEW o \in Outcomes, Buy(a, n, o)
      PROVE  TypeOK' /\ wallet'[Me] = wallet[Me] /\ held'[Me] = held[Me]
  <2>1. TypeOK'
    BY <1>0, <1>1, BuyType
  <2>. QED BY <1>0, <1>1, <2>1 DEF Buy, TypeOK
<1>2. ASSUME NEW r \in Stakes, NEW o \in Outcomes, Sell(a, r, o)
      PROVE  TypeOK' /\ wallet'[Me] = wallet[Me] /\ held'[Me] = held[Me]
  <2>1. TypeOK'
    BY <1>0, <1>2, SellType
  <2>. QED BY <1>0, <1>2, <2>1 DEF Sell, TypeOK
<1>3. ASSUME RemoveFunding(a, shares[a])
      PROVE  TypeOK' /\ wallet'[Me] = wallet[Me] /\ held'[Me] = held[Me]
  <2>1. shares[a] \in Nat
    BY <1>0 DEF TypeOK
  <2>2. TypeOK'
    BY <1>0, <1>3, <2>1, RemoveFundingType
  <2>. QED BY <1>0, <1>3, <2>2 DEF RemoveFunding, PayFees, TypeOK
<1>. QED BY <1>1, <1>2, <1>3 DEF Trade, MyBalances

(* An order that changes where nothing was traded for it.                   *)
LEMMA OrderTurns ==
    ASSUME DeskInv, NEW o \in OrderType, Only(o),
           o.trade = order.trade, o.lost = order.lost, order.pc \in Early,
           o.report = IF o.pc = "idle" THEN "error" ELSE order.report,
           o.pc \in Early \union {"idle"}
    PROVE  DeskInv'
<1>1. order.trade = "none" /\ order.report = "none" /\ gain.of # "order"
  BY DEF DeskInv, PageOK
<1>2. PageOK(o, gain, earlier, shown, MyBalances)
  BY <1>1 DEF PageOK, Early
<1>. QED BY <1>2, OnlyKeeps

LEMMA OrderMoves ==
    ASSUME DeskInv, NEW o \in OrderType, Step(o),
           o.trade = order.trade, o.lost = order.lost, order.pc \in Early,
           o.report = IF o.pc = "idle" THEN "error" ELSE order.report,
           o.pc \in Early \union {"idle"}
    PROVE  DeskInv'
BY StepIsOnly, OrderTurns

LEMMA PricedIs ==
    ASSUME order \in OrderType, NEW q \in Int
    PROVE  /\ Priced(q) \in OrderType /\ Priced(q).pc \in {"check", "idle"}
           /\ Priced(q).trade = order.trade /\ Priced(q).lost = order.lost
           /\ Priced(q).report = IF Priced(q).pc = "idle" THEN "error" ELSE order.report
<1>1. MinOut(q) \in Int
  BY DeskAssumption DEF MinOut
<1>2. MinOut(q) > 0 => MinOut(q) \in Nat
  BY <1>1
<1>. HIDE DEF MinOut
<1>. QED BY <1>1, <1>2 DEF Priced, Report, OrderType, Early, Late

LEMMA ReportIs ==
    ASSUME order \in OrderType
    PROVE  LET o == Report("error", order)
           IN  /\ o \in OrderType /\ o.pc = "idle" /\ o.report = "error"
               /\ o.trade = order.trade /\ o.lost = order.lost
BY DEF Report, OrderType, Late

LEMMA QuotesAreInts ==
    ASSUME DeskInv
    PROVE  /\ order.n \in Nat /\ order.out \in Outcomes
           /\ BuyAnswers(order.n, order.out) => BuyQuote(order.n, order.out) \in Int
<1>1. order.n \in Nat /\ order.out \in Outcomes
  BY DEF DeskInv, PageOK, OrderType
<1>2. ASSUME BuyAnswers(order.n, order.out)
      PROVE  BuyQuote(order.n, order.out) \in Int
  <2>1. Net(order.n) \in Nat
    BY <1>1, BuyFeeBound DEF Net
  <2>2. /\ pool[order.out] \in Nat /\ pool[Other(order.out)] \in Nat
        /\ pool[Other(order.out)] + Net(order.n) \in Nat \ {0}
    BY <1>1, <1>2, <2>1 DEF DeskInv, TypeOK, BuyAnswers, Other, Outcomes
  <2>3. ceildiv(BuyEnding(Net(order.n), order.out), ONE) \in Nat
    BY <2>2, EndingCovers DEF BuyEnding
  <2>. QED BY <2>1, <2>2, <2>3 DEF BuyQuote
<1>. QED BY <1>1, <1>2

LEMMA QuotingKeeps ==
    ASSUME DeskInv, Quoting
    PROVE  DeskInv'
<1>. order \in OrderType
  BY DEF DeskInv, PageOK
<1>1. CASE QuoteBuy
  <2>1. order.pc \in Early
    BY <1>1 DEF QuoteBuy, Early
  <2>2. CASE BuyAnswers(order.n, order.out)
    <3>1. Step(Priced(BuyQuote(order.n, order.out)))
      BY <1>1, <2>2 DEF QuoteBuy
    <3>2. BuyQuote(order.n, order.out) \in Int
      BY <2>2, QuotesAreInts
    <3>. QED BY <2>1, <3>1, <3>2, PricedIs, OrderMoves DEF Early
  <2>3. CASE ~BuyAnswers(order.n, order.out)
    <3>1. Step(Report("error", order))
      BY <1>1, <2>3 DEF QuoteBuy
    <3>. QED BY <2>1, <3>1, ReportIs, OrderMoves
  <2>. QED BY <2>2, <2>3
<1>2. CASE Probe
  <2>. DEFINE mid == Mid(order.lo, order.hi)
              next == [order EXCEPT !.steps = @ + 1, !.lo = IF Fits(mid) THEN mid ELSE @,
                              !.hi = IF Fits(mid) THEN @ ELSE mid - 1,
                              !.quote = IF Fits(mid) THEN mid ELSE @]
              moved == [next EXCEPT !.pc = IF next.hi - next.lo <= 1 THEN "last" ELSE "quote"]
  <2>1. order.pc \in Early
    BY <1>2 DEF Probe, Early
  <2>2. mid \in Int
    BY DEF Mid, OrderType
  <2>3. moved \in OrderType /\ moved.pc \in Early
        /\ moved.trade = order.trade /\ moved.lost = order.lost /\ moved.report = order.report
    <3>. DEFINE k  == order.steps + 1
                lo == IF Fits(mid) THEN mid ELSE order.lo
                hi == IF Fits(mid) THEN order.hi ELSE mid - 1
                q  == IF Fits(mid) THEN mid ELSE order.quote
    <3>0. k \in Nat /\ lo \in Int /\ hi \in Int /\ q \in Int
      <4>. HIDE DEF mid
      <4>. QED BY <2>2 DEF OrderType
    <3>a. next = [order EXCEPT !.steps = k, !.lo = lo, !.hi = hi, !.quote = q]
      OBVIOUS
    <3>. HIDE DEF mid, k, lo, hi, q, next
    <3>1. next \in OrderType /\ next.trade = order.trade /\ next.lost = order.lost
          /\ next.report = order.report
      BY <3>0, <3>a DEF OrderType
    <3>. QED BY <3>1 DEF OrderType, Early, Late
  <2>4. Step(moved) \/ Step(Report("error", order))
    BY <1>2 DEF Probe
  <2>. HIDE DEF moved, next, mid
  <2>5. CASE Step(moved)
    BY <2>1, <2>3, <2>5, OrderMoves DEF Early
  <2>6. CASE Step(Report("error", order))
    BY <2>1, <2>6, ReportIs, OrderMoves
  <2>. QED BY <2>4, <2>5, <2>6
<1>3. CASE ProbeLast \/ SearchEnds
  <2>1. order.pc \in Early /\ order.hi \in Int /\ order.quote \in Int
    BY <1>3 DEF ProbeLast, SearchEnds, Early, OrderType
  <2>2. (\E q \in Int : Step(Priced(q))) \/ Step(Report("error", order))
    BY <1>3, <2>1 DEF ProbeLast, SearchEnds
  <2>3. ASSUME NEW q \in Int, Step(Priced(q)) PROVE DeskInv'
    BY <2>1, <2>3, PricedIs, OrderMoves DEF Early
  <2>4. CASE Step(Report("error", order))
    BY <2>1, <2>4, ReportIs, OrderMoves
  <2>. QED BY <2>2, <2>3, <2>4
<1>. QED BY <1>1, <1>2, <1>3 DEF Quoting

(* Before the trade is signed.                                              *)
LEMMA AskingKeeps ==
    ASSUME DeskInv, AwaitPool \/ PoolUnknown \/ Check \/ SignApproval \/ WalletRefuses
    PROVE  DeskInv'
<1>1. order \in OrderType /\ order.pc \in Early
  BY DEF DeskInv, PageOK, AwaitPool, PoolUnknown, Check, SignApproval, WalletRefuses, Early
<1>2. \/ \E pc \in Early : Only([order EXCEPT !.pc = pc])
      \/ Only([order EXCEPT !.pc = "sign", !.approval = "pending"])
      \/ Only(Report("error", order))
  <2>1. CASE AwaitPool
    BY <2>1 DEF AwaitPool, Only, Early
  <2>2. CASE PoolUnknown \/ Check \/ SignApproval \/ WalletRefuses
    <3>1. \/ \E pc \in Early : Step([order EXCEPT !.pc = pc])
          \/ Step([order EXCEPT !.pc = "sign", !.approval = "pending"])
          \/ Step(Report("error", order))
      BY <2>2 DEF PoolUnknown, Check, SignApproval, WalletRefuses, Early
    <3>. QED BY <3>1, StepIsOnly
  <2>. QED BY <2>1, <2>2
<1>3. ASSUME NEW pc \in Early, Only([order EXCEPT !.pc = pc]) PROVE DeskInv'
  <2>. DEFINE o == [order EXCEPT !.pc = pc]
  <2>1. o \in OrderType /\ o.pc \in Early /\ o.trade = order.trade
        /\ o.lost = order.lost /\ o.report = order.report
    BY <1>1 DEF OrderType
  <2>2. Only(o)
    BY <1>3
  <2>. HIDE DEF o
  <2>. QED BY <1>1, <2>1, <2>2, OrderTurns DEF Early
<1>4. ASSUME Only([order EXCEPT !.pc = "sign", !.approval = "pending"]) PROVE DeskInv'
  <2>. DEFINE o == [order EXCEPT !.pc = "sign", !.approval = "pending"]
  <2>1. o \in OrderType /\ o.pc \in Early /\ o.trade = order.trade
        /\ o.lost = order.lost /\ o.report = order.report
    BY <1>1 DEF OrderType, Early, States
  <2>2. Only(o)
    BY <1>4
  <2>. HIDE DEF o
  <2>. QED BY <1>1, <2>1, <2>2, OrderTurns DEF Early
<1>5. CASE Only(Report("error", order))
  BY <1>1, <1>5, ReportIs, OrderTurns
<1>. QED BY <1>2, <1>3, <1>4, <1>5

(* From the signature on.                                                   *)
LEMMA WaitingKeeps ==
    ASSUME DeskInv, SignTrade \/ LoseReceipt \/ Settle
    PROVE  DeskInv'
<1>. order \in OrderType
  BY DEF DeskInv, PageOK
<1>1. CASE SignTrade
  <2>. DEFINE o == [order EXCEPT !.pc = "wait", !.trade = "pending"]
  <2>1. Step(o) /\ order.pc = "sign"
    BY <1>1 DEF SignTrade
  <2>2. o \in OrderType
    BY DEF OrderType, States, Late
  <2>3. PageOK(o, gain, earlier, shown, MyBalances)
    BY <2>1, <2>2 DEF DeskInv, PageOK, Early, OrderType
  <2>. HIDE DEF o
  <2>. QED BY <2>1, <2>3, StepIsOnly, OnlyKeeps
<1>2. CASE LoseReceipt
  <2>. DEFINE o == [order EXCEPT !.lost = TRUE]
  <2>1. Step(o)
    BY <1>2 DEF LoseReceipt
  <2>2. PageOK(o, gain, earlier, shown, MyBalances)
    BY DEF DeskInv, PageOK, OrderType
  <2>. HIDE DEF o
  <2>. QED BY <2>1, <2>2, StepIsOnly, OnlyKeeps
<1>3. CASE Settle
  <2>1. order.pc = "wait" /\ (order.lost \/ order.trade # "pending")
    BY <1>3 DEF Settle
  <2>2. CASE order.lost \/ order.trade # "success"
    <3>1. Step(Report("error", order))
      BY <1>3, <2>2 DEF Settle
    <3>2. PageOK(Report("error", order), gain, earlier, shown, MyBalances)
      BY <2>1, <2>2 DEF DeskInv, PageOK, OrderType, Report, Early, Late
    <3>. QED BY <3>1, <3>2, StepIsOnly, OnlyKeeps
  <2>3. CASE ~order.lost /\ order.trade = "success"
    <3>. DEFINE o == [order EXCEPT !.pc = "refresh", !.report = "success"]
    <3>1. Only(o)
      BY <1>3, <2>3 DEF Settle, Only
    <3>2. PageOK(o, gain, earlier, shown, MyBalances)
      BY <2>3 DEF DeskInv, PageOK, OrderType, Early, Late
    <3>. HIDE DEF o
    <3>. QED BY <3>1, <3>2, OnlyKeeps
  <2>. QED BY <2>2, <2>3
<1>. QED BY <1>1, <1>2, <1>3

(* What the page reads of the balances, for an order or of its own.         *)
LEMMA BalancesKeep ==
    ASSUME DeskInv, Balances
    PROVE  DeskInv'
<1>. order \in OrderType /\ MyBalances[1] = wallet[Me] /\ wallet[Me] \in Int
  BY MyUsdf DEF DeskInv, PageOK
<1>1. CASE ReadUsdf
  <2>. DEFINE u == wallet[Me]
              o == [order EXCEPT !.pc = "tokens", !.usdf = u]
  <2>1. Step(o) /\ order.pc = "refresh"
    BY <1>1 DEF ReadUsdf
  <2>2. u \in Int /\ MyBalances[1] = u
    OBVIOUS
  <2>. HIDE DEF u
  <2>3. PageOK(o, gain, earlier, shown, MyBalances)
    BY <2>1, <2>2 DEF DeskInv, PageOK, OrderType, Early, Late
  <2>. HIDE DEF o
  <2>. QED BY <2>1, <2>3, StepIsOnly, OnlyKeeps
<1>2. CASE Refresh
  <2>. DEFINE o == [order EXCEPT !.pc = "idle", !.blind = FALSE]
  <2>1. /\ order.pc = "tokens" /\ order' = o /\ shown' = <<order.usdf, held[Me][0], held[Me][1]>>
        /\ UNCHANGED <<vars, earlier, gain, peek>>
    BY <1>2 DEF Refresh, Shows, signed
  <2>2. order.usdf = wallet[Me]
    BY <2>1 DEF DeskInv, PageOK
  <2>3. shown' = MyBalances
    BY <2>1, <2>2 DEF MyBalances
  <2>4. PageOK(o, gain, earlier, MyBalances, MyBalances)
    BY <2>1 DEF DeskInv, PageOK, OrderType, Early, Late
  <2>. HIDE DEF o
  <2>5. TypeOK' /\ MyBalances' = MyBalances
    BY <2>1, ChainLeft
  <2>. QED BY <2>1, <2>3, <2>4, <2>5 DEF DeskInv
<1>3. CASE RefreshFails
  <2>. DEFINE o == [order EXCEPT !.pc = "idle", !.blind = TRUE]
  <2>1. Step(o)
    BY <1>3 DEF RefreshFails
  <2>2. PageOK(o, gain, earlier, shown, MyBalances)
    BY <1>3 DEF RefreshFails, DeskInv, PageOK, OrderType, Early, Late
  <2>. HIDE DEF o
  <2>. QED BY <2>1, <2>2, StepIsOnly, OnlyKeeps
<1>4. CASE Peek
  <2>. DEFINE p == [on |-> TRUE, usdf |-> wallet[Me], old |-> FALSE]
  <2>1. peek' = p /\ UNCHANGED <<vars, order, earlier, gain, shown>>
    BY <1>4 DEF Peek, signed
  <2>2. PeekOK(p, MyBalances)
    BY DEF PeekOK
  <2>. HIDE DEF p
  <2>3. TypeOK' /\ MyBalances' = MyBalances
    BY <2>1, ChainLeft
  <2>. QED BY <2>1, <2>2, <2>3 DEF DeskInv
<1>5. CASE PeekLands
  <2>. DEFINE o == [order EXCEPT !.blind = peek.old]
              s == <<peek.usdf, held[Me][0], held[Me][1]>>
  <2>1. /\ peek.on /\ peek' = NoPeek /\ order' = o /\ shown' = s
        /\ UNCHANGED <<vars, earlier, gain>>
    BY <1>5 DEF PeekLands, Shows, signed
  <2>2. peek.old \in BOOLEAN /\ (~peek.old => s = MyBalances)
    BY <2>1 DEF DeskInv, PeekOK, MyBalances
  <2>. HIDE DEF s
  <2>3. PageOK(o, gain, earlier, s, MyBalances)
    BY <2>2 DEF DeskInv, PageOK, OrderType
  <2>. HIDE DEF o
  <2>4. TypeOK' /\ MyBalances' = MyBalances
    BY <2>1, ChainLeft
  <2>5. PeekOK(NoPeek, MyBalances)
    BY DEF PeekOK, NoPeek
  <2>. QED BY <2>1, <2>3, <2>4, <2>5 DEF DeskInv
<1>6. CASE PeekFails
  <2>1. peek' = NoPeek /\ UNCHANGED <<vars, order, earlier, gain, shown>>
    BY <1>6 DEF PeekFails, signed
  <2>2. TypeOK' /\ MyBalances' = MyBalances
    BY <2>1, ChainLeft
  <2>3. PeekOK(NoPeek, MyBalances)
    BY DEF PeekOK, NoPeek
  <2>. QED BY <2>1, <2>2, <2>3 DEF DeskInv
<1>. QED BY <1>1, <1>2, <1>3, <1>4, <1>5, <1>6 DEF Balances

(* What the trade costs and brings is what its guards compared.             *)
LEMMA TradePays ==
    ASSUME DeskInv, NEW t, t.side \in Sides, t.out \in Outcomes, t.n \in Nat, t.min \in Nat,
           Accepts(t), TradeCall(t)
    PROVE  /\ TypeOK'
           /\ Spent(t) <= t.n
           /\ t.side = "BUY" => Spent(t) = t.n /\ Received(t) >= t.min
           /\ t.side = "SELL" => Received(t) = t.min
<1>. DEFINE n == t.n
            r == t.min
            x == t.out
<1>1. /\ TypeOK /\ Me \in Accounts /\ n \in Nat /\ r \in Nat /\ x \in Outcomes
      /\ t.side \in {"BUY", "SELL"}
  BY DEF DeskInv, Sides
<1>2. /\ wallet \in [Accounts -> Nat] /\ wallet[Me] \in Nat
      /\ held[Me] \in [Outcomes -> Nat] /\ held[Me][x] \in Nat /\ pool[x] \in Nat
  BY <1>1 DEF TypeOK
<1>3. CASE t.side = "BUY"
  <2>1. Buy(Me, n, x) /\ BuyQuote(n, x) >= r
    BY <1>3 DEF TradeCall, Accepts
  <2>2. TypeOK'
    BY <1>1, <2>1, BuyType
  <2>3. wallet'[Me] = wallet[Me] - n
    BY <1>1, <1>2, <2>1 DEF Buy
  <2>4. held' = [held EXCEPT ![Me][x] = @ + BuyQuote(n, x)]
    BY <2>1 DEF Buy, BuyQuote, Net
  <2>. HIDE DEF n, r, x
  <2>5. held'[Me][x] = held[Me][x] + BuyQuote(n, x)
    BY <1>1, <2>4 DEF TypeOK
  <2>6. held'[Me][x] \in Nat
    BY <1>1, <2>2 DEF TypeOK
  <2>7. BuyQuote(n, x) \in Int
    BY <1>1, <2>1, BuyPool, BuyFeeBound, <1>2 DEF BuyQuote, Net, TypeOK
  <2>8. Spent(t) = n /\ Received(t) = BuyQuote(n, x)
    BY <1>1, <1>2, <1>3, <2>3, <2>5, <2>7 DEF Spent, Received, x
  <2>. QED BY <1>1, <1>3, <2>1, <2>2, <2>7, <2>8 DEF n, r
<1>4. CASE t.side = "SELL"
  <2>1. Sell(Me, r, x) /\ SellRequired(r, x) <= n
    BY <1>4 DEF TradeCall, Accepts, PaidBy
  <2>2. TypeOK'
    BY <1>1, <2>1, SellType
  <2>3. wallet'[Me] = wallet[Me] + r
    BY <1>1, <1>2, <2>1 DEF Sell
  <2>4. held' = [held EXCEPT ![Me][x] = @ - SellRequired(r, x)]
    BY <2>1 DEF Sell, SellRequired
  <2>. HIDE DEF n, r, x
  <2>5. held'[Me][x] = held[Me][x] - SellRequired(r, x)
    BY <1>1, <2>4 DEF TypeOK
  <2>7. SellRequired(r, x) \in Int
    BY <1>1, <2>1, SellPool, <1>2 DEF SellRequired, TypeOK
  <2>8. Spent(t) = SellRequired(r, x) /\ Received(t) = r
    BY <1>1, <1>2, <1>4, <2>3, <2>5, <2>7 DEF Spent, Received, x
  <2>. QED BY <1>1, <1>4, <2>1, <2>2, <2>7, <2>8 DEF n, r
<1>. QED BY <1>1, <1>3, <1>4

(* A trade of this account is mined, for the order or for an earlier one.   *)
LEMMA ExecutesPays ==
    ASSUME DeskInv, NEW t, t.side \in Sides, t.out \in Outcomes, t.n \in Nat, t.min \in Nat,
           NEW of \in {"order", "earlier"}, Executes(t, of)
    PROVE  /\ TypeOK' /\ GainOK(gain') /\ gain'.of = of
           /\ PeekOK(peek', MyBalances') /\ shown' = shown
<1>. DEFINE g == [of |-> of, side |-> t.side, n |-> t.n, min |-> t.min,
                  paid |-> Spent(t), got |-> Received(t)]
            p == [peek EXCEPT !.old = TRUE]
<1>1. Accepts(t) /\ TradeCall(t) /\ gain' = g /\ shown' = shown
  BY DEF Executes
<1>2. /\ TypeOK' /\ Spent(t) <= t.n
      /\ t.side = "BUY" => Spent(t) = t.n /\ Received(t) >= t.min
      /\ t.side = "SELL" => Received(t) = t.min
  BY <1>1, TradePays
<1>3. GainOK(g) /\ g.of = of
  BY <1>2 DEF GainOK
<1>4. PeekOK(peek', MyBalances')
  <2>1. peek' = [peek EXCEPT !.old = TRUE]
    BY DEF Executes
  <2>2. peek' \in [on : BOOLEAN, usdf : Int, old : BOOLEAN] /\ peek'.old
    BY <2>1 DEF DeskInv, PeekOK
  <2>. QED BY <2>2 DEF PeekOK
<1>. HIDE DEF g
<1>. QED BY <1>1, <1>2, <1>3, <1>4

LEMMA MinedKeeps ==
    ASSUME DeskInv, MinedOfMe
    PROVE  DeskInv'
<1>. order \in OrderType
  BY DEF DeskInv, PageOK
<1>1. CASE ApprovalMined
  <2>. DEFINE o == [order EXCEPT !.approval = "success"]
  <2>1. order' = o /\ UNCHANGED <<vars, earlier, gain, shown, peek>>
    BY <1>1 DEF ApprovalMined, wholePage
  <2>2. TypeOK' /\ MyBalances' = MyBalances
    BY <2>1, ChainLeft
  <2>3. PageOK(o, gain, earlier, shown, MyBalances)
    BY DEF DeskInv, PageOK, OrderType, States
  <2>. HIDE DEF o
  <2>. QED BY <2>1, <2>2, <2>3 DEF DeskInv
<1>2. CASE TradeReverts
  <2>. DEFINE o == [order EXCEPT !.trade = "reverted"]
  <2>1. Step(o) /\ order.trade = "pending"
    BY <1>2 DEF TradeReverts, TradeDue
  <2>2. PageOK(o, gain, earlier, shown, MyBalances)
    BY <2>1 DEF DeskInv, PageOK, OrderType, States, Early
  <2>. HIDE DEF o
  <2>. QED BY <2>1, <2>2, StepIsOnly, OnlyKeeps
<1>3. CASE TradeExecutes
  <2>. DEFINE o == [order EXCEPT !.trade = "success"]
  <2>1. /\ order.trade = "pending" /\ Executes(order, "order") /\ order' = o
        /\ earlier = <<>> /\ earlier' = earlier
    BY <1>3 DEF TradeExecutes, TradeDue
  <2>2. order.side \in Sides /\ order.out \in Outcomes /\ order.n \in Nat /\ order.min \in Nat
    BY DEF OrderType
  <2>3. /\ TypeOK' /\ GainOK(gain') /\ gain'.of = "order"
        /\ PeekOK(peek', MyBalances') /\ shown' = shown
    BY <2>1, <2>2, ExecutesPays
  <2>4. /\ o \in OrderType /\ o.pc = order.pc /\ o.report = order.report /\ o.lost = order.lost
        /\ o.trade = "success"
    BY DEF OrderType, States
  <2>5. /\ order.pc \notin Early /\ order.report # "success"
        /\ order.pc \notin {"refresh", "tokens"} /\ (order.report = "error" => order.lost)
    BY <2>1 DEF DeskInv, PageOK
  <2>. HIDE DEF o
  <2>6. PageOK(o, gain', earlier', shown', MyBalances')
    BY <2>1, <2>3, <2>4, <2>5 DEF PageOK
  <2>. QED BY <2>1, <2>3, <2>6 DEF DeskInv
<1>4. CASE EarlierMined
  <2>. DEFINE t == Head(earlier)
              o == [order EXCEPT !.moved = TRUE]
  <2>1. earlier # <<>> /\ earlier' = Tail(earlier)
    BY <1>4 DEF EarlierMined
  <2>2. t \in SignedType /\ earlier' \in Seq(SignedType)
    BY <2>1 DEF DeskInv
  <2>3. order.trade # "success"
    BY <2>1 DEF DeskInv, PageOK
  <2>4. CASE UNCHANGED <<vars, order, gain, wholePage>>
    <3>1. TypeOK' /\ MyBalances' = MyBalances /\ UNCHANGED <<order, gain, shown, peek>>
      BY <2>4, ChainLeft DEF wholePage
    <3>. QED BY <2>2, <2>3, <3>1 DEF DeskInv, PageOK
  <2>5. CASE Executes(t, "earlier") /\ order' = o
    <3>1. t.side \in Sides /\ t.out \in Outcomes /\ t.n \in Nat /\ t.min \in Nat
      BY <2>2 DEF SignedType
    <3>. HIDE DEF t
    <3>2. /\ TypeOK' /\ GainOK(gain') /\ gain'.of = "earlier"
          /\ PeekOK(peek', MyBalances') /\ shown' = shown
      BY <2>5, <3>1, ExecutesPays
    <3>3. /\ o \in OrderType /\ o.pc = order.pc /\ o.report = order.report
          /\ o.lost = order.lost /\ o.trade = order.trade
      BY DEF OrderType
    <3>4. order.report # "success" /\ order.pc \notin {"refresh", "tokens"}
      BY <2>3 DEF DeskInv, PageOK
    <3>. HIDE DEF o
    <3>5. PageOK(o, gain', earlier', shown', MyBalances')
      BY <2>3, <3>2, <3>3, <3>4 DEF DeskInv, PageOK
    <3>. QED BY <2>2, <2>5, <3>2, <3>5 DEF DeskInv
  <2>. QED BY <1>4, <2>4, <2>5 DEF EarlierMined
<1>. QED BY <1>1, <1>2, <1>3, <1>4 DEF MinedOfMe

LEMMA UnminedType ==
    ASSUME order \in OrderType
    PROVE  Unmined \in Seq(SignedType)
<1>1. Tx("approval") \in SignedType /\ Tx("trade") \in SignedType
  BY DEF Tx, SignedType, OrderType
<1>. DEFINE a == Tx("approval")
            b == Tx("trade")
<1>. HIDE DEF a, b
<1>2. <<a>> \in Seq(SignedType) /\ <<b>> \in Seq(SignedType) /\ <<>> \in Seq(SignedType)
  BY <1>1 DEF a, b
<1>. QED BY <1>2 DEF Unmined, a, b

LEMMA DeskInductive == DeskInv /\ [DeskNext]_deskAll => DeskInv'
<1>. SUFFICES ASSUME DeskInv, [DeskNext]_deskAll PROVE DeskInv'
  OBVIOUS
<1>. order \in OrderType
  BY DEF DeskInv, PageOK
<1>1. CASE UNCHANGED deskAll
  <2>1. UNCHANGED <<vars, order, earlier, gain, shown, peek>>
    BY <1>1 DEF deskAll, deskVars, signed, wholePage
  <2>2. TypeOK' /\ MyBalances' = MyBalances
    BY <2>1, ChainLeft
  <2>. QED BY <2>1, <2>2 DEF DeskInv
<1>2. ASSUME NEW side \in Sides, NEW x \in Outcomes, NEW n \in Orders, PlaceOrder(side, x, n)
      PROVE  DeskInv'
  <2>. DEFINE o == [NoOrder EXCEPT !.side = side, !.out = x, !.n = n, !.hi = n,
                       !.pc = IF poolInit = "null" THEN "pool" ELSE "quote"]
  <2>1. /\ order' = o /\ gain' = NoGain /\ earlier' = earlier \o Unmined
        /\ UNCHANGED <<vars, shown, peek>>
    BY <1>2 DEF PlaceOrder, wholePage
  <2>2. n \in Nat
    BY DeskAssumption
  <2>3. o \in OrderType /\ o.trade = "none" /\ o.report = "none"
    <3>. DEFINE pc == IF poolInit = "null" THEN "pool" ELSE "quote"
                a == [NoOrder EXCEPT !.side = side, !.out = x]
                b == [a EXCEPT !.n = n]
                c == [b EXCEPT !.hi = n]
                d == [c EXCEPT !.pc = pc]
    <3>1. n \in Int /\ pc \in Early \union Late
      BY <2>2 DEF Early
    <3>2. NoOrder \in OrderType /\ NoOrder.trade = "none" /\ NoOrder.report = "none"
      BY DEF NoOrder, OrderType, States, Early, Late, Sides, Outcomes
    <3>3. a \in OrderType /\ a.trade = "none" /\ a.report = "none"
      BY <3>2 DEF OrderType
    <3>. HIDE DEF a
    <3>4. b \in OrderType /\ b.trade = "none" /\ b.report = "none"
      BY <2>2, <3>3 DEF OrderType
    <3>. HIDE DEF b
    <3>5. c \in OrderType /\ c.trade = "none" /\ c.report = "none"
      BY <3>1, <3>4 DEF OrderType
    <3>. HIDE DEF c
    <3>6. d \in OrderType /\ d.trade = "none" /\ d.report = "none"
      <4>. HIDE DEF pc
      <4>. QED BY <3>1, <3>5 DEF OrderType
    <3>7. o = d
      BY DEF a, b, c, d
    <3>. QED BY <3>6, <3>7
  <2>4. TypeOK' /\ MyBalances' = MyBalances
    BY <2>1, ChainLeft
  <2>5. earlier' \in Seq(SignedType)
    BY <2>1, UnminedType DEF DeskInv
  <2>6. o.pc \in Early
    BY DEF NoOrder, Early
  <2>. HIDE DEF o
  <2>7. PageOK(o, NoGain, earlier', shown, MyBalances)
    BY <2>3, <2>6 DEF PageOK, NoGain, Early
  <2>8. GainOK(NoGain)
    BY DEF GainOK, NoGain
  <2>. QED BY <2>1, <2>4, <2>5, <2>7, <2>8 DEF DeskInv
<1>3. CASE PageLoadsPool
  <2>1. UNCHANGED <<vars, order, earlier, gain, shown, peek>>
    BY <1>3 DEF PageLoadsPool, signed
  <2>2. TypeOK' /\ MyBalances' = MyBalances
    BY <2>1, ChainLeft
  <2>. QED BY <2>1, <2>2 DEF DeskInv
<1>4. CASE Others
  <2>1. TypeOK' /\ MyBalances' = MyBalances
    BY <1>4, OthersLeaveMe
  <2>. DEFINE o == [order EXCEPT !.moved = TRUE]
  <2>2. order' = o /\ UNCHANGED <<earlier, gain, shown, peek>>
    BY <1>4 DEF Others, signed, wholePage
  <2>3. PageOK(o, gain, earlier, shown, MyBalances)
    BY DEF DeskInv, PageOK, OrderType
  <2>. HIDE DEF o
  <2>. QED BY <2>1, <2>2, <2>3 DEF DeskInv
<1>. QED BY <1>1, <1>2, <1>3, <1>4, QuotingKeeps, AskingKeeps, WaitingKeeps, BalancesKeep,
            MinedKeeps
         DEF DeskNext, Click, Desk, Signing

LEMMA DeskInitInv == DeskInit => DeskInv
<1>. SUFFICES ASSUME DeskInit PROVE DeskInv
  OBVIOUS
<1>1. order = NoOrder /\ gain = NoGain /\ earlier = <<>> /\ peek = NoPeek /\ Me \in Accounts
  BY DEF DeskInit
<1>2. NoOrder \in OrderType
  BY DEF NoOrder, OrderType, States, Early, Late, Sides, Outcomes
<1>3. PeekOK(NoPeek, MyBalances) /\ GainOK(NoGain)
  BY DEF PeekOK, NoPeek, GainOK, NoGain
<1>4. PageOK(NoOrder, NoGain, <<>>, shown, MyBalances)
  BY <1>2 DEF PageOK, NoOrder, NoGain, Early
<1>. QED BY <1>1, <1>3, <1>4, DeskInitType DEF DeskInv

LEMMA DeskInvariant == DeskSpec => []DeskInv
BY DeskInitInv, DeskInductive, PTL DEF DeskSpec

(* However many trades of others and however many liquidity withdrawals come *)
(* between the quote's reads, the signature and the block, at any slippage,   *)
(* also where a trade is mined beside a later order: a purchase costs the     *)
(* amount typed and brings the minimum at least, a sale takes no more tokens  *)
(* than typed and returns the minimum (handlePlaceOrder, buy, sell).          *)
THEOREM OrdersKeepPrice == DeskSpec => []PriceKept
<1>1. DeskInv => PriceKept
  BY DEF DeskInv, GainOK, PriceKept
<1>. QED BY <1>1, DeskInvariant, PTL

(* The page reports success only of an order whose own trade executed, with   *)
(* nothing left of an earlier one; it then shows the balances that trade      *)
(* left, unless its refresh failed or an older read of them landed last; it   *)
(* reports an error over a trade that executed, or may, only where a receipt  *)
(* could not be had (handlePlaceOrder, refreshBalances).                      *)
THEOREM OrdersReportTruly == DeskSpec => []ReportTrue
<1>1. DeskInv => ReportTrue
  BY DEF DeskInv, PageOK, ReportTrue
<1>. QED BY <1>1, DeskInvariant, PTL
-----------------------------------------------------------------------------
(* USDF and the page that swaps it. *)

Hands == {"user", "machine", "owner"}
Kinds == {"none", "approve", "buy", "sell"}
Dirs == {"buy", "sell"}
TxType == [kind : Kinds, amount : Int, status : {"unsent", "pending", "success", "reverted"}]
CallType == [at : {"none", "approve", "receipt", "swap"}, dir : Dirs, amount : Int, tx : Int]
FormType == [dir : Dirs, from : Int, swapping : BOOLEAN,
             step : {"idle", "submitting", "confirming", "complete"}, hash : Int,
             txDir : Dirs, usdt : Int, usdf : Int]

MoneyOK ==
    /\ usdt \in [Hands -> Int]
    /\ usdf \in Int /\ others \in Int /\ spend \in Int /\ minted \in Int /\ rescued \in Int
    /\ Swap!Short <= minted + rescued

\* The panel's transaction is one of the direction that was clicked; while a
\* call asks the wallet the form awaits no transaction.
PanelOK(f, c, t, s) ==
    /\ c.at # "none" => /\ f.swapping /\ f.txDir = c.dir
                        /\ f.step \in {"idle", "submitting"}
    /\ f.step \in {"confirming", "complete"} => f.hash \in 1..s /\ t[f.hash].kind = f.txDir
    /\ f.step = "complete" => t[f.hash].status = "success"

SwapInv ==
    /\ MoneyOK
    /\ txs \in [1..MaxTx -> TxType] /\ sent \in 0..MaxTx
    /\ form \in FormType /\ call \in CallType
    /\ PanelOK(form, call, txs, sent)

LEMMA NoCallType ==
    /\ Swap!NoCall \in CallType /\ Swap!NoCall.at = "none"
    /\ Swap!NoHash \in Int
BY DEF Swap!NoCall, Swap!NoHash, CallType, Dirs

LEMMA UnlockType ==
    ASSUME NEW f \in FormType
    PROVE  Swap!Unlock(f) \in FormType /\ Swap!Unlock(f).step = "idle"
BY DEF Swap!Unlock, FormType

LEMMA SwapFeeType ==
    ASSUME Swap!VendingAssumption, NEW n \in Int
    PROVE  Swap!SellFee(n) \in Int
BY DEF Swap!SellFee, Swap!VendingAssumption

LEMMA SwapInit == Swap!VendingAssumption /\ Swap!Init => SwapInv
<1>. SUFFICES ASSUME Swap!VendingAssumption, Swap!Init PROVE SwapInv
  OBVIOUS
<1>1. MoneyOK
  BY DEF Swap!Init, Swap!VendingAssumption, MoneyOK, Hands, Swap!Short
<1>2. txs \in [1..MaxTx -> TxType] /\ sent \in 0..MaxTx
  BY DEF Swap!Init, Swap!VendingAssumption, TxType, Kinds
<1>3. form \in FormType /\ call \in CallType
  BY DEF Swap!Init, Swap!VendingAssumption, FormType, CallType, Dirs, Swap!NoCall, Swap!NoHash
<1>4. PanelOK(form, call, txs, sent)
  BY DEF Swap!Init, PanelOK, Swap!NoCall
<1>. QED BY <1>1, <1>2, <1>3, <1>4 DEF SwapInv

(* A transaction, mined or reverted, keeps the machine's debt covered.       *)
LEMMA MineKeepsMoney ==
    ASSUME Swap!VendingAssumption, SwapInv, NEW i \in 1..sent, Swap!Mine(i)
    PROVE  MoneyOK'
<1>. DEFINE n == txs[i].amount
<1>0. i \in 1..MaxTx
  BY DEF SwapInv, Swap!VendingAssumption
<1>1. n \in Int /\ txs[i] \in TxType
  BY <1>0 DEF SwapInv, TxType
<1>2. Swap!SellFee(n) \in Int
  BY <1>1, SwapFeeType
<1>3. /\ usdt \in [Hands -> Int] /\ Swap!Short <= minted + rescued
      /\ usdf \in Int /\ others \in Int /\ spend \in Int /\ minted \in Int /\ rescued \in Int
      /\ UNCHANGED <<others, minted, rescued>>
  BY DEF SwapInv, MoneyOK, Swap!Mine
<1>4. \/ Swap!ApproveTx(n) \/ Swap!BuyTx(n) \/ Swap!SellTx(n)
      \/ UNCHANGED <<usdt, usdf, spend>>
  BY DEF Swap!Mine
<1>. HIDE DEF n
<1>5. CASE Swap!ApproveTx(n) \/ UNCHANGED <<usdt, usdf, spend>>
  BY <1>1, <1>3, <1>5 DEF Swap!ApproveTx, MoneyOK, Swap!Short
<1>6. CASE Swap!BuyTx(n)
  <2>1. /\ usdt' = [usdt EXCEPT !["user"] = @ - n, !["machine"] = @ + n]
        /\ spend' = spend - n /\ usdf' = usdf + n
    BY <1>6 DEF Swap!BuyTx
  <2>2. usdt' \in [Hands -> Int] /\ usdt'["machine"] = usdt["machine"] + n
    BY <1>1, <1>3, <2>1 DEF Hands
  <2>. QED BY <1>1, <1>3, <2>1, <2>2 DEF MoneyOK, Swap!Short, Hands
<1>7. CASE Swap!SellTx(n)
  <2>1. /\ usdt' = [usdt EXCEPT !["machine"] = @ - n, !["user"] = @ + (n - Swap!SellFee(n)),
                                !["owner"] = @ + Swap!SellFee(n)]
        /\ usdf' = usdf - n /\ spend' = spend
    BY <1>7 DEF Swap!SellTx
  <2>2. usdt' \in [Hands -> Int] /\ usdt'["machine"] = usdt["machine"] - n
    BY <1>1, <1>2, <1>3, <2>1 DEF Hands
  <2>. QED BY <1>1, <1>3, <2>1, <2>2 DEF MoneyOK, Swap!Short, Hands
<1>. QED BY <1>4, <1>5, <1>6, <1>7

LEMMA OwnerKeepsMoney ==
    ASSUME Swap!VendingAssumption, SwapInv,
           Swap!OwnerMint \/ Swap!Rescue \/ Swap!Gift \/ Swap!OtherSells
    PROVE  MoneyOK'
<1>1. /\ usdt \in [Hands -> Int] /\ Swap!Short <= minted + rescued /\ OwnerAmount \in Nat
      /\ usdf \in Int /\ others \in Int /\ spend \in Int /\ minted \in Int /\ rescued \in Int
  BY DEF SwapInv, MoneyOK, Swap!VendingAssumption
<1>2. CASE Swap!OwnerMint
  <2>1. /\ minted' = minted + OwnerAmount /\ others' = others + OwnerAmount
        /\ UNCHANGED <<usdt, usdf, spend, rescued>>
    BY <1>2 DEF Swap!OwnerMint
  <2>2. usdt["machine"] \in Int
    BY <1>1 DEF Hands
  <2>. QED BY <1>1, <2>1, <2>2 DEF MoneyOK, Swap!Short
<1>3. CASE Swap!Rescue
  <2>1. /\ usdt' = [usdt EXCEPT !["machine"] = @ - OwnerAmount, !["owner"] = @ + OwnerAmount]
        /\ rescued' = rescued + OwnerAmount /\ UNCHANGED <<usdf, others, spend, minted>>
    BY <1>3 DEF Swap!Rescue
  <2>2. usdt' \in [Hands -> Int] /\ usdt'["machine"] = usdt["machine"] - OwnerAmount
    BY <1>1, <2>1 DEF Hands
  <2>. QED BY <1>1, <2>1, <2>2 DEF MoneyOK, Swap!Short, Hands
<1>4. CASE Swap!OtherSells
  <2>1. PICK n \in 1..others :
          /\ usdt' = [usdt EXCEPT !["machine"] = @ - n, !["owner"] = @ + Swap!SellFee(n)]
          /\ others' = others - n /\ UNCHANGED <<usdf, spend, minted, rescued>>
    BY <1>4 DEF Swap!OtherSells
  <2>2. n \in Int /\ Swap!SellFee(n) \in Int
    BY <1>1, SwapFeeType
  <2>3. usdt' \in [Hands -> Int] /\ usdt'["machine"] = usdt["machine"] - n
    BY <1>1, <2>1, <2>2 DEF Hands
  <2>. QED BY <1>1, <2>1, <2>2, <2>3 DEF MoneyOK, Swap!Short, Hands
<1>5. CASE Swap!Gift
  <2>1. /\ usdt' = [usdt EXCEPT !["machine"] = @ + OwnerAmount]
        /\ UNCHANGED <<usdf, others, spend, minted, rescued>>
    BY <1>5 DEF Swap!Gift
  <2>2. usdt' \in [Hands -> Int] /\ usdt'["machine"] = usdt["machine"] + OwnerAmount
    BY <1>1, <2>1 DEF Hands
  <2>. QED BY <1>1, <2>1, <2>2 DEF MoneyOK, Swap!Short, Hands
<1>. QED BY <1>2, <1>3, <1>4, <1>5
(* A transaction that is mined was pending: it is not the panel's.           *)
LEMMA MineKeepsPage ==
    ASSUME Swap!VendingAssumption, SwapInv, NEW i \in 1..sent, Swap!Mine(i)
    PROVE  SwapInv'
<1>1. i \in 1..MaxTx /\ txs \in [1..MaxTx -> TxType] /\ txs[i].status = "pending"
  BY DEF SwapInv, Swap!VendingAssumption, Swap!Mine
<1>2. PICK st \in {"success", "reverted"} : txs' = [txs EXCEPT ![i].status = st]
  BY DEF Swap!Mine
<1>3. txs' \in [1..MaxTx -> TxType]
      /\ \A j \in 1..MaxTx : /\ txs'[j].kind = txs[j].kind
                             /\ txs[j].status = "success" => txs'[j].status = "success"
  BY <1>1, <1>2 DEF TxType
<1>4. UNCHANGED <<sent, form, call, timers, dropped>>
  BY DEF Swap!Mine, Swap!page
<1>5. PanelOK(form, call, txs', sent)
  <2>1. 1..sent \subseteq 1..MaxTx
    BY DEF SwapInv, Swap!VendingAssumption
  <2>. QED BY <1>3, <2>1 DEF SwapInv, PanelOK
<1>. QED BY <1>3, <1>4, <1>5, MineKeepsMoney DEF SwapInv

(* The form's and the call's next state, while the chain is left alone.      *)
LEMMA PageMoves ==
    ASSUME SwapInv, NEW f \in FormType, NEW c \in CallType, PanelOK(f, c, txs, sent),
           form' = f, call' = c, UNCHANGED Swap!chain
    PROVE  SwapInv'
BY DEF SwapInv, MoneyOK, Swap!Short, Swap!chain, Swap!money

LEMMA UserKeeps ==
    ASSUME Swap!VendingAssumption, SwapInv, Swap!User \/ Swap!Refetch
    PROVE  SwapInv'
<1>0. /\ form \in FormType /\ call \in CallType /\ PanelOK(form, call, txs, sent)
      /\ usdt["user"] \in Int /\ usdf \in Int
      /\ Swap!Balance \in Int
  BY DEF SwapInv, MoneyOK, Hands, Swap!Balance, FormType
<1>1. ASSUME NEW n \in Int, Swap!Type(n) PROVE SwapInv'
  <2>. DEFINE f == [form EXCEPT !.from = n]
  <2>1. f \in FormType /\ PanelOK(f, call, txs, sent)
    BY <1>0 DEF FormType, PanelOK
  <2>2. form' = f /\ call' = call /\ UNCHANGED Swap!chain
    BY <1>1 DEF Swap!Type
  <2>. HIDE DEF f
  <2>. QED BY <1>0, <2>1, <2>2, PageMoves
<1>2. CASE Swap!Toggle
  <2>. DEFINE n == Swap!ToAmount(form.from, form.dir)
              f == [form EXCEPT !.dir = Swap!Reverse(form.dir), !.step = "idle",
                                !.hash = Swap!NoHash, !.from = n]
  <2>1. n \in Int
    BY <1>0 DEF Swap!ToAmount, Swap!VendingAssumption, FormType
  <2>2. Swap!Reverse(form.dir) \in Dirs /\ Swap!NoHash \in Int
    BY DEF Swap!Reverse, Dirs, Swap!NoHash
  <2>3. form' = f /\ call' = call /\ UNCHANGED Swap!chain
    BY <1>2 DEF Swap!Toggle
  <2>. HIDE DEF n
  <2>4. f \in FormType /\ PanelOK(f, call, txs, sent)
    BY <1>0, <2>1, <2>2 DEF FormType, PanelOK
  <2>. HIDE DEF f
  <2>. QED BY <1>0, <2>3, <2>4, PageMoves
<1>3. CASE Swap!HandleSwap
  <2>. DEFINE enough == form.from <= Swap!Balance
              f == [form EXCEPT !.swapping = enough, !.hash = Swap!NoHash, !.txDir = form.dir,
                                !.step = IF enough THEN "submitting" ELSE "idle"]
              c == IF enough THEN [at |-> IF form.dir = "buy" THEN "approve" ELSE "swap",
                                   dir |-> form.dir, amount |-> form.from, tx |-> Swap!NoHash]
                   ELSE Swap!NoCall
  <2>1. form' = f /\ call' = c /\ UNCHANGED Swap!chain
    BY <1>3 DEF Swap!HandleSwap
  <2>2. form.from \in Int /\ form.dir \in Dirs /\ Swap!NoHash \in Int
    BY <1>0 DEF FormType, Swap!NoHash
  <2>3. CASE enough
    <3>1. f \in FormType /\ c \in CallType
      BY <1>0, <2>2, <2>3 DEF FormType, CallType
    <3>2. PanelOK(f, c, txs, sent)
      BY <1>0, <2>3 DEF PanelOK, FormType
    <3>. HIDE DEF f, c
    <3>. QED BY <2>1, <3>1, <3>2, PageMoves
  <2>4. CASE ~enough
    <3>1. c \in CallType /\ c.at = "none"
      BY <2>4, NoCallType
    <3>2. f \in FormType /\ f.step = "idle"
      <4>. DEFINE k == Swap!NoHash
                  e == [form EXCEPT !.swapping = FALSE, !.hash = k, !.txDir = form.dir, !.step = "idle"]
      <4>1. f = e
        <5>1. enough = FALSE
          BY <2>4
        <5>. HIDE DEF enough
        <5>. QED BY <5>1
      <4>. HIDE DEF k
      <4>2. e \in FormType /\ e.step = "idle"
        BY <1>0, <2>2 DEF FormType, k
      <4>. QED BY <4>1, <4>2
    <3>. HIDE DEF f, c
    <3>3. PanelOK(f, c, txs, sent)
      BY <3>1, <3>2 DEF PanelOK
    <3>. QED BY <2>1, <3>1, <3>2, <3>3, PageMoves
  <2>. QED BY <2>3, <2>4
<1>4. CASE Swap!Refetch
  <2>. DEFINE f == [form EXCEPT !.usdt = usdt["user"], !.usdf = usdf]
  <2>1. f \in FormType /\ PanelOK(f, call, txs, sent)
    BY <1>0 DEF FormType, PanelOK
  <2>2. form' = f /\ call' = call /\ UNCHANGED Swap!chain
    BY <1>4 DEF Swap!Refetch
  <2>. HIDE DEF f
  <2>. QED BY <1>0, <2>1, <2>2, PageMoves
<1>5. Amounts \subseteq Int
  BY DEF Swap!VendingAssumption
<1>. QED BY <1>0, <1>1, <1>2, <1>3, <1>4, <1>5 DEF Swap!User, Swap!MaxAmount

LEMMA EffectsKeep ==
    ASSUME Swap!VendingAssumption, SwapInv, Swap!Page \/ Swap!SwapFails \/ Swap!ReceiptLost
    PROVE  SwapInv'
<1>0. form \in FormType /\ call \in CallType /\ PanelOK(form, call, txs, sent)
  BY DEF SwapInv
<1>1. CASE Swap!ApprovalMined
  <2>. DEFINE c == [call EXCEPT !.at = "swap"]
  <2>1. c \in CallType /\ PanelOK(form, c, txs, sent)
    BY <1>0, <1>1 DEF CallType, PanelOK, Swap!ApprovalMined
  <2>2. form' = form /\ call' = c /\ UNCHANGED Swap!chain
    BY <1>1 DEF Swap!ApprovalMined
  <2>. HIDE DEF c
  <2>. QED BY <1>0, <2>1, <2>2, PageMoves
<1>2. CASE Swap!Succeeded
  <2>. DEFINE f == [form EXCEPT !.step = "complete", !.swapping = FALSE]
  <2>1. /\ form.step = "confirming" /\ txs[form.hash].status = "success"
        /\ form' = f /\ call' = call /\ UNCHANGED Swap!chain
    BY <1>2 DEF Swap!Succeeded, Swap!Receipt
  <2>2. call.at = "none"
    BY <1>0, <2>1 DEF PanelOK
  <2>3. f \in FormType /\ PanelOK(f, call, txs, sent)
    BY <1>0, <2>1, <2>2 DEF FormType, PanelOK
  <2>. HIDE DEF f
  <2>. QED BY <1>0, <2>1, <2>3, PageMoves
<1>3. CASE Swap!Failed \/ Swap!ReceiptLost
  <2>. DEFINE f == [Swap!Unlock(form) EXCEPT !.hash = Swap!NoHash]
  <2>1. form.step = "confirming" /\ form' = f /\ call' = call /\ UNCHANGED Swap!chain
    BY <1>3 DEF Swap!Failed, Swap!ReceiptLost, Swap!Receipt
  <2>2. call.at = "none"
    BY <1>0, <2>1 DEF PanelOK
  <2>3. f \in FormType /\ f.step = "idle"
    <3>. DEFINE e == Swap!Unlock(form)
                k == Swap!NoHash
    <3>1. e \in FormType /\ e.step = "idle" /\ k \in Int
      BY <1>0, NoCallType, UnlockType
    <3>2. f = [e EXCEPT !.hash = k]
      OBVIOUS
    <3>. HIDE DEF e, k, f
    <3>. QED BY <3>1, <3>2 DEF FormType
  <2>. HIDE DEF f
  <2>4. PanelOK(f, call, txs, sent)
    BY <2>2, <2>3 DEF PanelOK
  <2>. QED BY <1>0, <2>1, <2>3, <2>4, PageMoves
<1>4. CASE Swap!ResetFires
  <2>. DEFINE f == [form EXCEPT !.from = 0, !.step = "idle", !.hash = Swap!NoHash]
  <2>1. /\ f \in FormType /\ f.step = "idle"
        /\ f.swapping = form.swapping /\ f.txDir = form.txDir
    <3>. DEFINE k == Swap!NoHash
    <3>1. k \in Int /\ f = [form EXCEPT !.from = 0, !.step = "idle", !.hash = k]
      BY NoCallType
    <3>. DEFINE a == [form EXCEPT !.from = 0]
                b == [a EXCEPT !.step = "idle"]
    <3>. HIDE DEF f, k
    <3>2. a \in FormType /\ a.swapping = form.swapping /\ a.txDir = form.txDir
      BY <1>0 DEF FormType
    <3>. HIDE DEF a
    <3>3. b \in FormType /\ b.step = "idle" /\ b.swapping = a.swapping /\ b.txDir = a.txDir
      BY <3>2 DEF FormType
    <3>4. f = [b EXCEPT !.hash = k]
      BY <3>1 DEF a
    <3>. HIDE DEF b
    <3>. QED BY <3>1, <3>2, <3>3, <3>4 DEF FormType
  <2>2. form' = f /\ call' = call /\ UNCHANGED Swap!chain
    BY <1>4 DEF Swap!ResetFires
  <2>. HIDE DEF f
  <2>3. PanelOK(f, call, txs, sent)
    BY <1>0, <2>1 DEF PanelOK
  <2>. QED BY <1>0, <2>1, <2>2, <2>3, PageMoves
<1>5. CASE Swap!SwapFails
  <2>. DEFINE f == Swap!Unlock(form)
              c == Swap!NoCall
  <2>1. f \in FormType /\ f.step = "idle" /\ c \in CallType /\ c.at = "none"
    BY <1>0, NoCallType, UnlockType
  <2>2. form' = f /\ call' = c /\ UNCHANGED Swap!chain
    BY <1>5 DEF Swap!SwapFails
  <2>. HIDE DEF f, c
  <2>3. PanelOK(f, c, txs, sent)
    BY <2>1 DEF PanelOK
  <2>. QED BY <2>1, <2>2, <2>3, PageMoves
<1>. QED BY <1>1, <1>2, <1>3, <1>4, <1>5 DEF Swap!Page

LEMMA WalletKeeps ==
    ASSUME Swap!VendingAssumption, SwapInv, Swap!Wallet
    PROVE  SwapInv'
<1>. DEFINE s == sent + 1
<1>0. /\ form \in FormType /\ call \in CallType /\ PanelOK(form, call, txs, sent)
      /\ MaxTx \in Nat /\ sent \in 0..MaxTx /\ txs \in [1..MaxTx -> TxType]
  BY DEF SwapInv, Swap!VendingAssumption
<1>1. ASSUME NEW kind \in Kinds, Swap!Sign(kind)
      PROVE  /\ sent' = s /\ s \in 1..MaxTx /\ MoneyOK'
             /\ txs' \in [1..MaxTx -> TxType] /\ txs'[s].kind = kind
             /\ \A j \in 1..sent : txs'[j] = txs[j]
  <2>. DEFINE t == [kind |-> kind, amount |-> call.amount, status |-> "pending"]
  <2>1. s \in 1..MaxTx /\ sent' = s /\ txs' = [txs EXCEPT ![s] = t] /\ UNCHANGED Swap!money
    BY <1>0, <1>1 DEF Swap!Sign
  <2>2. t \in TxType /\ t.kind = kind
    BY <1>0 DEF TxType, CallType
  <2>. HIDE DEF t
  <2>3. MoneyOK'
    BY <2>1 DEF SwapInv, MoneyOK, Swap!Short, Swap!money
  <2>4. txs' \in [1..MaxTx -> TxType] /\ txs'[s] = t /\ \A j \in 1..sent : txs'[j] = txs[j]
    BY <1>0, <2>1, <2>2
  <2>. QED BY <2>1, <2>2, <2>3, <2>4
<1>2. CASE Swap!SignApproval
  <2>. DEFINE c == [call EXCEPT !.at = "receipt", !.tx = s]
  <2>1. Swap!Sign("approve") /\ call.at = "approve" /\ call' = c /\ form' = form
    BY <1>2 DEF Swap!SignApproval, Swap!Sign
  <2>2. /\ sent' = s /\ s \in 1..MaxTx /\ MoneyOK'
        /\ txs' \in [1..MaxTx -> TxType] /\ \A j \in 1..sent : txs'[j] = txs[j]
    BY <1>1, <2>1 DEF Kinds
  <2>3. c \in CallType /\ c.at = "receipt" /\ c.dir = call.dir
    <3>1. s \in Int
      BY <1>0
    <3>. HIDE DEF s
    <3>. QED BY <1>0, <3>1 DEF CallType
  <2>. HIDE DEF c
  <2>4. PanelOK(form, c, txs', s)
    BY <1>0, <2>1, <2>2, <2>3 DEF PanelOK
  <2>. QED BY <1>0, <2>1, <2>2, <2>3, <2>4 DEF SwapInv
<1>3. CASE Swap!SignSwap
  <2>. DEFINE f == [form EXCEPT !.step = "confirming", !.hash = s]
  <2>1. Swap!Sign(call.dir) /\ call.at = "swap" /\ call' = Swap!NoCall /\ form' = f
    BY <1>3 DEF Swap!SignSwap, Swap!Sign
  <2>2. /\ sent' = s /\ s \in 1..MaxTx /\ MoneyOK'
        /\ txs' \in [1..MaxTx -> TxType] /\ txs'[s].kind = call.dir
    BY <1>0, <1>1, <2>1 DEF Kinds, CallType, Dirs
  <2>3. /\ f \in FormType /\ f.step = "confirming" /\ f.hash = s /\ f.txDir = form.txDir
    <3>1. s \in Int
      BY <1>0
    <3>. HIDE DEF s
    <3>. QED BY <1>0, <3>1 DEF FormType
  <2>4. Swap!NoCall \in CallType /\ Swap!NoCall.at = "none"
    BY DEF Swap!NoCall, CallType, Dirs, Swap!NoHash
  <2>5. form.txDir = call.dir
    BY <1>0, <2>1 DEF PanelOK
  <2>. HIDE DEF f
  <2>6. PanelOK(f, Swap!NoCall, txs', s)
    BY <1>0, <2>2, <2>3, <2>4, <2>5 DEF PanelOK
  <2>. QED BY <1>0, <2>1, <2>2, <2>3, <2>4, <2>6 DEF SwapInv
<1>. QED BY <1>2, <1>3 DEF Swap!Wallet

LEMMA OwnerKeeps ==
    ASSUME Swap!VendingAssumption, SwapInv,
           Swap!OwnerMint \/ Swap!Rescue \/ Swap!Gift \/ Swap!OtherSells
    PROVE  SwapInv'
<1>1. UNCHANGED <<txs, sent, form, call, timers, dropped>>
  BY DEF Swap!OwnerMint, Swap!Rescue, Swap!Gift, Swap!OtherSells, Swap!page
<1>. QED BY <1>1, OwnerKeepsMoney DEF SwapInv, PanelOK

LEMMA SwapInductive ==
    ASSUME Swap!VendingAssumption
    PROVE  SwapInv /\ [Swap!Next]_(Swap!vars) => SwapInv'
<1>. SUFFICES ASSUME SwapInv, [Swap!Next]_(Swap!vars) PROVE SwapInv'
  OBVIOUS
<1>1. CASE UNCHANGED Swap!vars
  BY <1>1 DEF Swap!vars, Swap!money, Swap!page, SwapInv, MoneyOK, Swap!Short, PanelOK
<1>2. CASE Swap!Mined
  BY <1>2, MineKeepsPage DEF Swap!Mined
<1>. QED BY <1>1, <1>2, UserKeeps, EffectsKeep, WalletKeeps, OwnerKeeps DEF Swap!Next

LEMMA SwapInvariant == Swap!VendingAssumption => (Swap!Spec => []SwapInv)
<1>. SUFFICES ASSUME Swap!VendingAssumption PROVE Swap!Spec => []SwapInv
  OBVIOUS
<1>1. Swap!Init => SwapInv
  BY SwapInit
<1>2. SwapInv /\ [Swap!Next]_(Swap!vars) => SwapInv'
  BY SwapInductive
<1>. QED BY <1>1, <1>2, PTL DEF Swap!Spec

LEMMA MoneyBacked == MoneyOK => Swap!Backed
<1>. SUFFICES ASSUME MoneyOK, rescued = 0, others >= minted PROVE usdf <= usdt["machine"]
  BY DEF MoneyOK, Swap!Backed
<1>1. usdt["machine"] \in Int
  BY DEF MoneyOK, Hands
<1>. QED BY <1>1 DEF MoneyOK, Swap!Short

(* For any fees and amounts and any order of purchases, sales, mints, gifts  *)
(* and rescues, no trade adds to what the machine would lack if every holder *)
(* of USDF sold: it is at most what the owner minted without payment and     *)
(* took out.  While nothing was taken out and other holders still have as    *)
(* much as was minted, the machine can pay the page's user (USDF_Mainnet.sol).*)
THEOREM SalesStayBacked == Swap!VendingAssumption => (Swap!Spec => []Swap!Backed)
<1>1. SwapInv => Swap!Backed
  BY MoneyBacked DEF SwapInv
<1>. QED BY <1>1, SwapInvariant, PTL

(* However the form is reversed, reset and used again while transactions are *)
(* under way, its success panel stands over a transaction that succeeded, of *)
(* the direction that it names (app/swap/page.tsx).                          *)
THEOREM PanelStaysTrue == Swap!VendingAssumption => (Swap!Spec => []Swap!PanelTrue)
<1>1. SwapInv => Swap!PanelTrue
  BY DEF SwapInv, PanelOK, Swap!PanelTrue
<1>. QED BY <1>1, SwapInvariant, PTL
-----------------------------------------------------------------------------
(* The tape of a market's page. *)

LEMMA PagesConstants ==
    Swap!VendingAssumption /\ Tape!TapeAssumption /\ Mine!HoldingsAssumption
BY PagesAssumption

Below(s, n) == s \in Seq(Nat) /\ \A i \in 1..Len(s) : s[i] <= n
Once(s) == \A i, j \in 1..Len(s) : s[i] = s[j] => i = j

(* A set of numbers that is not empty has a least one. *)
LEMMA LeastOf ==
    ASSUME NEW S \in SUBSET Nat, S # {}
    PROVE  \E n \in S : \A m \in S : n <= m
<1>. DEFINE R == OpToRel(<, Nat)
<1>1. \E x \in S : \A y \in S : ~(<<y, x>> \in R)
  BY NatLessThanWellFounded, WFMin
<1>2. \A x, y \in Nat : <<y, x>> \in R <=> y < x
  BY DEF OpToRel
<1>3. PICK x \in S : \A y \in S : ~(y < x)
  BY <1>1, <1>2
<1>4. \A y \in S : x <= y
  BY <1>3
<1>. QED BY <1>4

\* What Distinct has kept of the first rows, row by row.
KeptStep(rows, f, i) ==
    IF i = 0 THEN <<>>
    ELSE IF \E k \in 1..Len(f[i - 1]) : f[i - 1][k] = rows[i] THEN f[i - 1]
    ELSE Append(f[i - 1], rows[i])
IsKept(rows, n, f) == f = [i \in 0..n |-> KeptStep(rows, f, i)]

(* There is such a function, for any rows. *)
LEMMA KeptExists ==
    ASSUME NEW rows \in Seq(Nat), NEW n \in Nat
    PROVE  \E f : IsKept(rows, n, f)
<1>. DEFINE Bad == {m \in Nat : ~\E f : IsKept(rows, m, f)}
<1>1. SUFFICES ASSUME Bad # {} PROVE FALSE
  OBVIOUS
<1>2. PICK m \in Bad : \A k \in Bad : m <= k
  BY <1>1, LeastOf
<1>3. m # 0
  <2>. DEFINE f == [i \in 0..0 |-> <<>>]
  <2>1. IsKept(rows, 0, f)
    BY DEF IsKept, KeptStep
  <2>. QED BY <1>2, <2>1
<1>4. m - 1 \in Nat /\ m - 1 \notin Bad
  BY <1>2, <1>3
<1>5. PICK f : IsKept(rows, m - 1, f)
  BY <1>4
<1>. DEFINE g == [i \in 0..m |-> IF i < m THEN f[i] ELSE KeptStep(rows, f, m)]
<1>6. ASSUME NEW i \in 0..m PROVE g[i] = KeptStep(rows, g, i)
  <2>1. i # 0 => g[i - 1] = f[i - 1]
    OBVIOUS
  <2>2. KeptStep(rows, g, i) = KeptStep(rows, f, i)
    <3>. HIDE DEF g
    <3>. QED BY <2>1 DEF KeptStep
  <2>3. i < m => f[i] = KeptStep(rows, f, i)
    <3>1. ASSUME i < m PROVE i \in 0..(m - 1)
      BY <1>4, <3>1
    <3>. QED BY <1>5, <3>1 DEF IsKept
  <2>. QED BY <2>2, <2>3
<1>7. g = [i \in 0..m |-> KeptStep(rows, g, i)]
  BY <1>6
<1>. HIDE DEF g
<1>8. IsKept(rows, m, g)
  BY <1>7 DEF IsKept
<1>. QED BY <1>2, <1>8

(* What was kept has each row once and no other, whatever came twice. *)
LEMMA DistinctOnce ==
    ASSUME NEW rows, NEW n \in Nat, Below(rows, n)
    PROVE  Below(Tape!Distinct(rows), n) /\ Once(Tape!Distinct(rows))
<1>. DEFINE kept == CHOOSE f : IsKept(rows, Len(rows), f)
<1>1. rows \in Seq(Nat) /\ Len(rows) \in Nat /\ \A i \in 1..Len(rows) : rows[i] \in Nat /\ rows[i] <= n
  BY DEF Below
<1>2. IsKept(rows, Len(rows), kept)
  BY <1>1, KeptExists
<1>3. Tape!Distinct(rows) = kept[Len(rows)]
  BY DEF Tape!Distinct, IsKept, KeptStep
<1>. HIDE DEF kept
<1>. DEFINE Good(s) == Below(s, n) /\ Once(s)
            Bad == {i \in 0..Len(rows) : ~Good(kept[i])}
<1>4. SUFFICES ASSUME Bad # {} PROVE FALSE
  BY <1>1, <1>3
<1>. HIDE DEF Good
<1>a. Bad \in SUBSET Nat
  BY <1>1
<1>5. PICK i \in Bad : \A k \in Bad : i <= k
  BY <1>4, <1>a, LeastOf
<1>6. kept[i] = KeptStep(rows, kept, i)
  BY <1>2 DEF IsKept
<1>b. Good(<<>>)
  BY DEF Good, Below, Once
<1>7. i # 0
  BY <1>5, <1>6, <1>b DEF KeptStep
<1>8. Good(kept[i - 1])
  BY <1>1, <1>5, <1>7
<1>. USE DEF Good
<1>. DEFINE s == kept[i - 1]
<1>9. rows[i] \in Nat /\ rows[i] <= n
  BY <1>1, <1>5, <1>7
<1>10. Good(kept[i])
  <2>. HIDE DEF s
  <2>1. s \in Seq(Nat) /\ Len(s) \in Nat
    BY <1>8 DEF Below, s
  <2>2. CASE \E k \in 1..Len(s) : s[k] = rows[i]
    BY <2>2, <1>6, <1>7, <1>8 DEF KeptStep, s
  <2>3. CASE ~\E k \in 1..Len(s) : s[k] = rows[i]
    <3>1. kept[i] = Append(s, rows[i])
      BY <2>3, <1>6, <1>7 DEF KeptStep, s
    <3>2. /\ Append(s, rows[i]) \in Seq(Nat) /\ Len(Append(s, rows[i])) = Len(s) + 1
          /\ \A k \in 1..Len(s) : Append(s, rows[i])[k] = s[k]
          /\ Append(s, rows[i])[Len(s) + 1] = rows[i]
      BY <2>1, <1>9
    <3>3. Below(kept[i], n)
      BY <3>1, <3>2, <2>1, <1>8, <1>9 DEF Below, s
    <3>4. Once(kept[i])
      BY <3>1, <3>2, <2>1, <2>3, <1>8 DEF Once, s
    <3>. QED BY <3>3, <3>4
  <2>. QED BY <2>2, <2>3
<1>. QED BY <1>5, <1>10

(* The newest trades, a summary's rows. *)
LEMMA NewestOnce ==
    ASSUME NEW n \in Nat
    PROVE  Below(Tape!Newest(n), n) /\ Once(Tape!Newest(n))
<1>. DEFINE k == IF n < Rows THEN n ELSE Rows
<1>1. k \in Nat /\ k <= n
  BY PagesConstants DEF Tape!TapeAssumption
<1>2. Tape!Newest(n) = [i \in 1..k |-> n + 1 - i]
  BY DEF Tape!Newest
<1>. HIDE DEF k
<1>3. \A i \in 1..k : n + 1 - i \in Nat /\ n + 1 - i <= n
  BY <1>1
<1>4. Tape!Newest(n) \in Seq(Nat) /\ Len(Tape!Newest(n)) = k
  <2>1. Tape!Newest(n) \in [1..k -> Nat]
    BY <1>2, <1>3
  <2>. QED BY <1>1, <2>1
<1>5. \A i \in 1..k : Tape!Newest(n)[i] = n + 1 - i
  BY <1>2
<1>. HIDE DEF k
<1>. QED BY <1>1, <1>3, <1>4, <1>5 DEF Below, Once

LEMMA ConcatBelow ==
    ASSUME NEW s, NEW t, NEW n, Below(s, n), Below(t, n)
    PROVE  Below(s \o t, n)
<1>1. s \in Seq(Nat) /\ t \in Seq(Nat) /\ s \o t \in Seq(Nat) /\ Len(s \o t) = Len(s) + Len(t)
  BY DEF Below
<1>2. \A i \in 1..(Len(s) + Len(t)) : (s \o t)[i] = IF i <= Len(s) THEN s[i] ELSE t[i - Len(s)]
  BY <1>1
<1>3. ASSUME NEW i \in 1..Len(s \o t) PROVE (s \o t)[i] <= n
  <2>1. i \in 1..(Len(s) + Len(t)) /\ Len(s) \in Nat /\ Len(t) \in Nat
    BY <1>1
  <2>2. i <= Len(s) => i \in 1..Len(s)
    BY <2>1
  <2>3. ~(i <= Len(s)) => i - Len(s) \in 1..Len(t)
    BY <2>1
  <2>. QED BY <1>2, <2>1, <2>2, <2>3 DEF Below
<1>. QED BY <1>1, <1>3 DEF Below

LEMMA FirstOnce ==
    ASSUME NEW s, NEW n, Below(s, n), Once(s), NEW k \in 0..Len(s)
    PROVE  Below(SubSeq(s, 1, k), n) /\ Once(SubSeq(s, 1, k))
<1>1. s \in Seq(Nat) /\ Len(s) \in Nat
  BY DEF Below
<1>. DEFINE t == SubSeq(s, 1, k)
<1>2. t \in Seq(Nat) /\ Len(t) = k /\ \A i \in 1..k : t[i] = s[i]
  BY <1>1
<1>3. \A i \in 1..k : i \in 1..Len(s)
  BY <1>1
<1>. HIDE DEF t
<1>4. Below(t, n)
  BY <1>2, <1>3 DEF Below
<1>5. Once(t)
  BY <1>2, <1>3 DEF Once
<1>. QED BY <1>4, <1>5 DEF t

\* The tape and what is on its way to it, for what the server has.
TapeOK(d, w, a, p) ==
    /\ d \in [rows : Nat, sent : Nat, indexed : BOOLEAN, resolved : BOOLEAN, answer : BOOLEAN]
    /\ d.sent <= d.rows /\ (d.answer => d.resolved)
    /\ Below(w.wire, d.rows)
    /\ a \in [Slots -> [at : {"free", "asked", "sent"}, resolved : BOOLEAN, trades : Seq(Nat)]]
    /\ \A s \in Slots : /\ a[s].resolved => d.resolved
                        /\ Below(a[s].trades, d.rows) /\ Once(a[s].trades)
    /\ p.banner => d.resolved
    /\ Below(p.buffer, d.rows) /\ Below(p.tape, d.rows) /\ Once(p.tape)

Streams == [at : {"closed", "opening", "head", "on", "cut", "dead"}, wire : Seq(Nat)]
Tapes == [tape : Seq(Nat), buffer : Seq(Nat), status : {"none", "active", "resolved"},
          banner : BOOLEAN, connected : BOOLEAN]

TapeInv ==
    /\ stream \in Streams /\ page \in Tapes
    /\ TapeOK(db, stream, asks, page)

Servers == [rows : Nat, sent : Nat, indexed : BOOLEAN, resolved : BOOLEAN, answer : BOOLEAN]
Answers == [at : {"free", "asked", "sent"}, resolved : BOOLEAN, trades : Seq(Nat)]

LEMMA EmptyOnce == ASSUME NEW n PROVE Below(<<>>, n) /\ Once(<<>>)
BY DEF Below, Once

(* Rows and resolutions stay, so what was true of less is true of more.      *)
LEMMA ServerGrows ==
    ASSUME TapeInv, NEW d \in Servers, db.rows <= d.rows, db.resolved => d.resolved,
           d.sent <= d.rows, d.answer => d.resolved
    PROVE  TapeOK(d, stream, asks, page)
<1>1. db.rows \in Nat /\ d.rows \in Nat
  BY DEF TapeInv, TapeOK, Servers
<1>2. ASSUME NEW s, Below(s, db.rows) PROVE Below(s, d.rows)
  <2>1. \A i \in 1..Len(s) : s[i] \in Nat
    BY <1>2 DEF Below
  <2>. QED BY <1>1, <1>2, <2>1 DEF Below
<1>. QED BY <1>2 DEF TapeInv, TapeOK, Servers

(* One summary that changes.                                                 *)
LEMMA AnswerChanges ==
    ASSUME TapeInv, NEW s \in Slots, NEW r \in Answers,
           r.resolved => db.resolved, Below(r.trades, db.rows), Once(r.trades)
    PROVE  TapeOK(db, stream, [asks EXCEPT ![s] = r], page)
BY DEF TapeInv, TapeOK, Answers

LEMMA AskedKeeps ==
    ASSUME TapeInv, Tape!Asked
    PROVE  TapeOK(db, stream, asks', page)
<1>. PICK s \in Slots : asks' = [asks EXCEPT ![s] = [@ EXCEPT !.at = "asked", !.resolved = db.resolved]]
  BY DEF Tape!Asked
<1>. DEFINE a == [asks[s] EXCEPT !.at = "asked"]
            r == [a EXCEPT !.resolved = db.resolved]
<1>1. asks[s] \in Answers /\ Below(asks[s].trades, db.rows) /\ Once(asks[s].trades)
      /\ db.resolved \in BOOLEAN
  BY DEF TapeInv, TapeOK, Answers
<1>2. a \in Answers /\ a.trades = asks[s].trades
  BY <1>1 DEF Answers
<1>. HIDE DEF a
<1>3. r \in Answers /\ r.trades = asks[s].trades /\ r.resolved = db.resolved
  BY <1>1, <1>2 DEF Answers
<1>. HIDE DEF r
<1>4. TapeOK(db, stream, [asks EXCEPT ![s] = r], page)
  BY <1>1, <1>3, AnswerChanges
<1>5. asks' = [asks EXCEPT ![s] = r]
  BY DEF a, r
<1>. QED BY <1>4, <1>5

(* An event reaches those who are subscribed.                                *)
LEMMA SendKeeps ==
    ASSUME TapeInv, NEW e \in 0..db.rows, Tape!Send(e)
    PROVE  stream' \in Streams /\ TapeOK(db, stream', asks, page)
<1>1. e \in Nat /\ db.rows \in Nat /\ e <= db.rows
  BY DEF TapeInv, TapeOK
<1>2. CASE stream.at = "on"
  <2>. DEFINE w == Append(stream.wire, e)
              n == [stream EXCEPT !.wire = w]
  <2>1. stream.wire \in Seq(Nat) /\ \A i \in 1..Len(stream.wire) : stream.wire[i] <= db.rows
    BY DEF TapeInv, TapeOK, Below
  <2>2. /\ w \in Seq(Nat) /\ Len(w) = Len(stream.wire) + 1
        /\ \A i \in 1..Len(stream.wire) : w[i] = stream.wire[i]
        /\ w[Len(stream.wire) + 1] = e
    BY <1>1, <2>1
  <2>3. Below(w, db.rows)
    BY <1>1, <2>1, <2>2 DEF Below
  <2>4. stream' = n
    BY <1>2 DEF Tape!Send
  <2>. HIDE DEF w
  <2>5. n \in Streams /\ n.wire = w
    BY <2>2 DEF TapeInv, Streams
  <2>. HIDE DEF n
  <2>. QED BY <2>3, <2>4, <2>5 DEF TapeInv, TapeOK
<1>3. CASE stream.at # "on"
  BY <1>3 DEF Tape!Send, TapeInv
<1>. QED BY <1>2, <1>3

LEMMA ServerKeepsTape ==
    ASSUME TapeInv, Tape!Server \/ Tape!TradeIndexed \/ Tape!RowResolved
    PROVE  TapeInv'
<1>. db \in Servers /\ stream \in Streams /\ page \in Tapes /\ db.rows \in Nat /\ db.sent \in Nat
  BY DEF TapeInv, TapeOK, Servers
<1>1. CASE Tape!PublishTrade
  <2>1. Tape!Send(db.rows) /\ db' = [db EXCEPT !.sent = db.rows] /\ asks' = asks /\ page' = page
    BY <1>1 DEF Tape!PublishTrade
  <2>2. stream' \in Streams /\ TapeOK(db, stream', asks, page)
    BY <2>1, SendKeeps
  <2>3. db' \in Servers /\ db'.sent = db.rows /\ db'.rows = db.rows /\ db'.resolved = db.resolved
        /\ db'.answer = db.answer
    BY <2>1 DEF Servers
  <2>. QED BY <2>1, <2>2, <2>3 DEF TapeInv, TapeOK, Servers
<1>2. CASE Tape!PublishIndexed
  <2>1. Tape!Send(0) /\ db' = [db EXCEPT !.indexed = TRUE] /\ asks' = asks /\ page' = page
    BY <1>2 DEF Tape!PublishIndexed
  <2>2. stream' \in Streams /\ TapeOK(db, stream', asks, page)
    BY <2>1, SendKeeps
  <2>3. db' \in Servers /\ db'.sent = db.sent /\ db'.rows = db.rows /\ db'.resolved = db.resolved
        /\ db'.answer = db.answer
    BY <2>1 DEF Servers
  <2>. QED BY <2>1, <2>2, <2>3 DEF TapeInv, TapeOK, Servers
<1>3. CASE Tape!Subscribed
  <2>1. stream' = [stream EXCEPT !.at = "on"] /\ UNCHANGED <<db, asks, page>>
    BY <1>3 DEF Tape!Subscribed
  <2>2. stream' \in Streams /\ stream'.wire = stream.wire
    BY <2>1 DEF Streams
  <2>. QED BY <2>1, <2>2 DEF TapeInv, TapeOK
<1>4. CASE Tape!TradeIndexed
  <2>. DEFINE n == db.rows + 1
              a == [db EXCEPT !.rows = n]
              d == [a EXCEPT !.indexed = FALSE]
  <2>1. db' = d /\ UNCHANGED <<stream, asks, page>>
    BY <1>4 DEF Tape!TradeIndexed
  <2>0. n \in Nat /\ n = db.rows + 1
    OBVIOUS
  <2>. HIDE DEF n
  <2>5. a \in Servers /\ a.rows = n /\ a.sent = db.sent /\ a.resolved = db.resolved
        /\ a.answer = db.answer
    BY <2>0 DEF Servers
  <2>. HIDE DEF a
  <2>2. d \in Servers /\ d.rows = db.rows + 1 /\ d.sent = db.sent /\ d.resolved = db.resolved
        /\ d.answer = db.answer
    BY <2>0, <2>5 DEF Servers
  <2>. HIDE DEF d
  <2>3. d.sent <= d.rows /\ (d.answer => d.resolved)
    BY <2>2 DEF TapeInv, TapeOK
  <2>4. TapeOK(d, stream, asks, page)
    BY <2>2, <2>3, ServerGrows
  <2>. QED BY <2>1, <2>4 DEF TapeInv
<1>5. CASE Tape!RowResolved
  <2>. PICK here \in BOOLEAN : db' = [db EXCEPT !.resolved = TRUE, !.answer = here]
    BY <1>5 DEF Tape!RowResolved
  <2>. DEFINE a == [db EXCEPT !.resolved = TRUE]
              d == [a EXCEPT !.answer = here]
  <2>1. db' = d /\ UNCHANGED <<stream, asks, page>>
    BY <1>5 DEF Tape!RowResolved
  <2>2. a \in Servers /\ a.rows = db.rows /\ a.sent = db.sent /\ a.resolved = TRUE
    BY DEF Servers
  <2>. HIDE DEF a
  <2>3. d \in Servers /\ d.rows = db.rows /\ d.sent = db.sent /\ d.resolved = TRUE
    BY <2>2 DEF Servers
  <2>. HIDE DEF d
  <2>4. TapeOK(d, stream, asks, page)
    <3>1. d.sent <= d.rows /\ db.rows <= d.rows
      BY <2>3 DEF TapeInv, TapeOK
    <3>. QED BY <2>3, <3>1, ServerGrows
  <2>. QED BY <2>1, <2>4 DEF TapeInv
<1>. QED BY <1>1, <1>2, <1>3, <1>4, <1>5 DEF Tape!Server

LEMMA SummariesKeepTape ==
    ASSUME TapeInv, NEW s \in Slots, Tape!Summary(s) \/ Tape!AnswerLost(s)
    PROVE  TapeInv'
<1>. db.rows \in Nat /\ asks[s] \in Answers /\ stream \in Streams /\ page \in Tapes
     /\ (asks[s].resolved => db.resolved)
  BY DEF TapeInv, TapeOK, Answers
<1>1. Tape!Free \in Answers /\ ~Tape!Free.resolved /\ Below(Tape!Free.trades, db.rows)
      /\ Once(Tape!Free.trades)
  BY EmptyOnce DEF Tape!Free, Answers
<1>2. CASE Tape!ReadTrades(s)
  <2>1. UNCHANGED <<db, stream, page>>
    BY <1>2 DEF Tape!ReadTrades
  <2>. DEFINE a == [asks[s] EXCEPT !.at = "sent"]
              r == [a EXCEPT !.trades = Tape!Newest(db.rows)]
  <2>2. asks' = [asks EXCEPT ![s] = r] \/ asks' = [asks EXCEPT ![s] = a]
    <3>1. CASE asks' = [asks EXCEPT ![s] = [@ EXCEPT !.at = "sent", !.trades = Tape!Newest(db.rows)]]
      BY <3>1
    <3>2. CASE asks' = [asks EXCEPT ![s].at = "sent"]
      BY <3>2
    <3>. QED BY <1>2, <3>1, <3>2 DEF Tape!ReadTrades
  <2>3. a \in Answers /\ a.trades = asks[s].trades /\ a.resolved = asks[s].resolved
    BY DEF Answers
  <2>. HIDE DEF a
  <2>4. Below(Tape!Newest(db.rows), db.rows) /\ Once(Tape!Newest(db.rows))
    BY NewestOnce
  <2>5. r \in Answers /\ r.trades = Tape!Newest(db.rows) /\ r.resolved = asks[s].resolved
    BY <2>3, <2>4 DEF Answers, Below
  <2>. HIDE DEF r
  <2>6. TapeOK(db, stream, [asks EXCEPT ![s] = r], page)
    BY <2>4, <2>5, AnswerChanges
  <2>7. Below(a.trades, db.rows) /\ Once(a.trades)
    BY <2>3 DEF TapeInv, TapeOK
  <2>8. TapeOK(db, stream, [asks EXCEPT ![s] = a], page)
    BY <2>3, <2>7, AnswerChanges
  <2>. QED BY <2>1, <2>2, <2>6, <2>8 DEF TapeInv
<1>3. CASE Tape!Answer(s)
  <2>1. /\ asks' = [asks EXCEPT ![s] = Tape!Free] /\ UNCHANGED <<db, stream>>
        /\ page' = [page EXCEPT !.tape = asks[s].trades,
                         !.status = IF asks[s].resolved THEN "resolved" ELSE "active",
                         !.banner = @ \/ asks[s].resolved]
    BY <1>3 DEF Tape!Answer, Tape!ApplySummary
  <2>2. TapeOK(db, stream, asks', page)
    BY <1>1, <2>1, AnswerChanges
  <2>. DEFINE st == IF asks[s].resolved THEN "resolved" ELSE "active"
              b == page.banner \/ asks[s].resolved
              p1 == [page EXCEPT !.tape = asks[s].trades]
              p2 == [p1 EXCEPT !.status = st]
              p3 == [p2 EXCEPT !.banner = b]
  <2>3. page' = p3
    BY <2>1
  <2>4. p1 \in Tapes /\ p1.tape = asks[s].trades /\ p1.buffer = page.buffer /\ p1.banner = page.banner
    BY DEF Answers, Tapes
  <2>5. st \in {"none", "active", "resolved"} /\ b \in BOOLEAN /\ (b => db.resolved)
    BY DEF Tapes, Answers, TapeInv, TapeOK
  <2>. HIDE DEF p1, st, b
  <2>6. p2 \in Tapes /\ p2.tape = asks[s].trades /\ p2.buffer = page.buffer
    BY <2>4, <2>5 DEF Tapes
  <2>. HIDE DEF p2
  <2>7. p3 \in Tapes /\ p3.tape = asks[s].trades /\ p3.buffer = page.buffer /\ p3.banner = b
    BY <2>5, <2>6 DEF Tapes
  <2>. HIDE DEF p3
  <2>8. Below(asks[s].trades, db.rows) /\ Once(asks[s].trades)
    BY DEF TapeInv, TapeOK
  <2>. QED BY <2>1, <2>2, <2>3, <2>5, <2>7, <2>8 DEF TapeInv, TapeOK
<1>4. CASE Tape!AnswerLost(s)
  <2>1. asks' = [asks EXCEPT ![s] = Tape!Free] /\ UNCHANGED <<db, stream, page>>
    BY <1>4 DEF Tape!AnswerLost
  <2>2. TapeOK(db, stream, asks', page)
    BY <1>1, <2>1, AnswerChanges
  <2>. QED BY <2>1, <2>2 DEF TapeInv
<1>. QED BY <1>2, <1>3, <1>4 DEF Tape!Summary

(* The stream opens, breaks and is opened again: what was on it is lost.     *)
LEMMA StreamKeepsTape ==
    ASSUME TapeInv,
           \/ Tape!Mount \/ Tape!StreamOpens \/ Tape!StreamRefused
           \/ Tape!StreamCut \/ Tape!StreamError \/ Tape!Reopen
    PROVE  TapeInv'
<1>. stream \in Streams /\ page \in Tapes
  BY DEF TapeInv
<1>1. db' = db
  BY DEF Tape!Mount, Tape!StreamOpens, Tape!StreamRefused, Tape!StreamCut, Tape!StreamError,
         Tape!Reopen
<1>2. TapeOK(db, stream, asks', page)
  <2>1. CASE Tape!Mount
    BY <2>1, AskedKeeps DEF Tape!Mount
  <2>2. CASE asks' = asks
    BY <2>2 DEF TapeInv
  <2>. QED BY <2>1, <2>2 DEF Tape!StreamOpens, Tape!StreamRefused, Tape!StreamCut,
              Tape!StreamError, Tape!Reopen
<1>3. stream' \in Streams /\ (stream'.wire = stream.wire \/ stream'.wire = <<>>)
  <2>. DEFINE Ats == {"closed", "opening", "head", "on", "cut", "dead"}
  <2>1. \E x \in Ats : stream' = [stream EXCEPT !.at = x] \/ stream' = [at |-> x, wire |-> <<>>]
    BY DEF Tape!Mount, Tape!StreamOpens, Tape!StreamRefused, Tape!StreamCut, Tape!StreamError,
           Tape!Reopen
  <2>2. PICK x \in Ats : stream' = [stream EXCEPT !.at = x] \/ stream' = [at |-> x, wire |-> <<>>]
    BY <2>1
  <2>3. <<>> \in Seq(Nat)
    OBVIOUS
  <2>4. CASE stream' = [stream EXCEPT !.at = x]
    BY <2>4 DEF Streams
  <2>5. CASE stream' = [at |-> x, wire |-> <<>>]
    <3>. HIDE DEF Ats
    <3>1. stream'.wire = <<>>
      BY <2>5
    <3>2. x \in {"closed", "opening", "head", "on", "cut", "dead"}
      BY DEF Ats
    <3>. QED BY <2>5, <2>3, <3>1, <3>2 DEF Streams
  <2>. QED BY <2>2, <2>4, <2>5
<1>4. page' = page \/ \E b \in BOOLEAN : page' = [page EXCEPT !.connected = b]
  BY DEF Tape!Mount, Tape!StreamOpens, Tape!StreamRefused, Tape!StreamCut, Tape!StreamError,
         Tape!Reopen
<1>5. page' \in Tapes /\ page'.tape = page.tape /\ page'.buffer = page.buffer
      /\ page'.banner = page.banner
  BY <1>4 DEF Tapes
<1>. QED BY <1>1, <1>2, <1>3, <1>5, EmptyOnce DEF TapeInv, TapeOK

LEMMA ThrottledKeeps ==
    ASSUME TapeInv, Tape!Throttled
    PROVE  TapeOK(db, stream, asks', page)
BY AskedKeeps DEF Tape!Throttled, TapeInv

(* The page hears of a trade, puts what it heard before its tape, or asks.   *)
LEMMA ClientKeepsTape ==
    ASSUME TapeInv,
           Tape!Client \/ Tape!Poll \/ Tape!HandleRetry \/ Tape!HandleResolve
    PROVE  TapeInv'
<1>. stream \in Streams /\ page \in Tapes /\ db \in Servers /\ db.rows \in Nat
  BY DEF TapeInv, TapeOK, Servers
<1>1. CASE Tape!Poll \/ Tape!HandleRetry
  <2>1. Tape!Asked /\ UNCHANGED <<db, stream, page>>
    BY <1>1 DEF Tape!Poll, Tape!HandleRetry
  <2>. QED BY <2>1, AskedKeeps DEF TapeInv
<1>2. CASE Tape!HandleResolve
  <2>1. /\ Tape!Asked /\ stream' = stream /\ db.answer
        /\ db' = [db EXCEPT !.answer = FALSE]
        /\ page' = [page EXCEPT !.status = "resolved", !.banner = TRUE]
    BY <1>2 DEF Tape!HandleResolve
  <2>2. TapeOK(db, stream, asks', page) /\ db.resolved
    BY <2>1, AskedKeeps DEF TapeInv, TapeOK
  <2>3. db' \in Servers /\ db'.rows = db.rows /\ db'.sent = db.sent
        /\ db'.resolved = db.resolved /\ ~db'.answer
    BY <2>1 DEF Servers
  <2>. DEFINE p1 == [page EXCEPT !.status = "resolved"]
              p2 == [p1 EXCEPT !.banner = TRUE]
  <2>4. page' = p2
    BY <2>1
  <2>5. p1 \in Tapes /\ p1.tape = page.tape /\ p1.buffer = page.buffer
    BY DEF Tapes
  <2>. HIDE DEF p1
  <2>6. p2 \in Tapes /\ p2.tape = page.tape /\ p2.buffer = page.buffer
    BY <2>5 DEF Tapes
  <2>. HIDE DEF p2
  <2>. QED BY <2>1, <2>2, <2>3, <2>4, <2>6 DEF TapeInv, TapeOK, Servers
<1>3. CASE Tape!Deliver
  <2>1. stream.wire # <<>> /\ db' = db /\ stream' = [stream EXCEPT !.wire = Tail(@)]
    BY <1>3 DEF Tape!Deliver
  <2>. DEFINE w == stream.wire
  <2>2. w \in Seq(Nat) /\ w # <<>> /\ \A i \in 1..Len(w) : w[i] <= db.rows
    BY <2>1 DEF TapeInv, TapeOK, Below
  <2>3. /\ Head(w) \in Nat /\ Head(w) <= db.rows /\ Tail(w) \in Seq(Nat)
        /\ Len(Tail(w)) = Len(w) - 1 /\ \A i \in 1..(Len(w) - 1) : Tail(w)[i] = w[i + 1]
    BY <2>2
  <2>4. Below(Tail(w), db.rows)
    <3>1. \A i \in 1..(Len(w) - 1) : i + 1 \in 1..Len(w)
      BY <2>2
    <3>. QED BY <2>2, <2>3, <3>1 DEF Below
  <2>5. stream' \in Streams /\ stream'.wire = Tail(w)
    <3>. HIDE DEF w
    <3>1. stream' = [stream EXCEPT !.wire = Tail(w)]
      BY <2>1 DEF w
    <3>. QED BY <2>3, <3>1 DEF Streams
  <2>. DEFINE t == Head(w)
  <2>6. Tape!OnTrade(t) \/ Tape!OnIndexed(t)
    BY <1>3 DEF Tape!Deliver
  <2>. HIDE DEF t, w
  <2>7. TapeOK(db, stream, asks', page)
    BY <2>6, ThrottledKeeps DEF Tape!OnTrade, Tape!OnIndexed
  <2>8. CASE Tape!OnTrade(t)
    <3>. DEFINE b == <<t>> \o page.buffer
    <3>1. t \in Nat /\ t <= db.rows /\ Below(page.buffer, db.rows)
      BY <2>3 DEF TapeInv, TapeOK, t
    <3>2. Below(<<t>>, db.rows)
      BY <3>1 DEF Below
    <3>3. Below(b, db.rows) /\ b \in Seq(Nat)
      BY <3>1, <3>2, ConcatBelow DEF Below
    <3>4. page' = [page EXCEPT !.buffer = b]
      BY <2>8 DEF Tape!OnTrade
    <3>. HIDE DEF b
    <3>5. page' \in Tapes /\ page'.tape = page.tape /\ page'.buffer = b /\ page'.banner = page.banner
      BY <3>3, <3>4 DEF Tapes
    <3>. QED BY <2>1, <2>4, <2>5, <2>7, <3>3, <3>5 DEF TapeInv, TapeOK
  <2>9. CASE Tape!OnIndexed(t)
    <3>1. page' = page
      BY <2>9 DEF Tape!OnIndexed
    <3>. QED BY <2>1, <2>4, <2>5, <2>7, <3>1 DEF TapeInv, TapeOK
  <2>. QED BY <2>6, <2>8, <2>9
<1>4. CASE Tape!FlushBufferedTrades
  <2>. DEFINE rows == Tape!Merge(page.buffer, page.tape)
              k == IF Len(rows) < TapeRows THEN Len(rows) ELSE TapeRows
              cut == SubSeq(rows, 1, k)
  <2>1. Below(page.buffer, db.rows) /\ Below(page.tape, db.rows)
    BY DEF TapeInv, TapeOK
  <2>2. Below(rows, db.rows) /\ Once(rows)
    BY <2>1, ConcatBelow, DistinctOnce DEF Tape!Merge
  <2>3. page' = [page EXCEPT !.buffer = <<>>, !.tape = cut] /\ UNCHANGED <<db, stream, asks>>
    BY <1>4 DEF Tape!FlushBufferedTrades
  <2>. HIDE DEF rows
  <2>4. k \in 0..Len(rows)
    BY <2>2, PagesConstants DEF Below, Tape!TapeAssumption
  <2>. HIDE DEF k
  <2>5. Below(cut, db.rows) /\ Once(cut)
    BY <2>2, <2>4, FirstOnce
  <2>. HIDE DEF cut
  <2>. DEFINE p1 == [page EXCEPT !.buffer = <<>>]
              p2 == [p1 EXCEPT !.tape = cut]
  <2>6. page' = p2
    BY <2>3
  <2>a. <<>> \in Seq(Nat)
    OBVIOUS
  <2>7. p1 \in Tapes /\ p1.buffer = <<>> /\ p1.banner = page.banner
    BY <2>a DEF Tapes
  <2>. HIDE DEF p1
  <2>8. p2 \in Tapes /\ p2.buffer = <<>> /\ p2.banner = page.banner /\ p2.tape = cut
    BY <2>5, <2>7 DEF Tapes, Below
  <2>. HIDE DEF p2
  <2>. QED BY <2>3, <2>5, <2>6, <2>8, EmptyOnce DEF TapeInv, TapeOK
<1>. QED BY <1>1, <1>2, <1>3, <1>4 DEF Tape!Client

LEMMA TapeInductive ==
    TapeInv /\ [Tape!Next]_(Tape!vars) => TapeInv'
<1>. SUFFICES ASSUME TapeInv, [Tape!Next]_(Tape!vars) PROVE TapeInv'
  OBVIOUS
<1>1. CASE UNCHANGED Tape!vars
  BY <1>1 DEF Tape!vars, TapeInv
<1>2. CASE \E s \in Slots : Tape!Summary(s) \/ Tape!AnswerLost(s)
  BY <1>2, SummariesKeepTape
<1>. QED BY <1>1, <1>2, ServerKeepsTape, StreamKeepsTape, ClientKeepsTape DEF Tape!Next

LEMMA TapeInit == Tape!Init => TapeInv
<1>. SUFFICES ASSUME Tape!Init PROVE TapeInv
  OBVIOUS
<1>1. stream \in Streams /\ page \in Tapes /\ db \in Servers
  BY DEF Tape!Init, Streams, Tapes, Servers
<1>2. Tape!Free \in Answers /\ ~Tape!Free.resolved /\ Below(Tape!Free.trades, 0)
      /\ Once(Tape!Free.trades)
  BY EmptyOnce DEF Tape!Free, Answers
<1>3. asks \in [Slots -> Answers] /\ \A s \in Slots : asks[s] = Tape!Free
  BY <1>2 DEF Tape!Init
<1>. QED BY <1>1, <1>2, <1>3, EmptyOnce DEF Tape!Init, TapeInv, TapeOK, Servers, Answers

-----------------------------------------------------------------------------
(* What pages show and redeem of holdings. *)

Anyone == Wallets \union {Mine!NoWallet}
Seen == [of : Anyone, usdf : Int, tokens : Int]
Loads == [at : {"free", "usdf", "tokens", "read"}, for : {"market", "profile"},
          of : Anyone, usdf : Int, tokens : Int]
Payments == [kind : {"redeem", "tip"}, of : Wallets, status : {"pending", "success", "reverted"}]
Redeems == [at : {"idle", "funds", "sign", "receipt", "reserves", "load", "loading"},
            kind : {"redeem", "tip"}, of : Anyone, tx : Nat, slot : Nat, once : BOOLEAN,
            says : {"nothing", "success", "error"}]
Profiles == [user : Anyone, ask : Nat, portfolio : Seen]

WalletsOK ==
    /\ owned \in [Wallets -> Int] /\ tokens \in [Wallets -> Nat] /\ had \in [Wallets -> Int]
    /\ \A w \in Wallets : owned[w] + tokens[w] <= had[w]

\* Between its two reads a load has seen no more USDF than the wallet had
\* beside the tokens it still has.
LoadOK(l) ==
    /\ l \in Loads /\ (l.at # "free" => l.of \in Wallets)
    /\ l.at \in {"usdf", "tokens"} => l.tokens = 0
    /\ l.at = "tokens" => l.usdf + tokens[l.of] <= had[l.of]
    /\ l.at = "read" => l.usdf + l.tokens <= had[l.of]
LoadsOK(l) == l \in [Slots -> Loads] /\ \A s \in Slots : LoadOK(l[s])

SeenOK(p) == p \in Seen /\ Mine!CountedOnce(p)

PaymentsOK(pay, rep) ==
    /\ pay \in Seq(Payments) /\ rep \subseteq Wallets
    /\ \A w \in rep : tokens[w] = 0
    /\ \A i \in 1..Len(pay) :
         pay[i].kind = "redeem" /\ pay[i].status = "success" => tokens[pay[i].of] = 0
    /\ \A i \in 1..Len(pay) : pay[i].kind = "tip" => rep # {}

RedeemOK(r, pay, rep) ==
    /\ r \in Redeems
    /\ r.at # "idle" => r.of \in Wallets
    /\ r.at = "receipt" => /\ r.tx \in 1..Len(pay)
                           /\ pay[r.tx].kind = r.kind /\ pay[r.tx].of = r.of
    /\ r.once => rep # {}
    /\ r.at # "idle" /\ r.kind = "tip" => rep # {}

\* What the profile awaits is its user's.
ProfileOK(p, l) ==
    /\ p \in Profiles
    /\ p.ask # 0 => /\ p.ask \in Slots /\ l[p.ask].at # "free"
                    /\ l[p.ask].for = "profile" /\ l[p.ask].of = p.user
    /\ p.ask = 0 => p.portfolio.of \in {Mine!NoWallet, p.user}

MineInv ==
    /\ WalletsOK /\ connected \in Anyone
    /\ LoadsOK(loads) /\ SeenOK(balances) /\ SeenOK(profile.portfolio)
    /\ PaymentsOK(payments, reported) /\ RedeemOK(redeem, payments, reported)
    /\ ProfileOK(profile, loads)

LEMMA MineInit == Mine!Init => MineInv
<1>. SUFFICES ASSUME Mine!Init PROVE MineInv
  OBVIOUS
<1>1. Stake \in Nat
  BY PagesConstants DEF Mine!HoldingsAssumption
<1>2. WalletsOK /\ connected \in Anyone
  BY <1>1 DEF Mine!Init, WalletsOK, Anyone
<1>3. LoadsOK(loads)
  BY DEF Mine!Init, LoadsOK, LoadOK, Loads, Mine!NoLoad, Anyone
<1>4. SeenOK(balances) /\ SeenOK(profile.portfolio)
  BY DEF Mine!Init, SeenOK, Seen, Mine!CountedOnce, Mine!Nothing, Anyone
<1>5. payments \in Seq(Payments) /\ Len(payments) = 0 /\ reported = {}
  BY DEF Mine!Init
<1>6. PaymentsOK(payments, reported)
  BY <1>5 DEF PaymentsOK
<1>7. RedeemOK(redeem, payments, reported)
  BY DEF Mine!Init, RedeemOK, Redeems, Anyone, Mine!NoSlot
<1>8. ProfileOK(profile, loads)
  BY DEF Mine!Init, ProfileOK, Profiles, Seen, Mine!Nothing, Mine!NoSlot, Anyone
<1>. QED BY <1>2, <1>3, <1>4, <1>6, <1>7, <1>8 DEF MineInv

(* Tokens only go, and the most a wallet had only grows: whatever was read   *)
(* of it stays within that.                                                  *)
LEMMA ChainKeepsSeen ==
    ASSUME MineInv, WalletsOK',
           \A w \in Wallets : (tokens'[w] = tokens[w] \/ tokens'[w] = 0) /\ had[w] <= had'[w],
           UNCHANGED <<connected, loads, balances, redeem, reported, profile>>,
           PaymentsOK(payments, reported)', RedeemOK(redeem, payments', reported)
    PROVE  MineInv'
<1>1. ASSUME NEW l, LoadOK(l) PROVE LoadOK(l)'
  <2>1. CASE l.at = "free" \/ l.at = "usdf"
    BY <1>1, <2>1 DEF LoadOK
  <2>2. CASE l.at \in {"tokens", "read"}
    <3>1. l.of \in Wallets /\ tokens[l.of] \in Nat /\ had[l.of] \in Int /\ had'[l.of] \in Int
          /\ l.usdf \in Int /\ l.tokens \in Int
      BY <1>1, <2>2 DEF LoadOK, MineInv, WalletsOK, Loads
    <3>. QED BY <1>1, <2>2, <3>1 DEF LoadOK
  <2>. QED BY <1>1, <2>1, <2>2 DEF LoadOK, Loads
<1>2. ASSUME NEW p, SeenOK(p) PROVE SeenOK(p)'
  <2>1. CASE p.of = Mine!NoWallet
    BY <1>2, <2>1 DEF SeenOK, Mine!CountedOnce
  <2>2. CASE p.of # Mine!NoWallet
    <3>1. p.of \in Wallets /\ had[p.of] \in Int /\ had'[p.of] \in Int /\ p.usdf + p.tokens \in Int
      BY <1>2, <2>2 DEF SeenOK, Seen, Anyone, MineInv, WalletsOK
    <3>. QED BY <1>2, <2>2, <3>1 DEF SeenOK, Mine!CountedOnce
  <2>. QED BY <2>1, <2>2
<1>3. LoadsOK(loads)'
  BY <1>1 DEF MineInv, LoadsOK
<1>. QED BY <1>2, <1>3 DEF MineInv

(* A redemption pays for every token of the wallet.                          *)
LEMMA PaidOut ==
    ASSUME MineInv, NEW w \in Wallets, Mine!Redeem(w)
    PROVE  /\ WalletsOK' /\ tokens'[w] = 0
           /\ \A v \in Wallets : (tokens'[v] = tokens[v] \/ tokens'[v] = 0) /\ had[v] <= had'[v]
<1>. DEFINE u == [owned EXCEPT ![w] = @ + tokens[w]]
            t == [tokens EXCEPT ![w] = 0]
            worth == u[w] + t[w]
            h == [had EXCEPT ![w] = IF worth > @ THEN worth ELSE @]
<1>1. owned' = u /\ tokens' = t /\ had' = h
  BY DEF Mine!Redeem, Mine!Most, Mine!Worth
<1>2. u \in [Wallets -> Int] /\ t \in [Wallets -> Nat] /\ worth = owned[w] + tokens[w]
  BY DEF MineInv, WalletsOK
<1>3. worth <= had[w] /\ h = had
  BY <1>2 DEF MineInv, WalletsOK
<1>. QED BY <1>1, <1>2, <1>3 DEF MineInv, WalletsOK

(* USDF that comes or goes elsewhere.                                        *)
LEMMA PaidElsewhere ==
    ASSUME MineInv, NEW w \in Wallets, NEW n \in Int,
           owned' = [owned EXCEPT ![w] = @ + n], tokens' = tokens, had' = Mine!Most(w)
    PROVE  /\ WalletsOK'
           /\ \A v \in Wallets : tokens'[v] = tokens[v] /\ had[v] <= had'[v]
<1>. DEFINE u == [owned EXCEPT ![w] = @ + n]
            worth == u[w] + tokens[w]
            most == IF worth > had[w] THEN worth ELSE had[w]
<1>1. u \in [Wallets -> Int] /\ u[w] = owned[w] + n /\ \A v \in Wallets \ {w} : u[v] = owned[v]
  BY DEF MineInv, WalletsOK
<1>2. had' = [had EXCEPT ![w] = most]
  BY DEF Mine!Most, Mine!Worth
<1>3. worth \in Int /\ most \in Int /\ worth <= most /\ had[w] <= most
  BY <1>1 DEF MineInv, WalletsOK
<1>4. owned' = u
  OBVIOUS
<1>. HIDE DEF u, most
<1>. QED BY <1>1, <1>2, <1>3, <1>4 DEF MineInv, WalletsOK

(* A payment whose status changes is the payment it was.                     *)
LEMMA MinedIs ==
    ASSUME MineInv, NEW i \in 1..Len(payments), NEW st \in {"success", "reverted"},
           Mine!Mined(i, st)
    PROVE  /\ payments' \in Seq(Payments) /\ Len(payments') = Len(payments)
           /\ \A j \in 1..Len(payments) :
                /\ payments'[j].kind = payments[j].kind /\ payments'[j].of = payments[j].of
                /\ payments'[j].status = IF j = i THEN st ELSE payments[j].status
<1>. DEFINE p == [payments[i] EXCEPT !.status = st]
<1>1. payments \in Seq(Payments) /\ payments[i] \in Payments
  BY DEF MineInv, PaymentsOK
<1>2. p \in Payments /\ p.kind = payments[i].kind /\ p.of = payments[i].of /\ p.status = st
  BY <1>1 DEF Payments
<1>3. payments' = [payments EXCEPT ![i] = p]
  BY DEF Mine!Mined
<1>. HIDE DEF p
<1>4. payments' \in Seq(Payments) /\ Len(payments') = Len(payments)
      /\ \A j \in 1..Len(payments) : payments'[j] = IF j = i THEN p ELSE payments[j]
  BY <1>1, <1>2, <1>3
<1>. QED BY <1>2, <1>4

LEMMA ChainKeepsMine ==
    ASSUME MineInv, Mine!Chain
    PROVE  MineInv'
<1>1. ASSUME NEW w \in Wallets, Mine!Elsewhere(w) PROVE MineInv'
  <2>1. UNCHANGED <<payments, connected, balances, redeem, reported, loads, profile>>
    BY <1>1 DEF Mine!Elsewhere, Mine!page
  <2>2. /\ WalletsOK'
        /\ \A v \in Wallets : (tokens'[v] = tokens[v] \/ tokens'[v] = 0) /\ had[v] <= had'[v]
    <3>1. CASE Mine!Redeem(w)
      BY <3>1, PaidOut
    <3>2. CASE ~Mine!Redeem(w)
      <4>1. UNCHANGED tokens /\ had' = Mine!Most(w)
            /\ (owned' = [owned EXCEPT ![w] = @ + 1] \/ owned' = [owned EXCEPT ![w] = @ - 1])
        BY <1>1, <3>2 DEF Mine!Elsewhere
      <4>2. owned' = [owned EXCEPT ![w] = @ - 1] => owned' = [owned EXCEPT ![w] = @ + (-1)]
        BY DEF MineInv, WalletsOK
      <4>3. PICK n \in Int : owned' = [owned EXCEPT ![w] = @ + n]
        BY <4>1, <4>2
      <4>. QED BY <4>1, <4>3, PaidElsewhere
    <3>. QED BY <3>1, <3>2
  <2>3. PaymentsOK(payments, reported)'
    <3>1. \A j \in 1..Len(payments) : payments[j] \in Payments
      BY DEF MineInv, PaymentsOK
    <3>2. \A j \in 1..Len(payments) : payments[j].of \in Wallets
      BY <3>1 DEF Payments
    <3>. QED BY <2>1, <2>2, <3>2 DEF MineInv, PaymentsOK
  <2>4. RedeemOK(redeem, payments', reported)
    BY <2>1 DEF MineInv
  <2>. QED BY <2>1, <2>2, <2>3, <2>4, ChainKeepsSeen
<1>2. ASSUME NEW i \in DOMAIN payments, Mine!Mine(i) PROVE MineInv'
  <2>0. i \in 1..Len(payments) /\ payments[i] \in Payments /\ payments[i].status = "pending"
    BY <1>2 DEF MineInv, PaymentsOK, Mine!Mine
  <2>1. UNCHANGED <<connected, balances, redeem, reported, loads, profile>>
    BY <1>2 DEF Mine!Mine, Mine!page
  <2>2. PICK st \in {"success", "reverted"} :
          /\ Mine!Mined(i, st)
          /\ IF st = "success" /\ payments[i].kind = "redeem" THEN Mine!Redeem(payments[i].of)
             ELSE UNCHANGED Mine!chain
    BY <1>2 DEF Mine!Mine
  <2>3. /\ WalletsOK'
        /\ \A v \in Wallets : (tokens'[v] = tokens[v] \/ tokens'[v] = 0) /\ had[v] <= had'[v]
        /\ st = "success" /\ payments[i].kind = "redeem" => tokens'[payments[i].of] = 0
    <3>1. CASE st = "success" /\ payments[i].kind = "redeem"
      <4>1. payments[i].of \in Wallets
        BY <2>0 DEF Payments
      <4>. QED BY <2>2, <3>1, <4>1, PaidOut
    <3>2. CASE ~(st = "success" /\ payments[i].kind = "redeem")
      <4>1. UNCHANGED <<owned, tokens, had>>
        BY <2>2, <3>2 DEF Mine!chain
      <4>. QED BY <3>2, <4>1 DEF MineInv, WalletsOK
    <3>. QED BY <3>1, <3>2
  <2>4. /\ payments' \in Seq(Payments) /\ Len(payments') = Len(payments)
        /\ \A j \in 1..Len(payments) :
             /\ payments'[j].kind = payments[j].kind /\ payments'[j].of = payments[j].of
             /\ payments'[j].status = IF j = i THEN st ELSE payments[j].status
    BY <2>0, <2>2, MinedIs
  <2>5. PaymentsOK(payments, reported)'
    <3>1. \A j \in 1..Len(payments) : payments[j] \in Payments
      BY DEF MineInv, PaymentsOK
    <3>2. \A j \in 1..Len(payments) : payments[j].of \in Wallets
      BY <3>1 DEF Payments
    <3>. QED BY <2>1, <2>3, <2>4, <3>2 DEF MineInv, PaymentsOK
  <2>6. RedeemOK(redeem, payments', reported)
    BY <2>4 DEF MineInv, RedeemOK
  <2>. QED BY <2>1, <2>3, <2>5, <2>6, ChainKeepsSeen
<1>. QED BY <1>1, <1>2 DEF Mine!Chain

LEMMA SlotIsNotNone == 0 \notin Slots
BY PagesConstants DEF Mine!HoldingsAssumption

(* One load that changes.                                                    *)
LEMMA LoadChanges ==
    ASSUME MineInv, NEW s \in Slots, NEW r, LoadOK(r),
           s = profile.ask => r.at # "free" /\ r.for = "profile" /\ r.of = profile.user
    PROVE  LoadsOK([loads EXCEPT ![s] = r]) /\ ProfileOK(profile, [loads EXCEPT ![s] = r])
<1>1. r \in Loads /\ loads \in [Slots -> Loads]
  BY DEF LoadOK, MineInv, LoadsOK
<1>2. LoadsOK([loads EXCEPT ![s] = r])
  BY <1>1 DEF MineInv, LoadsOK
<1>3. ProfileOK(profile, [loads EXCEPT ![s] = r])
  BY <1>1 DEF MineInv, ProfileOK
<1>. QED BY <1>2, <1>3

(* A load that is asked for takes a slot that nobody awaits.                 *)
LEMMA AskIs ==
    ASSUME MineInv, NEW s \in Slots, NEW for \in {"market", "profile"}, NEW w \in Wallets,
           Mine!Ask(s, for, w)
    PROVE  /\ LoadsOK(loads') /\ ProfileOK(profile, loads')
           /\ loads'[s].at = "usdf" /\ loads'[s].for = for /\ loads'[s].of = w
           /\ loads[s].at = "free"
<1>. DEFINE a == [Mine!NoLoad EXCEPT !.at = "usdf"]
            b == [a EXCEPT !.for = for]
            r == [b EXCEPT !.of = w]
<1>1. loads[s].at = "free" /\ loads' = [loads EXCEPT ![s] = r]
  BY DEF Mine!Ask
<1>2. a \in Loads /\ a.at = "usdf" /\ a.tokens = 0
  BY DEF Mine!NoLoad, Loads, Anyone
<1>. HIDE DEF a
<1>3. b \in Loads /\ b.at = "usdf" /\ b.for = for /\ b.tokens = 0
  BY <1>2 DEF Loads
<1>. HIDE DEF b
<1>4. r \in Loads /\ r.at = "usdf" /\ r.for = for /\ r.of = w /\ r.tokens = 0
  BY <1>3 DEF Loads, Anyone
<1>. HIDE DEF r
<1>5. LoadOK(r)
  BY <1>4 DEF LoadOK
<1>6. s # profile.ask
  BY <1>1, SlotIsNotNone DEF MineInv, ProfileOK
<1>7. loads'[s] = r
  BY <1>1 DEF MineInv, LoadsOK
<1>. QED BY <1>1, <1>4, <1>5, <1>6, <1>7, LoadChanges

LEMMA ReadsKeepMine ==
    ASSUME MineInv, NEW s \in Slots, Mine!ReadUsdf(s) \/ Mine!ReadTokens(s)
    PROVE  MineInv'
<1>. DEFINE l == loads[s]
<1>0. /\ l \in Loads /\ LoadOK(l)
      /\ UNCHANGED <<owned, tokens, had, payments, connected, balances, redeem, reported, profile>>
      /\ l.at \in {"usdf", "tokens"}
  BY DEF MineInv, LoadsOK, Mine!ReadUsdf, Mine!ReadTokens, Mine!chain, Mine!page
<1>1. /\ l.of \in Wallets /\ owned[l.of] \in Int /\ tokens[l.of] \in Nat /\ had[l.of] \in Int
      /\ owned[l.of] + tokens[l.of] <= had[l.of]
  BY <1>0 DEF LoadOK, MineInv, WalletsOK
<1>2. s = profile.ask => l.for = "profile" /\ l.of = profile.user
  BY SlotIsNotNone DEF MineInv, ProfileOK
<1>. SUFFICES ASSUME NEW r, LoadOK(r), r.at # "free", r.for = l.for, r.of = l.of,
                     loads' = [loads EXCEPT ![s] = r]
              PROVE  MineInv'
  <2>1. CASE Mine!ReadUsdf(s)
    <3>. DEFINE a == [l EXCEPT !.at = "tokens"]
                r == [a EXCEPT !.usdf = owned[l.of]]
    <3>1. loads' = [loads EXCEPT ![s] = r]
      BY <2>1 DEF Mine!ReadUsdf
    <3>2. a \in Loads /\ a.for = l.for /\ a.of = l.of /\ a.tokens = l.tokens /\ a.at = "tokens"
      BY <1>0 DEF Loads
    <3>. HIDE DEF a
    <3>3. /\ r \in Loads /\ r.for = l.for /\ r.of = l.of /\ r.tokens = l.tokens
          /\ r.at = "tokens" /\ r.usdf = owned[l.of]
      BY <1>1, <3>2 DEF Loads
    <3>. HIDE DEF r
    <3>4. l.tokens = 0
      BY <1>0, <2>1 DEF Mine!ReadUsdf, LoadOK
    <3>. QED BY <1>1, <3>1, <3>3, <3>4 DEF LoadOK
  <2>2. CASE Mine!ReadTokens(s)
    <3>. DEFINE a == [l EXCEPT !.at = "read"]
                r == [a EXCEPT !.tokens = tokens[l.of]]
    <3>1. loads' = [loads EXCEPT ![s] = r] \/ loads' = [loads EXCEPT ![s] = a]
      <4>1. CASE loads' = [loads EXCEPT ![s].at = "read", ![s].tokens = tokens[loads[s].of]]
        BY <4>1
      <4>2. CASE loads' = [loads EXCEPT ![s].at = "read"]
        BY <4>2
      <4>. QED BY <2>2, <4>1, <4>2 DEF Mine!ReadTokens
    <3>2. a \in Loads /\ a.for = l.for /\ a.of = l.of /\ a.tokens = l.tokens /\ a.at = "read"
          /\ a.usdf = l.usdf
      BY <1>0 DEF Loads
    <3>. HIDE DEF a
    <3>3. /\ r \in Loads /\ r.for = l.for /\ r.of = l.of /\ r.tokens = tokens[l.of]
          /\ r.at = "read" /\ r.usdf = l.usdf
      BY <1>1, <3>2 DEF Loads
    <3>. HIDE DEF r
    <3>4. l.tokens = 0 /\ l.usdf + tokens[l.of] <= had[l.of] /\ l.usdf \in Int
      BY <1>0, <2>2 DEF Mine!ReadTokens, LoadOK, Loads
    <3>5. LoadOK(r)
      BY <1>1, <3>3, <3>4 DEF LoadOK
    <3>6. LoadOK(a)
      BY <1>1, <3>2, <3>4 DEF LoadOK
    <3>. QED BY <3>1, <3>2, <3>3, <3>5, <3>6
  <2>. QED BY <2>1, <2>2
<1>. HIDE DEF l
<1>3. LoadsOK(loads') /\ ProfileOK(profile, loads')
  BY <1>2, LoadChanges
<1>. QED BY <1>0, <1>3 DEF MineInv, WalletsOK, LoadsOK, LoadOK, SeenOK, Mine!CountedOnce, PaymentsOK

(* What a load read comes from its wallet.                                   *)
LEMMA ReadIs ==
    ASSUME MineInv, NEW s \in Slots, loads[s].at = "read"
    PROVE  SeenOK(Mine!Read(s)) /\ Mine!Read(s).of = loads[s].of
<1>1. loads[s] \in Loads /\ LoadOK(loads[s])
  BY DEF MineInv, LoadsOK
<1>. QED BY <1>1 DEF Mine!Read, SeenOK, Seen, Loads, LoadOK, Mine!CountedOnce

LEMMA NothingIs == SeenOK(Mine!Nothing) /\ Mine!Nothing.of = Mine!NoWallet
BY DEF SeenOK, Seen, Mine!Nothing, Mine!CountedOnce, Anyone

LEMMA RefreshedIs ==
    ASSUME MineInv, NEW s \in Slots, Mine!Refreshed(s)
    PROVE  RedeemOK(redeem', payments, reported)
<1>1. CASE redeem' = redeem
  BY <1>1 DEF MineInv
<1>2. CASE redeem' # redeem
  <2>. DEFINE a == [redeem EXCEPT !.at = "idle"]
              b == [a EXCEPT !.slot = 0]
  <2>1. redeem' = b
    BY <1>2 DEF Mine!Refreshed, Mine!NoSlot
  <2>2. redeem \in Redeems
    BY DEF MineInv, RedeemOK
  <2>3. a \in Redeems /\ a.at = "idle" /\ a.once = redeem.once
    BY <2>2 DEF Redeems
  <2>. HIDE DEF a
  <2>4. b \in Redeems /\ b.at = "idle" /\ b.once = redeem.once
    BY <2>3 DEF Redeems
  <2>. HIDE DEF b
  <2>. QED BY <2>1, <2>4 DEF MineInv, RedeemOK
<1>. QED BY <1>1, <1>2

\* The profile takes an answer, or lets it go.
LEMMA ToldIs ==
    ASSUME MineInv, NEW p, SeenOK(p), p.of \in {Mine!NoWallet, profile.user},
           Mine!Told(p), NEW l
    PROVE  ProfileOK(profile', l) /\ profile'.portfolio = p
<1>. DEFINE a == [profile EXCEPT !.ask = 0]
            b == [a EXCEPT !.portfolio = p]
<1>1. profile' = b
  BY DEF Mine!Told, Mine!NoSlot
<1>2. profile \in Profiles /\ p \in Seen
  BY DEF MineInv, ProfileOK, SeenOK
<1>3. a \in Profiles /\ a.ask = 0 /\ a.user = profile.user
  BY <1>2 DEF Profiles
<1>. HIDE DEF a
<1>4. b \in Profiles /\ b.ask = 0 /\ b.user = profile.user /\ b.portfolio = p
  BY <1>2, <1>3 DEF Profiles
<1>. HIDE DEF b
<1>. QED BY <1>1, <1>4 DEF ProfileOK

LEMMA NoLoadIs == LoadOK(Mine!NoLoad)
BY DEF LoadOK, Loads, Mine!NoLoad, Anyone

LEMMA RepliesKeepMine ==
    ASSUME MineInv, NEW s \in Slots, Mine!Arrives(s) \/ Mine!LoadFails(s)
    PROVE  MineInv'
<1>1. /\ UNCHANGED <<owned, tokens, had, payments, connected, reported>>
      /\ loads' = [loads EXCEPT ![s] = Mine!NoLoad]
  BY DEF Mine!Arrives, Mine!LoadFails, Mine!chain, Mine!Free
<1>2. LoadsOK(loads')
  BY <1>1, NoLoadIs DEF MineInv, LoadsOK, LoadOK
<1>3. SeenOK(balances') /\ RedeemOK(redeem', payments, reported)
  <2>1. CASE Mine!Arrives(s)
    <3>1. loads[s].at = "read"
      BY <2>1 DEF Mine!Arrives
    <3>2. (balances' = Mine!Read(s) /\ Mine!Refreshed(s)) \/ UNCHANGED <<balances, redeem>>
      BY <2>1 DEF Mine!Arrives
    <3>. QED BY <3>1, <3>2, ReadIs, RefreshedIs DEF MineInv
  <2>2. CASE Mine!LoadFails(s)
    <3>1. balances' = balances /\ (Mine!Refreshed(s) \/ redeem' = redeem)
      BY <2>2 DEF Mine!LoadFails
    <3>. QED BY <3>1, RefreshedIs DEF MineInv
  <2>. QED BY <2>1, <2>2
<1>4. ProfileOK(profile', loads') /\ SeenOK(profile'.portfolio)
  <2>1. CASE s = profile.ask
    <3>1. loads[s].for = "profile" /\ loads[s].of = profile.user
      BY <2>1, SlotIsNotNone DEF MineInv, ProfileOK
    <3>2. PICK p : SeenOK(p) /\ p.of \in {Mine!NoWallet, profile.user} /\ Mine!Told(p)
      <4>1. CASE Mine!Arrives(s)
        <5>1. loads[s].at = "read" /\ Mine!Told(Mine!Read(s))
          BY <2>1, <3>1, <4>1 DEF Mine!Arrives, Mine!Cancelled
        <5>. QED BY <3>1, <5>1, ReadIs
      <4>2. CASE Mine!LoadFails(s)
        <5>1. Mine!Told(Mine!Nothing)
          BY <2>1, <3>1, <4>2 DEF Mine!LoadFails, Mine!Cancelled
        <5>. QED BY <5>1, NothingIs
      <4>. QED BY <4>1, <4>2
    <3>3. ProfileOK(profile', loads') /\ profile'.portfolio = p
      BY <3>2, ToldIs
    <3>. QED BY <3>2, <3>3
  <2>2. CASE s # profile.ask
    <3>1. profile' = profile
      BY <2>2 DEF Mine!Arrives, Mine!LoadFails, Mine!Cancelled
    <3>2. ProfileOK(profile, loads')
      BY <1>1, <2>2 DEF MineInv, ProfileOK, LoadsOK
    <3>. QED BY <3>1, <3>2 DEF MineInv
  <2>. QED BY <2>1, <2>2
<1>. QED BY <1>1, <1>2, <1>3, <1>4 DEF MineInv, WalletsOK, LoadsOK, LoadOK, SeenOK,
            Mine!CountedOnce, PaymentsOK

(* A step of the redemption that leaves the chain and the loads alone.       *)
LEMMA RedeemMoves ==
    ASSUME MineInv, RedeemOK(redeem', payments, reported),
           UNCHANGED <<owned, tokens, had, payments, connected, loads, balances, reported, profile>>
    PROVE  MineInv'
BY DEF MineInv, WalletsOK, LoadsOK, LoadOK, SeenOK, Mine!CountedOnce, PaymentsOK

\* The step, the kind and the wallet stay; the page may ask no receipt of it.
LEMMA AtIs ==
    ASSUME MineInv, NEW a \in {"sign", "load"}, redeem.at # "idle", Mine!At(a)
    PROVE  RedeemOK(redeem', payments, reported)
<1>1. redeem \in Redeems /\ redeem' = [redeem EXCEPT !.at = a]
  BY DEF Mine!At, MineInv, RedeemOK
<1>2. redeem' \in Redeems /\ redeem'.at = a /\ redeem'.of = redeem.of
      /\ redeem'.kind = redeem.kind /\ redeem'.once = redeem.once
  BY <1>1 DEF Redeems
<1>. QED BY <1>2 DEF MineInv, RedeemOK

LEMMA EndsIs ==
    ASSUME MineInv, Mine!Ends("error")
    PROVE  RedeemOK(redeem', payments, reported)
<1>. DEFINE a == [redeem EXCEPT !.at = "idle"]
            b == [a EXCEPT !.says = "error"]
<1>1. redeem \in Redeems /\ redeem' = b
  BY DEF Mine!Ends, MineInv, RedeemOK
<1>2. a \in Redeems /\ a.at = "idle" /\ a.once = redeem.once
  BY <1>1 DEF Redeems
<1>. HIDE DEF a
<1>3. b \in Redeems /\ b.at = "idle" /\ b.once = redeem.once
  BY <1>2 DEF Redeems
<1>. HIDE DEF b
<1>. QED BY <1>1, <1>3 DEF MineInv, RedeemOK

LEMMA RedeemingKeepsMine ==
    ASSUME MineInv, Mine!Redeeming
    PROVE  MineInv'
<1>. redeem \in Redeems
  BY DEF MineInv, RedeemOK
<1>1. CASE Mine!HandleRedeem
  <2>. DEFINE k == IF redeem.once THEN "tip" ELSE "redeem"
              a == IF redeem.once THEN "funds" ELSE "sign"
              r1 == [redeem EXCEPT !.kind = k]
              r2 == [r1 EXCEPT !.at = a]
              r3 == [r2 EXCEPT !.of = connected]
              r4 == [r3 EXCEPT !.tx = 0]
              r5 == [r4 EXCEPT !.says = "nothing"]
  <2>1. redeem' = r5 /\ connected \in Wallets
        /\ UNCHANGED <<owned, tokens, had, payments, connected, loads, balances, reported, profile>>
    BY <1>1 DEF Mine!HandleRedeem, Mine!chain, MineInv, Anyone
  <2>2. k \in {"redeem", "tip"} /\ a \in {"funds", "sign"} /\ (k = "tip" => reported # {})
    BY DEF MineInv, RedeemOK
  <2>. HIDE DEF k, a
  <2>3. r1 \in Redeems /\ r1.once = redeem.once /\ r1.kind = k
    BY <2>2 DEF Redeems
  <2>. HIDE DEF r1
  <2>4. r2 \in Redeems /\ r2.once = redeem.once /\ r2.kind = k /\ r2.at = a
    BY <2>2, <2>3 DEF Redeems
  <2>. HIDE DEF r2
  <2>5. r3 \in Redeems /\ r3.once = redeem.once /\ r3.kind = k /\ r3.at = a /\ r3.of = connected
    BY <2>1, <2>4 DEF Redeems, Anyone
  <2>. HIDE DEF r3
  <2>6. r4 \in Redeems /\ r4.once = redeem.once /\ r4.kind = k /\ r4.at = a /\ r4.of = connected
    BY <2>5 DEF Redeems
  <2>. HIDE DEF r4
  <2>7. r5 \in Redeems /\ r5.once = redeem.once /\ r5.kind = k /\ r5.at = a /\ r5.of = connected
    BY <2>6 DEF Redeems
  <2>. HIDE DEF r5
  <2>8. RedeemOK(redeem', payments, reported)
    BY <2>1, <2>2, <2>7 DEF MineInv, RedeemOK
  <2>. QED BY <2>1, <2>8, RedeemMoves
<1>2. CASE Mine!CheckFunds \/ Mine!Refuse \/ Mine!NotRedeemed \/ Mine!ReceiptLost \/ Mine!ReadReserves
  <2>1. UNCHANGED <<owned, tokens, had, payments, connected, loads, balances, reported, profile>>
    BY <1>2 DEF Mine!CheckFunds, Mine!Refuse, Mine!NotRedeemed, Mine!ReceiptLost,
       Mine!ReadReserves, Mine!chain
  <2>2. \/ Mine!Ends("error")
        \/ redeem.at # "idle" /\ (Mine!At("sign") \/ Mine!At("load"))
    BY <1>2 DEF Mine!CheckFunds, Mine!Refuse, Mine!NotRedeemed, Mine!ReceiptLost, Mine!ReadReserves
  <2>3. RedeemOK(redeem', payments, reported)
    BY <2>2, EndsIs, AtIs
  <2>. QED BY <2>1, <2>3, RedeemMoves
<1>3. CASE Mine!Sign
  <2>. DEFINE p == [kind |-> redeem.kind, of |-> redeem.of, status |-> "pending"]
              n == Len(payments) + 1
              r1 == [redeem EXCEPT !.at = "receipt"]
              r2 == [r1 EXCEPT !.tx = n]
  <2>1. /\ redeem.at = "sign" /\ payments' = Append(payments, p)
        /\ redeem' = [redeem EXCEPT !.at = "receipt", !.tx = Len(payments')]
        /\ UNCHANGED <<owned, tokens, had, connected, loads, balances, reported, profile>>
    BY <1>3 DEF Mine!Sign, Mine!chain
  <2>2. redeem.of \in Wallets /\ payments \in Seq(Payments) /\ (redeem.kind = "tip" => reported # {})
    BY <2>1 DEF MineInv, RedeemOK, PaymentsOK
  <2>3. p \in Payments /\ p.kind = redeem.kind /\ p.of = redeem.of /\ p.status = "pending"
    BY <2>2 DEF Payments, Redeems
  <2>. HIDE DEF p
  <2>4. /\ payments' \in Seq(Payments) /\ Len(payments') = n /\ n \in Nat
        /\ payments'[n] = p /\ \A i \in 1..Len(payments) : payments'[i] = payments[i]
        /\ \A i \in 1..n : i = n \/ i \in 1..Len(payments)
    BY <2>1, <2>2, <2>3
  <2>5. redeem' = r2
    BY <2>1, <2>4
  <2>6. r1 \in Redeems /\ r1.at = "receipt" /\ r1.once = redeem.once /\ r1.kind = redeem.kind
        /\ r1.of = redeem.of
    BY DEF Redeems
  <2>. HIDE DEF r1
  <2>7. r2 \in Redeems /\ r2.at = "receipt" /\ r2.once = redeem.once /\ r2.kind = redeem.kind
        /\ r2.of = redeem.of /\ r2.tx = n
    BY <2>4, <2>6 DEF Redeems
  <2>. HIDE DEF r2
  <2>n. n \in 1..n
    BY <2>4 DEF n
  <2>. HIDE DEF n
  <2>8. RedeemOK(redeem', payments', reported)
    BY <2>2, <2>3, <2>4, <2>5, <2>7, <2>n DEF MineInv, RedeemOK
  <2>9. PaymentsOK(payments, reported)'
    BY <2>1, <2>2, <2>3, <2>4 DEF MineInv, PaymentsOK
  <2>. QED BY <2>1, <2>8, <2>9 DEF MineInv, WalletsOK, LoadsOK, LoadOK, SeenOK, Mine!CountedOnce
<1>4. CASE Mine!Redeemed
  <2>. DEFINE r1 == [redeem EXCEPT !.at = "reserves"]
              r2 == [r1 EXCEPT !.says = "success"]
              r3 == [r2 EXCEPT !.once = TRUE]
  <2>1. /\ redeem.kind = "redeem" /\ redeem.at = "receipt" /\ payments[redeem.tx].status = "success"
        /\ redeem' = r3 /\ reported' = reported \union {redeem.of}
        /\ UNCHANGED <<owned, tokens, had, payments, connected, loads, balances, profile>>
    BY <1>4 DEF Mine!Redeemed, Mine!Receipt, Mine!chain
  <2>a. /\ redeem.of \in Wallets /\ redeem.tx \in 1..Len(payments)
        /\ payments[redeem.tx].kind = "redeem" /\ payments[redeem.tx].of = redeem.of
    BY <2>1 DEF MineInv, RedeemOK
  <2>2. redeem.of \in Wallets /\ tokens[redeem.of] = 0
    <3>1. \A i \in 1..Len(payments) :
            payments[i].kind = "redeem" /\ payments[i].status = "success" => tokens[payments[i].of] = 0
      BY DEF MineInv, PaymentsOK
    <3>. QED BY <2>1, <2>a, <3>1
  <2>3. r1 \in Redeems /\ r1.at = "reserves" /\ r1.kind = "redeem" /\ r1.of = redeem.of
    BY <2>1 DEF Redeems
  <2>. HIDE DEF r1
  <2>4. r2 \in Redeems /\ r2.at = "reserves" /\ r2.kind = "redeem" /\ r2.of = redeem.of
    BY <2>3 DEF Redeems
  <2>. HIDE DEF r2
  <2>5. r3 \in Redeems /\ r3.at = "reserves" /\ r3.kind = "redeem" /\ r3.of = redeem.of
    BY <2>4 DEF Redeems
  <2>. HIDE DEF r3
  <2>6. RedeemOK(redeem', payments, reported')
    BY <2>1, <2>2, <2>5 DEF RedeemOK
  <2>7. PaymentsOK(payments, reported)'
    BY <2>1, <2>2 DEF MineInv, PaymentsOK
  <2>. QED BY <2>1, <2>6, <2>7 DEF MineInv, WalletsOK, LoadsOK, LoadOK, SeenOK, Mine!CountedOnce
<1>5. CASE Mine!Tipped
  <2>. DEFINE r1 == [redeem EXCEPT !.at = "load"]
              r2 == [r1 EXCEPT !.says = "success"]
  <2>1. redeem.at = "receipt" /\ redeem' = r2
        /\ UNCHANGED <<owned, tokens, had, payments, connected, loads, balances, reported, profile>>
    BY <1>5 DEF Mine!Tipped, Mine!Receipt, Mine!chain
  <2>2. r1 \in Redeems /\ r1.at = "load" /\ r1.kind = redeem.kind /\ r1.of = redeem.of
        /\ r1.once = redeem.once
    BY DEF Redeems
  <2>. HIDE DEF r1
  <2>3. r2 \in Redeems /\ r2.at = "load" /\ r2.kind = redeem.kind /\ r2.of = redeem.of
        /\ r2.once = redeem.once
    BY <2>2 DEF Redeems
  <2>. HIDE DEF r2
  <2>4. RedeemOK(redeem', payments, reported)
    BY <2>1, <2>3 DEF MineInv, RedeemOK
  <2>. QED BY <2>1, <2>4, RedeemMoves
<1>6. ASSUME NEW s \in Slots, Mine!Reload(s) PROVE MineInv'
  <2>. DEFINE r1 == [redeem EXCEPT !.at = "loading"]
              r2 == [r1 EXCEPT !.slot = s]
  <2>1. redeem.at = "load" /\ Mine!Ask(s, "market", redeem.of) /\ redeem' = r2 /\ s \in Nat
        /\ UNCHANGED <<owned, tokens, had, payments, connected, balances, reported, profile>>
    BY <1>6, PagesConstants DEF Mine!Reload, Mine!chain, Mine!HoldingsAssumption
  <2>2. r1 \in Redeems /\ r1.at = "loading" /\ r1.kind = redeem.kind /\ r1.of = redeem.of
        /\ r1.once = redeem.once
    BY DEF Redeems
  <2>. HIDE DEF r1
  <2>3. r2 \in Redeems /\ r2.at = "loading" /\ r2.kind = redeem.kind /\ r2.of = redeem.of
        /\ r2.once = redeem.once
    BY <2>1, <2>2 DEF Redeems
  <2>. HIDE DEF r2
  <2>4. RedeemOK(redeem', payments, reported) /\ redeem.of \in Wallets
    BY <2>1, <2>3 DEF MineInv, RedeemOK
  <2>5. LoadsOK(loads') /\ ProfileOK(profile, loads')
    BY <2>1, <2>4, AskIs
  <2>. QED BY <2>1, <2>4, <2>5 DEF MineInv, WalletsOK, LoadsOK, LoadOK, SeenOK,
              Mine!CountedOnce, PaymentsOK
<1>. QED BY <1>1, <1>2, <1>3, <1>4, <1>5, <1>6 DEF Mine!Redeeming

LEMMA VisitingKeepsMine ==
    ASSUME MineInv, Mine!Visiting
    PROVE  MineInv'
<1>. profile \in Profiles
  BY DEF MineInv, ProfileOK
<1>1. ASSUME NEW w \in Anyone, Mine!Connect(w), w \in Wallets \/ w = Mine!NoWallet PROVE MineInv'
  <2>1. connected' = w
        /\ UNCHANGED <<owned, tokens, had, payments, balances, redeem, reported, profile>>
    BY <1>1 DEF Mine!Connect, Mine!chain
  <2>2. LoadsOK(loads') /\ ProfileOK(profile, loads')
    <3>1. CASE loads' = loads
      BY <3>1 DEF MineInv
    <3>2. CASE loads' # loads
      <4>1. w \in Wallets /\ \E s \in Slots : Mine!Ask(s, "market", w)
        BY <1>1, <3>2 DEF Mine!Connect
      <4>. QED BY <4>1, AskIs
    <3>. QED BY <3>1, <3>2
  <2>. QED BY <2>1, <2>2 DEF MineInv, WalletsOK, LoadsOK, LoadOK, SeenOK, Mine!CountedOnce, PaymentsOK
<1>2. ASSUME NEW w \in Wallets, Mine!SignIn(w) PROVE MineInv'
  <2>. PICK s \in Slots : /\ Mine!Ask(s, "profile", w)
                          /\ profile' = [profile EXCEPT !.user = w, !.ask = s]
    BY <1>2 DEF Mine!SignIn
  <2>. DEFINE p1 == [profile EXCEPT !.user = w]
              p2 == [p1 EXCEPT !.ask = s]
  <2>1. profile' = p2 /\ s \in Nat /\ s # 0
        /\ UNCHANGED <<owned, tokens, had, payments, connected, balances, redeem, reported>>
    BY <1>2, PagesConstants DEF Mine!SignIn, Mine!chain, Mine!page, Mine!HoldingsAssumption
  <2>2. /\ LoadsOK(loads') /\ loads'[s].at = "usdf" /\ loads'[s].for = "profile"
        /\ loads'[s].of = w
    BY AskIs
  <2>3. p1 \in Profiles /\ p1.user = w /\ p1.portfolio = profile.portfolio
    BY DEF Profiles, Anyone
  <2>. HIDE DEF p1
  <2>4. p2 \in Profiles /\ p2.user = w /\ p2.portfolio = profile.portfolio /\ p2.ask = s
    BY <2>1, <2>3 DEF Profiles
  <2>. HIDE DEF p2
  <2>5. ProfileOK(profile', loads')
    BY <2>1, <2>2, <2>4 DEF ProfileOK
  <2>. QED BY <2>1, <2>2, <2>4, <2>5 DEF MineInv, WalletsOK, LoadsOK, LoadOK, SeenOK,
              Mine!CountedOnce, PaymentsOK
<1>3. CASE Mine!SignOut
  <2>1. profile' = [user |-> Mine!NoWallet, ask |-> 0, portfolio |-> Mine!Nothing]
        /\ UNCHANGED <<owned, tokens, had, payments, connected, loads, balances, redeem, reported>>
    BY <1>3 DEF Mine!SignOut, Mine!chain, Mine!page, Mine!NoSlot
  <2>2. ProfileOK(profile', loads) /\ profile'.portfolio = Mine!Nothing
    BY <2>1, NothingIs DEF ProfileOK, Profiles, Anyone, SeenOK
  <2>. QED BY <2>1, <2>2, NothingIs DEF MineInv, WalletsOK, LoadsOK, LoadOK, SeenOK,
              Mine!CountedOnce, PaymentsOK
<1>. QED BY <1>1, <1>2, <1>3 DEF Mine!Visiting, Anyone

LEMMA MineInductive == MineInv /\ [Mine!Next]_(Mine!vars) => MineInv'
<1>. SUFFICES ASSUME MineInv, [Mine!Next]_(Mine!vars) PROVE MineInv'
  OBVIOUS
<1>1. CASE UNCHANGED Mine!vars
  BY <1>1 DEF Mine!vars, Mine!chain, Mine!page, MineInv, WalletsOK, LoadsOK, LoadOK, SeenOK,
     Mine!CountedOnce, PaymentsOK
<1>2. CASE Mine!Loading
  BY <1>2, ReadsKeepMine, RepliesKeepMine DEF Mine!Loading
<1>. QED BY <1>1, <1>2, RedeemingKeepsMine, VisitingKeepsMine, ChainKeepsMine DEF Mine!Next

-----------------------------------------------------------------------------
(* The search for the best sale (TradeDesk). *)

PowerStep(f, k) == IF k = 0 THEN 1 ELSE 2 * f[k - 1]
IsPower(f, n) == f = [k \in 0..n |-> PowerStep(f, k)]

LEMMA PowerExists ==
    ASSUME NEW n \in Nat
    PROVE  \E f : IsPower(f, n)
<1>. DEFINE Bad == {m \in Nat : ~\E f : IsPower(f, m)}
<1>1. SUFFICES ASSUME Bad # {} PROVE FALSE
  OBVIOUS
<1>2. PICK m \in Bad : \A k \in Bad : m <= k
  BY <1>1, LeastOf
<1>3. m # 0
  <2>. DEFINE f == [k \in 0..0 |-> 1]
  <2>1. IsPower(f, 0)
    BY DEF IsPower, PowerStep
  <2>. QED BY <1>2, <2>1
<1>4. m - 1 \in Nat /\ m - 1 \notin Bad
  BY <1>2, <1>3
<1>5. PICK f : IsPower(f, m - 1)
  BY <1>4
<1>. DEFINE g == [k \in 0..m |-> IF k < m THEN f[k] ELSE PowerStep(f, m)]
<1>6. ASSUME NEW k \in 0..m PROVE g[k] = PowerStep(g, k)
  <2>1. k # 0 => g[k - 1] = f[k - 1]
    OBVIOUS
  <2>2. PowerStep(g, k) = PowerStep(f, k)
    <3>. HIDE DEF g
    <3>. QED BY <2>1 DEF PowerStep
  <2>3. k < m => f[k] = PowerStep(f, k)
    <3>1. ASSUME k < m PROVE k \in 0..(m - 1)
      BY <1>4, <3>1
    <3>. QED BY <1>5, <3>1 DEF IsPower
  <2>. QED BY <2>2, <2>3
<1>7. g = [k \in 0..m |-> PowerStep(g, k)]
  BY <1>6
<1>. HIDE DEF g
<1>8. IsPower(g, m)
  BY <1>7 DEF IsPower
<1>. QED BY <1>2, <1>8

(* Powers of two double, and are positive. *)
LEMMA TwoToDoubles ==
    /\ TwoTo[0] = 1
    /\ \A k \in 0..MaxSteps : TwoTo[k] \in Nat \ {0}
    /\ \A k \in 1..MaxSteps : TwoTo[k] = 2 * TwoTo[k - 1]
<1>0. MaxSteps \in Nat
  BY DeskAssumption
<1>1. IsPower(TwoTo, MaxSteps)
  BY <1>0, PowerExists DEF TwoTo, IsPower, PowerStep
<1>2. \A k \in 0..MaxSteps : TwoTo[k] = PowerStep(TwoTo, k)
  BY <1>1 DEF IsPower
<1>. DEFINE Bad == {m \in Nat : m <= MaxSteps /\ TwoTo[m] \notin Nat \ {0}}
<1>3. SUFFICES ASSUME Bad # {} PROVE FALSE
  BY <1>0, <1>2 DEF PowerStep
<1>4. PICK m \in Bad : \A k \in Bad : m <= k
  BY <1>3, LeastOf
<1>5. m \in 0..MaxSteps /\ m # 0 /\ TwoTo[m] = 2 * TwoTo[m - 1]
  BY <1>0, <1>2, <1>4 DEF PowerStep
<1>6. m - 1 \in 0..MaxSteps /\ m - 1 \notin Bad
  BY <1>0, <1>4, <1>5
<1>7. TwoTo[m - 1] \in Nat \ {0}
  BY <1>6
<1>. QED BY <1>4, <1>5, <1>7

(* The quotients of a smaller divisor, and of a larger dividend, are no less. *)
LEMMA CeilDivGrows ==
    ASSUME NEW x \in Nat, NEW z \in Nat, x <= z, NEW y \in Nat \ {0}, NEW w \in Nat \ {0},
           w <= y
    PROVE  ceildiv(x, y) <= ceildiv(z, w)
<1>. DEFINE a == (x - 1) \div y
            b == (z - 1) \div w
<1>1. CASE x = 0
  <2>1. ceildiv(x, y) = 0
    BY <1>1 DEF ceildiv
  <2>. QED BY <2>1, CeilDivCovers
<1>2. CASE x > 0
  <2>1. a \in Nat /\ y * a <= x - 1 /\ b \in Nat /\ z - 1 < w * b + w
    BY <1>2, DivBounds
  <2>2. w * a <= y * a
    BY <2>1
  <2>3. w * a <= z - 1
    BY <1>2, <2>1, <2>2
  <2>4. a <= b
    BY <1>2, <2>1, <2>3, DivLargest
  <2>. QED BY <1>2, <2>1, <2>4 DEF ceildiv
<1>. QED BY <1>1, <1>2

LEMMA GrossGrows ==
    ASSUME NEW r \in Nat, NEW s \in Nat, r <= s
    PROVE  SellGross(r) \in Nat /\ SellGross(s) \in Nat /\ SellGross(r) <= SellGross(s)
<1>. DEFINE d == ONE - Fee
            a == (r * ONE) \div d
            b == (s * ONE) \div d
<1>1. d \in Nat \ {0} /\ r * ONE \in Nat /\ s * ONE \in Nat /\ r * ONE <= s * ONE
  BY FpmmAssumption
<1>2. a \in Nat /\ b \in Nat /\ d * a <= r * ONE
  BY <1>1, DivBounds
<1>. HIDE DEF d
<1>3. d * a <= s * ONE
  BY <1>1, <1>2
<1>4. a <= b
  <2>. DEFINE m == s * ONE
  <2>1. m \in Nat /\ d * a <= m
    BY <1>1, <1>3
  <2>. HIDE DEF m
  <2>2. a <= m \div d
    BY <1>1, <1>2, <2>1, DivLargest
  <2>. QED BY <2>2 DEF m
<1>. QED BY <1>2, <1>4 DEF d, SellGross

(* A larger return takes no fewer tokens, while the pool answers. *)
LEMMA RequiredGrows ==
    ASSUME TypeOK, NEW o \in Outcomes, NEW r \in Nat, NEW s \in Nat, r <= s,
           SellAnswers(s, o)
    PROVE  /\ SellRequired(r, o) \in Int /\ SellRequired(s, o) \in Int
           /\ SellRequired(r, o) <= SellRequired(s, o)
<1>. DEFINE p == pool[o]
            q == pool[Other(o)]
            g == SellGross(r)
            h == SellGross(s)
<1>1. p \in Nat /\ q \in Nat /\ p * ONE * q \in Nat /\ ONE \in Nat \ {0}
  BY FpmmAssumption DEF TypeOK, Outcomes, Other
<1>2. g \in Nat /\ h \in Nat /\ g <= h /\ h < q
  BY GrossGrows DEF SellAnswers
<1>. HIDE DEF p, q, g, h
<1>3. q - g \in Nat \ {0} /\ q - h \in Nat \ {0} /\ q - h <= q - g
  BY <1>1, <1>2
<1>. DEFINE e == ceildiv(p * ONE * q, q - g)
            f == ceildiv(p * ONE * q, q - h)
<1>4. e \in Nat /\ f \in Nat /\ e <= f
  <2>. DEFINE k == p * ONE * q
  <2>1. k \in Nat
    BY <1>1
  <2>. HIDE DEF k
  <2>2. ceildiv(k, q - g) \in Nat /\ ceildiv(k, q - h) \in Nat /\ ceildiv(k, q - g) <= ceildiv(k, q - h)
    BY <1>3, <2>1, CeilDivGrows, CeilDivCovers
  <2>. QED BY <2>2 DEF k
<1>5. e = SellEnding(g, o) /\ f = SellEnding(h, o)
  BY DEF SellEnding, p, q
<1>. HIDE DEF e, f
<1>6. ceildiv(e, ONE) \in Nat /\ ceildiv(f, ONE) \in Nat /\ ceildiv(e, ONE) <= ceildiv(f, ONE)
  BY <1>1, <1>4, CeilDivGrows, CeilDivCovers
<1>7. SellRequired(r, o) = g + ceildiv(e, ONE) - p /\ SellRequired(s, o) = h + ceildiv(f, ONE) - p
  BY <1>5 DEF SellRequired, p, g, h
<1>. QED BY <1>1, <1>2, <1>6, <1>7

LEMMA CeilDivExact ==
    ASSUME NEW k \in Nat, NEW y \in Nat \ {0}
    PROVE  ceildiv(k * y, y) = k
<1>1. CASE k = 0
  <2>1. ceildiv(k * y, y) = 0 \div y
    BY <1>1 DEF ceildiv
  <2>2. 0 \div y = 0
    BY DivUnique
  <2>. QED BY <1>1, <2>1, <2>2
<1>2. CASE k > 0
  <2>. DEFINE x == k * y - 1
  <2>1. y * (k - 1) = k * y - y /\ k * y >= y
    BY <1>2
  <2>2. x \in Nat /\ k - 1 \in Nat /\ y * (k - 1) <= x /\ x < y * (k - 1) + y /\ k * y > 0
    BY <1>2, <2>1
  <2>3. x \div y = k - 1
    <3>. HIDE DEF x
    <3>. QED BY <2>2, DivUnique
  <2>. QED BY <1>2, <2>2, <2>3 DEF ceildiv
<1>. QED BY <1>1, <1>2

\* What the reserves p pay for with the tokens of an order.
EndingOn(p, g, x) == ceildiv(p[x] * ONE * p[Other(x)], p[Other(x)] - g)
Payable(p, o, r) ==
    /\ p[Other(o.out)] > SellGross(r) /\ EndingOn(p, SellGross(r), o.out) > 0
    /\ SellGross(r) + ceildiv(EndingOn(p, SellGross(r), o.out), ONE) - p[o.out] <= o.n

LEMMA FitsIs == \A r : Fits(r) <=> Payable(pool, order, r)
BY DEF Fits, PaidBy, Payable, EndingOn, SellAnswers, SellRequired, SellEnding

\* Between two reads: nothing above hi is payable, lo is, and each read has
\* halved what is between them.
Narrowed(p, o) ==
    /\ o.lo \in Nat /\ o.hi \in 0..o.n /\ o.lo <= o.hi /\ o.quote = o.lo
    /\ o.lo > 0 => Payable(p, o, o.lo)
    /\ \A s \in 0..o.n : Payable(p, o, s) => s <= o.hi
    /\ o.steps \in 0..MaxSteps /\ (o.hi - o.lo) * TwoTo[o.steps] <= o.n
    /\ o.pc = "last" => o.hi - o.lo <= 1

Tight(p, o) ==
    \E best \in 0..o.n :
        /\ Payable(p, o, best) /\ \A s \in 0..o.n : Payable(p, o, s) => s <= best
        /\ best - o.quote \in 0..(o.n \div TwoTo[MaxSteps])

SearchOK(p, o) ==
    o.side = "SELL" /\ ~o.moved =>
        /\ o.pc \in {"pool", "quote", "last"} => Narrowed(p, o)
        /\ o.pc \in {"check", "approve"} => Tight(p, o)

SearchInv == DeskInv /\ SearchOK(pool, order)

(* Nothing costs nothing, where the pool answers at all. *)
LEMMA ZeroFits ==
    ASSUME DeskInv, NEW s \in Nat, SellAnswers(s, order.out)
    PROVE  Fits(0)
<1>. DEFINE x == order.out
            p == pool[x]
            q == pool[Other(x)]
<1>1. TypeOK /\ x \in Outcomes /\ order.n \in Nat
  BY DEF DeskInv, PageOK, OrderType
<1>2. p \in Nat /\ q \in Nat /\ ONE \in Nat \ {0}
  BY <1>1, FpmmAssumption DEF TypeOK, Outcomes, Other
<1>3. SellGross(0) = 0
  <2>1. ONE - Fee \in Nat \ {0} /\ 0 * ONE = 0
    BY FpmmAssumption
  <2>2. 0 \div (ONE - Fee) = 0
    <3>. DEFINE d == ONE - Fee
    <3>1. d \in Nat \ {0}
      BY <2>1
    <3>. HIDE DEF d
    <3>2. 0 \div d = 0
      BY <3>1, DivUnique
    <3>. QED BY <3>2 DEF d
  <2>. QED BY <2>1, <2>2 DEF SellGross
<1>4. q > 0 /\ ceildiv(p * ONE * q, q - SellGross(s)) > 0 /\ SellGross(s) \in Nat
      /\ q - SellGross(s) \in Nat \ {0}
  <2>1. SellGross(s) \in Nat
    BY GrossGrows
  <2>. QED BY <1>2, <2>1 DEF SellAnswers, SellEnding
<1>. HIDE DEF x, p, q
<1>5. p > 0
  <2>1. SUFFICES ASSUME p = 0 PROVE FALSE
    BY <1>2
  <2>2. p * ONE * q = 0
    BY <1>2, <2>1
  <2>. DEFINE y == q - SellGross(s)
  <2>3. y \in Nat \ {0} /\ ceildiv(0, y) > 0
    BY <1>4, <2>2
  <2>. HIDE DEF y
  <2>4. ceildiv(0, y) = 0
    <3>1. 0 \div y = 0
      BY <2>3, DivUnique
    <3>. QED BY <3>1 DEF ceildiv
  <2>. QED BY <2>3, <2>4
<1>6. ceildiv(p * ONE * q, q) = p * ONE /\ ceildiv(p * ONE, ONE) = p /\ p * ONE > 0
  <2>. DEFINE k == p * ONE
  <2>1. k \in Nat /\ k > 0
    BY <1>2, <1>5
  <2>. HIDE DEF k
  <2>2. ceildiv(k * q, q) = k
    BY <1>2, <1>4, <2>1, CeilDivExact
  <2>3. ceildiv(p * ONE, ONE) = p
    BY <1>2, CeilDivExact
  <2>. QED BY <2>1, <2>2, <2>3 DEF k
<1>7. q - 0 = q
  BY <1>2
<1>8. SellEnding(0, x) = p * ONE
  BY <1>6, <1>7 DEF SellEnding, p, q
<1>9. SellRequired(0, x) = 0 /\ SellAnswers(0, x)
  BY <1>2, <1>3, <1>4, <1>6, <1>8 DEF SellRequired, SellAnswers, p, q
<1>. QED BY <1>1, <1>9 DEF Fits, PaidBy, x

(* One read of the search. *)
LEMMA ProbeNarrows ==
    ASSUME SearchInv, order.side = "SELL", ~order.moved, order.pc = "quote",
           order.steps < MaxSteps, NEW mid, mid = Mid(order.lo, order.hi),
           SellAnswers(mid, order.out)
    PROVE  LET lo == IF Fits(mid) THEN mid ELSE order.lo
               hi == IF Fits(mid) THEN order.hi ELSE mid - 1
           IN  /\ lo \in Nat /\ hi \in 0..order.n /\ lo <= hi
               /\ IF Fits(mid) THEN mid = lo ELSE order.quote = lo
               /\ lo > 0 => Fits(lo)
               /\ \A s \in 0..order.n : Fits(s) => s <= hi
               /\ order.steps + 1 \in 0..MaxSteps
               /\ (hi - lo) * TwoTo[order.steps + 1] <= order.n
<1>. DEFINE a == order.lo
            b == order.hi
            n == order.n
            k == order.steps
            T == TwoTo[k]
            lo == IF Fits(mid) THEN mid ELSE a
            hi == IF Fits(mid) THEN b ELSE mid - 1
<1>0. TypeOK /\ order.out \in Outcomes /\ n \in Nat /\ DeskInv
  BY DEF SearchInv, DeskInv, PageOK, OrderType
<1>1. /\ a \in Nat /\ b \in 0..n /\ a <= b /\ order.quote = a
      /\ a > 0 => Fits(a)
      /\ \A s \in 0..n : Fits(s) => s <= b
      /\ k \in 0..MaxSteps /\ (b - a) * T <= n
  BY FitsIs DEF SearchInv, SearchOK, Narrowed
<1>2. T \in Nat \ {0} /\ TwoTo[k + 1] = 2 * T /\ k + 1 \in 0..MaxSteps
  <2>1. MaxSteps \in Nat /\ k + 1 \in 1..MaxSteps
    BY <1>1, DeskAssumption
  <2>2. (k + 1) - 1 = k
    BY <1>1
  <2>3. TwoTo[k + 1] = 2 * TwoTo[(k + 1) - 1]
    BY <2>1, TwoToDoubles
  <2>. QED BY <1>1, <2>1, <2>2, <2>3, TwoToDoubles
<1>. HIDE DEF T
<1>3. mid = ((a + b) \div 2) + (IF b > a THEN 1 ELSE 0)
  BY DEF Mid
<1>4. mid \in a..b /\ (b > a => mid > a /\ 2 * (b - mid) <= b - a /\ 2 * (mid - 1 - a) <= b - a)
  <2>. HIDE DEF a, b
  <2>. QED BY <1>1, <1>3
<1>5. b = a => Fits(mid)
  <2>1. SUFFICES ASSUME b = a PROVE Fits(mid)
    OBVIOUS
  <2>2. mid = a
    BY <1>1, <1>4, <2>1
  <2>. QED BY <1>0, <1>1, <2>2, ZeroFits
<1>6. \A s \in 0..n : Fits(s) => s <= hi
  <2>1. SUFFICES ASSUME NEW s \in 0..n, Fits(s), ~Fits(mid), s >= mid PROVE FALSE
    BY <1>1, <1>4
  <2>2. SellAnswers(s, order.out) /\ SellRequired(s, order.out) <= n
    BY <2>1 DEF Fits, PaidBy
  <2>3. mid \in Nat /\ s \in Nat
    BY <1>1, <1>4
  <2>4. SellRequired(mid, order.out) <= n
    <3>1. /\ SellRequired(mid, order.out) \in Int /\ SellRequired(s, order.out) \in Int
          /\ SellRequired(mid, order.out) <= SellRequired(s, order.out)
      BY <1>0, <2>1, <2>2, <2>3, RequiredGrows
    <3>. QED BY <1>0, <2>2, <3>1
  <2>. QED BY <2>1, <2>4 DEF Fits, PaidBy
<1>7. lo \in Nat /\ hi \in 0..n /\ lo <= hi /\ 2 * (hi - lo) <= b - a
  <2>1. CASE Fits(mid)
    <3>1. lo = mid /\ hi = b
      BY <2>1
    <3>. HIDE DEF a, b, lo, hi, n
    <3>. QED BY <1>0, <1>1, <1>4, <3>1
  <2>2. CASE ~Fits(mid)
    <3>1. lo = a /\ hi = mid - 1 /\ b # a
      BY <1>5, <2>2
    <3>. HIDE DEF a, b, lo, hi, n
    <3>. QED BY <1>0, <1>1, <1>4, <3>1
  <2>. QED BY <2>1, <2>2
<1>8. (hi - lo) * TwoTo[k + 1] <= n
  <2>. DEFINE c == hi - lo
              d == b - a
  <2>1. c \in Nat /\ d \in Nat /\ 2 * c <= d /\ d * T <= n
    BY <1>1, <1>7
  <2>. HIDE DEF c, d
  <2>2. c * (2 * T) = (2 * c) * T /\ (2 * c) * T <= d * T
    BY <1>2, <2>1
  <2>3. c * (2 * T) <= n
    BY <1>0, <1>2, <2>1, <2>2
  <2>. QED BY <1>2, <2>3 DEF c
<1>9. lo > 0 => Fits(lo)
  BY <1>1
<1>. QED BY <1>1, <1>2, <1>6, <1>7, <1>8, <1>9

\* The order o asks for what order does, and stands no further on in its search.
Follows(o) ==
    /\ o.side = order.side /\ o.n = order.n /\ o.out = order.out /\ o.moved = order.moved
    /\ o.lo = order.lo /\ o.hi = order.hi /\ o.quote = order.quote /\ o.steps = order.steps
    /\ \/ o.pc \notin {"pool", "quote", "last", "check", "approve"}
       \/ o.pc = order.pc
       \/ o.pc = "quote" /\ order.pc = "pool"
       \/ o.pc = "approve" /\ order.pc = "check"

LEMMA SearchFollows ==
    ASSUME SearchInv, NEW o, Follows(o)
    PROVE  SearchOK(pool, o)
<1>1. SearchOK(pool, order)
  BY DEF SearchInv
<1>2. \A r : Payable(pool, o, r) <=> Payable(pool, order, r)
  BY DEF Follows, Payable
<1>3. ASSUME o.side = "SELL", ~o.moved, o.pc \in {"pool", "quote", "last"}
      PROVE  Narrowed(pool, o)
  <2>1. Narrowed(pool, order)
    BY <1>1, <1>3 DEF SearchOK, Follows
  <2>. QED BY <1>2, <1>3, <2>1 DEF Narrowed, Follows
<1>4. ASSUME o.side = "SELL", ~o.moved, o.pc \in {"check", "approve"}
      PROVE  Tight(pool, o)
  <2>1. Tight(pool, order)
    BY <1>1, <1>4 DEF SearchOK, Follows
  <2>. QED BY <1>2, <2>1 DEF Tight, Follows
<1>. QED BY <1>3, <1>4 DEF SearchOK

(* An order that is not in its search, or not a sale, claims nothing. *)
LEMMA NoSearch ==
    ASSUME NEW p, NEW o,
           \/ o.side # "SELL"
           \/ o.moved
           \/ o.pc \notin {"pool", "quote", "last", "check", "approve"}
    PROVE  SearchOK(p, o)
BY DEF SearchOK

LEMMA PricedTight ==
    ASSUME SearchInv, order.side = "SELL", ~order.moved, NEW q \in 0..order.n,
           q > 0 => Fits(q),
           \A s \in 0..order.n : Fits(s) => s - q <= order.n \div TwoTo[MaxSteps]
    PROVE  SearchOK(pool, Priced(q))
<1>. DEFINE n == order.n
            W == n \div TwoTo[MaxSteps]
<1>1. n \in Nat /\ order \in OrderType
  BY DEF SearchInv, DeskInv, PageOK, OrderType
<1>2. W \in Nat
  <2>1. TwoTo[MaxSteps] \in Nat \ {0}
    BY DeskAssumption, TwoToDoubles
  <2>. DEFINE t == TwoTo[MaxSteps]
  <2>2. t \in Nat \ {0}
    BY <2>1
  <2>. HIDE DEF t
  <2>3. n \div t \in Nat
    BY <1>1, <2>2, DivBounds
  <2>. QED BY <2>3 DEF t
<1>3. CASE MinOut(q) > 0
  <2>1. q > 0
    <3>1. SUFFICES ASSUME q = 0 PROVE FALSE
      BY <1>1
    <3>2. 0 * (Den - Slip) = 0 /\ Den \in Nat \ {0}
      BY DeskAssumption
    <3>3. 0 \div Den = 0
      BY <3>2, DivUnique
    <3>. QED BY <1>3, <3>1, <3>2, <3>3 DEF MinOut
  <2>. DEFINE o == [order EXCEPT !.pc = "check", !.quote = q, !.min = MinOut(q)]
              S == {s \in 0..n : Fits(s)}
              D == {n - s : s \in S}
  <2>2. Priced(q) = o
    BY <1>3 DEF Priced
  <2>3. o.n = n /\ o.out = order.out /\ o.quote = q /\ o.pc = "check"
    BY DEF OrderType, SearchInv, DeskInv, PageOK
  <2>. HIDE DEF o
  <2>4. \A r : Payable(pool, o, r) <=> Fits(r)
    BY <2>3, FitsIs DEF Payable
  <2>5. PICK best \in S : \A s \in S : s <= best
    <3>1. q \in S /\ D \in SUBSET Nat /\ n - q \in D
      BY <1>1, <2>1
    <3>2. PICK d \in D : \A e \in D : d <= e
      BY <3>1, LeastOf
    <3>3. PICK b \in S : d = n - b
      BY <3>2
    <3>4. ASSUME NEW s \in S PROVE s <= b
      <4>1. n - s \in D
        OBVIOUS
      <4>2. n - b <= n - s
        BY <3>2, <3>3, <4>1
      <4>. QED BY <1>1, <4>2
    <3>. QED BY <3>3, <3>4
  <2>6. q <= best /\ best - q <= W /\ best \in 0..n
    BY <2>1, <2>5
  <2>7. best - q \in 0..W
    BY <1>1, <1>2, <2>6
  <2>8. Tight(pool, o)
    BY <2>3, <2>4, <2>5, <2>6, <2>7 DEF Tight
  <2>. QED BY <2>2, <2>3, <2>8 DEF SearchOK
<1>4. CASE ~(MinOut(q) > 0)
  <2>1. Priced(q).pc = "idle"
    BY <1>1, <1>4 DEF Priced, Report, OrderType
  <2>. QED BY <2>1, NoSearch
<1>. QED BY <1>3, <1>4

(* The reads of the search. *)
LEMMA QuotingSearches ==
    ASSUME SearchInv, Quoting
    PROVE  SearchOK(pool, order)'
<1>. DEFINE n == order.n
<1>0. order \in OrderType /\ n \in Nat /\ DeskInv
  BY DEF SearchInv, DeskInv, PageOK, OrderType
<1>1. Report("error", order).pc = "idle"
  BY <1>0, ReportIs
<1>2. ASSUME NEW o, Step(o), SearchOK(pool, o) PROVE SearchOK(pool, order)'
  <2>1. order' = o /\ pool' = pool
    BY <1>2 DEF Step, vars, ledger
  <2>. QED BY <1>2, <2>1
<1>3. CASE Step(Report("error", order))
  BY <1>1, <1>2, <1>3, NoSearch
<1>4. CASE order.side = "BUY" \/ order.moved
  <2>1. order'.side = order.side /\ order'.moved = order.moved
    <3>1. CASE QuoteBuy
      BY <1>0, <3>1 DEF QuoteBuy, Step, Priced, Report, OrderType
    <3>2. CASE Probe
      BY <1>0, <3>2 DEF Probe, Step, Report, OrderType
    <3>3. CASE ProbeLast
      BY <1>0, <3>3 DEF ProbeLast, Step, Priced, Report, OrderType
    <3>4. CASE SearchEnds
      BY <1>0, <3>4 DEF SearchEnds, Step, Priced, Report, OrderType
    <3>. QED BY <3>1, <3>2, <3>3, <3>4 DEF Quoting
  <2>2. order'.side # "SELL" \/ order'.moved
    BY <1>4, <2>1
  <2>. QED BY <2>2 DEF SearchOK
<1>5. ASSUME order.side = "SELL", ~order.moved, Probe,
             SellAnswers(Mid(order.lo, order.hi), order.out)
      PROVE  SearchOK(pool, order)'
  <2>. DEFINE mid == Mid(order.lo, order.hi)
              lo == IF Fits(mid) THEN mid ELSE order.lo
              hi == IF Fits(mid) THEN order.hi ELSE mid - 1
              q  == IF Fits(mid) THEN mid ELSE order.quote
              k  == order.steps + 1
              next == [order EXCEPT !.steps = @ + 1, !.lo = IF Fits(mid) THEN mid ELSE @,
                              !.hi = IF Fits(mid) THEN @ ELSE mid - 1,
                              !.quote = IF Fits(mid) THEN mid ELSE @]
              o == [next EXCEPT !.pc = IF next.hi - next.lo <= 1 THEN "last" ELSE "quote"]
  <2>1. Step(o) /\ order.pc = "quote" /\ order.steps < MaxSteps
    BY <1>5 DEF Probe
  <2>2. /\ lo \in Nat /\ hi \in 0..n /\ lo <= hi /\ q = lo
        /\ lo > 0 => Fits(lo)
        /\ \A s \in 0..n : Fits(s) => s <= hi
        /\ k \in 0..MaxSteps /\ (hi - lo) * TwoTo[k] <= n
    BY <1>5, <2>1, ProbeNarrows
  <2>. HIDE DEF mid
  <2>3. next = [order EXCEPT !.steps = k, !.lo = lo, !.hi = hi, !.quote = q]
    OBVIOUS
  <2>. HIDE DEF lo, hi, q, k, next
  <2>4. /\ o.n = n /\ o.out = order.out /\ o.lo = lo /\ o.hi = hi /\ o.quote = q /\ o.steps = k
        /\ o.pc = IF hi - lo <= 1 THEN "last" ELSE "quote"
    BY <1>0, <2>3 DEF OrderType
  <2>. HIDE DEF o
  <2>5. \A r : Payable(pool, o, r) <=> Fits(r)
    BY <2>4, FitsIs DEF Payable
  <2>6. Narrowed(pool, o)
    BY <2>2, <2>4, <2>5 DEF Narrowed
  <2>7. o.pc \in {"last", "quote"}
    BY <2>4
  <2>8. SearchOK(pool, o)
    BY <2>6, <2>7 DEF SearchOK
  <2>. QED BY <1>2, <2>1, <2>8
<1>6. ASSUME order.side = "SELL", ~order.moved, ProbeLast, SellAnswers(order.hi, order.out)
      PROVE  SearchOK(pool, order)'
  <2>. DEFINE q == IF Fits(order.hi) THEN order.hi ELSE order.quote
              W == n \div TwoTo[MaxSteps]
  <2>1. Step(Priced(q)) /\ order.pc = "last"
    BY <1>6 DEF ProbeLast
  <2>2. /\ order.lo \in Nat /\ order.hi \in 0..n /\ order.lo <= order.hi
        /\ order.quote = order.lo /\ order.hi - order.lo <= 1
        /\ order.lo > 0 => Fits(order.lo)
        /\ \A s \in 0..n : Fits(s) => s <= order.hi
    BY <1>6, <2>1, FitsIs DEF SearchInv, SearchOK, Narrowed
  <2>3. W \in Nat
    <3>. DEFINE t == TwoTo[MaxSteps]
    <3>1. t \in Nat \ {0}
      BY DeskAssumption, TwoToDoubles
    <3>. HIDE DEF t
    <3>2. n \div t \in Nat
      BY <1>0, <3>1, DivBounds
    <3>. QED BY <3>2 DEF t
  <2>4. q \in 0..n /\ (q > 0 => Fits(q))
    <3>1. CASE Fits(order.hi)
      BY <2>2, <3>1
    <3>2. CASE ~Fits(order.hi)
      <4>1. q = order.lo
        BY <2>2, <3>2
      <4>. HIDE DEF q
      <4>2. q \in 0..n
        BY <1>0, <2>2, <4>1
      <4>. QED BY <2>2, <4>1, <4>2
    <3>. QED BY <3>1, <3>2
  <2>5. ASSUME NEW s \in 0..n, Fits(s) PROVE s - q <= W
    <3>1. s <= q
      <4>1. CASE Fits(order.hi)
        BY <2>2, <2>5, <4>1
      <4>2. CASE ~Fits(order.hi)
        <5>1. s # order.hi /\ s <= order.hi /\ q = order.lo
          BY <2>2, <2>5, <4>2
        <5>. HIDE DEF q
        <5>. QED BY <2>2, <5>1
      <4>. QED BY <4>1, <4>2
    <3>. HIDE DEF W, q
    <3>. QED BY <2>3, <2>4, <2>5, <3>1
  <2>. HIDE DEF q
  <2>6. SearchOK(pool, Priced(q))
    BY <1>6, <2>4, <2>5, PricedTight
  <2>. QED BY <1>2, <2>1, <2>6
<1>7. ASSUME order.side = "SELL", ~order.moved, SearchEnds
      PROVE  SearchOK(pool, order)'
  <2>. DEFINE q == order.quote
              t == TwoTo[MaxSteps]
              d == order.hi - order.lo
              W == n \div t
  <2>1. Step(Priced(q)) /\ order.pc = "quote" /\ order.steps >= MaxSteps
    BY <1>7 DEF SearchEnds
  <2>2. /\ order.lo \in Nat /\ order.hi \in 0..n /\ order.lo <= order.hi /\ q = order.lo
        /\ order.lo > 0 => Fits(order.lo)
        /\ \A s \in 0..n : Fits(s) => s <= order.hi
        /\ order.steps \in 0..MaxSteps /\ d * TwoTo[order.steps] <= n
    BY <1>7, <2>1, FitsIs DEF SearchInv, SearchOK, Narrowed
  <2>3. order.steps = MaxSteps /\ t \in Nat \ {0}
    BY <2>1, <2>2, DeskAssumption, TwoToDoubles
  <2>4. d \in Nat /\ t * d <= n
    BY <2>2, <2>3
  <2>5. d <= W
    <3>. HIDE DEF t, d
    <3>. QED BY <1>0, <2>3, <2>4, DivLargest
  <2>6. ASSUME NEW s \in 0..n, Fits(s) PROVE s - q <= W
    <3>1. W \in Nat
      <4>. HIDE DEF t
      <4>. QED BY <1>0, <2>3, DivBounds
    <3>. HIDE DEF W
    <3>. QED BY <2>2, <2>5, <2>6, <3>1
  <2>7. q \in 0..n /\ (q > 0 => Fits(q))
    <3>1. q = order.lo
      BY <2>2
    <3>. HIDE DEF q
    <3>2. q \in 0..n
      BY <1>0, <2>2, <3>1
    <3>. QED BY <2>2, <3>1, <3>2
  <2>8. SearchOK(pool, Priced(q))
    BY <1>7, <2>6, <2>7, PricedTight
  <2>. QED BY <1>2, <2>1, <2>8
<1>8. order.side \in {"BUY", "SELL"} /\ order.moved \in BOOLEAN
  BY <1>0 DEF OrderType, Sides
<1>9. CASE Probe /\ ~SellAnswers(Mid(order.lo, order.hi), order.out)
  BY <1>3, <1>9 DEF Probe
<1>10. CASE ProbeLast /\ ~SellAnswers(order.hi, order.out)
  BY <1>3, <1>10 DEF ProbeLast
<1>. QED BY <1>4, <1>5, <1>6, <1>7, <1>8, <1>9, <1>10 DEF Quoting, QuoteBuy

LEMMA SearchInductive == SearchInv /\ [DeskNext]_deskAll => SearchInv'
<1>. SUFFICES ASSUME SearchInv, [DeskNext]_deskAll PROVE SearchInv'
  OBVIOUS
<1>0. DeskInv /\ DeskInv' /\ order \in OrderType
  BY DeskInductive DEF SearchInv, DeskInv, PageOK
<1>1. SUFFICES SearchOK(pool, order)'
  BY <1>0 DEF SearchInv
<1>2. ASSUME NEW o, order' = o, pool' = pool, Follows(o) PROVE SearchOK(pool, order)'
  BY <1>2, SearchFollows
<1>3. ASSUME NEW o, order' = o, o.pc \notin {"pool", "quote", "last", "check", "approve"}
      PROVE  SearchOK(pool, order)'
  BY <1>3 DEF SearchOK
<1>4. CASE UNCHANGED deskAll \/ PageLoadsPool \/ Peek \/ PeekFails
  <2>1. order' = order /\ pool' = pool
    BY <1>4 DEF PageLoadsPool, Peek, PeekFails, deskAll, deskVars, vars, ledger
  <2>. QED BY <1>2, <2>1 DEF Follows
<1>5. ASSUME NEW side \in Sides, NEW x \in Outcomes, NEW n \in Orders, PlaceOrder(side, x, n)
      PROVE  SearchOK(pool, order)'
  <2>1. pool' = pool /\ n \in Nat
    BY <1>5, DeskAssumption DEF PlaceOrder, vars, ledger
  <2>. DEFINE pc == IF poolInit = "null" THEN "pool" ELSE "quote"
  <2>2. /\ order'.n = n /\ order'.lo = 0 /\ order'.hi = n /\ order'.quote = 0
        /\ order'.steps = 0 /\ order'.pc = pc
    BY <1>5 DEF PlaceOrder, NoOrder
  <2>3. TwoTo[0] = 1 /\ (n - 0) * 1 <= n /\ 0 \in 0..MaxSteps
    BY <2>1, TwoToDoubles, DeskAssumption
  <2>4. Narrowed(pool', order')
    BY <2>1, <2>2, <2>3 DEF Narrowed
  <2>5. SearchOK(pool', order')
    BY <2>2, <2>4 DEF SearchOK
  <2>. QED BY <2>5
<1>6. CASE Quoting
  BY <1>6, QuotingSearches
<1>7. CASE AwaitPool \/ PoolUnknown \/ Check \/ SignApproval \/ WalletRefuses \/ SignTrade \/ Settle
  <2>1. order' = order' /\ pool' = pool
    BY <1>7 DEF AwaitPool, PoolUnknown, Check, SignApproval, WalletRefuses, SignTrade, Settle,
       Step, vars, ledger
  <2>2. Follows(order')
    <3>1. CASE AwaitPool
      BY <1>0, <3>1 DEF AwaitPool, Report, Follows, OrderType
    <3>2. CASE Check
      BY <1>0, <3>2 DEF Check, Step, Report, Follows, OrderType
    <3>3. CASE SignApproval
      BY <1>0, <3>3 DEF SignApproval, Step, Follows, OrderType
    <3>4. CASE WalletRefuses
      BY <1>0, <3>4 DEF WalletRefuses, Step, Report, Follows, OrderType
    <3>5. CASE SignTrade
      BY <1>0, <3>5 DEF SignTrade, Step, Follows, OrderType
    <3>6. CASE Settle
      BY <1>0, <3>6 DEF Settle, Step, Report, Follows, OrderType
    <3>7. CASE PoolUnknown
      BY <1>0, <3>7 DEF PoolUnknown, Step, Report, Follows, OrderType
    <3>. QED BY <1>7, <3>1, <3>2, <3>3, <3>4, <3>5, <3>6, <3>7
  <2>. QED BY <1>2, <2>1, <2>2
<1>8. CASE ApprovalMined \/ TradeReverts \/ LoseReceipt
  <2>1. pool' = pool
    BY <1>8 DEF ApprovalMined, TradeReverts, TradeDue, LoseReceipt, Step, vars, ledger
  <2>2. Follows(order')
    BY <1>0, <1>8 DEF ApprovalMined, TradeReverts, LoseReceipt, Step, Follows, OrderType
  <2>. QED BY <1>2, <2>1, <2>2
<1>9. CASE TradeExecutes
  <2>1. order'.pc = order.pc /\ order.trade = "pending"
    BY <1>0, <1>9 DEF TradeExecutes, TradeDue, OrderType
  <2>2. order.pc \notin Early
    BY <1>0, <2>1 DEF DeskInv, PageOK
  <2>. QED BY <1>3, <2>1, <2>2 DEF Early
<1>10. CASE Others
  <2>1. order'.moved
    BY <1>0, <1>10 DEF Others, OrderType
  <2>. QED BY <2>1 DEF SearchOK
<1>11. CASE EarlierMined
  <2>1. (order' = order /\ pool' = pool) \/ order'.moved
    BY <1>0, <1>11 DEF EarlierMined, OrderType, vars, ledger
  <2>2. order'.moved => SearchOK(pool, order)'
    BY DEF SearchOK
  <2>. QED BY <1>2, <2>1, <2>2 DEF Follows
<1>12. CASE ReadUsdf \/ Refresh \/ RefreshFails
  <2>1. order'.pc \in {"idle", "tokens"}
    BY <1>0, <1>12 DEF ReadUsdf, Refresh, RefreshFails, Step, OrderType
  <2>. QED BY <1>3, <2>1
<1>13. CASE PeekLands
  <2>1. pool' = pool
    BY <1>13 DEF PeekLands, vars, ledger
  <2>2. Follows(order')
    BY <1>0, <1>13 DEF PeekLands, Follows, OrderType
  <2>. QED BY <1>2, <2>1, <2>2
<1>. QED BY <1>4, <1>5, <1>6, <1>7, <1>8, <1>9, <1>10, <1>11, <1>12, <1>13
         DEF DeskNext, Click, Desk, Signing, MinedOfMe, Balances

LEMMA SearchInit == DeskInit => SearchInv
<1>. SUFFICES ASSUME DeskInit PROVE SearchInv
  OBVIOUS
<1>1. order.pc = "idle"
  BY DEF DeskInit, NoOrder
<1>. QED BY <1>1, DeskInitInv, NoSearch DEF SearchInv

LEMMA SearchTight == SearchInv => QuoteTight
<1>. SUFFICES ASSUME SearchInv, order.side = "SELL", order.pc \in {"check", "approve"}, ~order.moved
              PROVE  BestReturn - order.quote \in 0..(order.n \div TwoTo[MaxSteps])
  BY DEF QuoteTight
<1>1. Tight(pool, order)
  BY DEF SearchInv, SearchOK
<1>. DEFINE paid == {r \in 0..order.n : Fits(r)}
<1>2. PICK best \in paid : /\ \A s \in paid : s <= best
                           /\ best - order.quote \in 0..(order.n \div TwoTo[MaxSteps])
  BY <1>1, FitsIs DEF Tight
<1>3. BestReturn = CHOOSE r \in paid : \A s \in paid : s <= r
  BY DEF BestReturn
<1>4. BestReturn \in paid /\ \A s \in paid : s <= BestReturn
  <2>. HIDE DEF paid
  <2>. QED BY <1>2, <1>3
<1>5. order.n \in Nat
  BY DEF SearchInv, DeskInv, PageOK, OrderType
<1>6. BestReturn = best
  BY <1>2, <1>4, <1>5
<1>. QED BY <1>2, <1>6

-----------------------------------------------------------------------------
(* The pages together. *)

PagesInv == SearchInv /\ SwapInv /\ TapeInv /\ MineInv

LEMMA SwapStays == SwapInv /\ UNCHANGED swapVars => SwapInv'
BY DEF swapVars, SwapInv, MoneyOK, Swap!Short, PanelOK

LEMMA DeskStays == SearchInv /\ UNCHANGED deskAll => SearchInv'
BY SearchInductive

LEMMA TapeStays == TapeInv /\ UNCHANGED liveVars => TapeInv'
BY DEF liveVars, TapeInv

LEMMA MineStays == MineInv /\ UNCHANGED mineVars => MineInv'
BY DEF mineVars, MineInv, WalletsOK, LoadsOK, LoadOK, SeenOK, Mine!CountedOnce, PaymentsOK

LEMMA PagesInductive == PagesInv /\ [PagesNext]_pages => PagesInv'
<1>. SUFFICES ASSUME PagesInv, [PagesNext]_pages PROVE PagesInv'
  OBVIOUS
<1>0. SearchInv /\ SwapInv /\ TapeInv /\ MineInv
  BY DEF PagesInv
<1>1. CASE UNCHANGED pages
  <2>1. UNCHANGED <<deskAll, swapVars, liveVars, mineVars>>
    BY <1>1 DEF pages
  <2>. QED BY <1>0, <2>1, DeskStays, SwapStays, TapeStays, MineStays DEF PagesInv
<1>2. CASE OrderPage
  <2>1. DeskNext /\ UNCHANGED <<swapVars, liveVars, mineVars>>
    BY <1>2 DEF OrderPage
  <2>. QED BY <1>0, <2>1, SearchInductive, SwapStays, TapeStays, MineStays DEF PagesInv
<1>3. CASE SwapPage
  <2>1. Swap!Next /\ UNCHANGED <<deskAll, liveVars, mineVars>>
    BY <1>3 DEF SwapPage
  <2>. QED BY <1>0, <2>1, DeskStays, SwapInductive, PagesConstants, TapeStays, MineStays DEF PagesInv
<1>4. CASE MarketPage
  <2>1. Tape!Next /\ UNCHANGED <<deskAll, swapVars, mineVars>>
    BY <1>4 DEF MarketPage
  <2>. QED BY <1>0, <2>1, DeskStays, SwapStays, TapeInductive, MineStays DEF PagesInv
<1>5. CASE Chart
  <2>1. UNCHANGED <<deskAll, swapVars, liveVars, mineVars>>
    BY <1>5 DEF Chart
  <2>. QED BY <1>0, <2>1, DeskStays, SwapStays, TapeStays, MineStays DEF PagesInv
<1>6. CASE Holdings
  <2>1. Mine!Next /\ UNCHANGED <<deskAll, swapVars, liveVars>>
    BY <1>6 DEF Holdings
  <2>. QED BY <1>0, <2>1, DeskStays, SwapStays, TapeStays, MineInductive DEF PagesInv
<1>. QED BY <1>1, <1>2, <1>3, <1>4, <1>5, <1>6 DEF PagesNext

LEMMA PagesInvariant == PagesSpec => []PagesInv
<1>1. PagesInit => PagesInv
  BY SearchInit, SwapInit, TapeInit, MineInit, PagesConstants DEF PagesInit, PagesInv
<1>. QED BY <1>1, PagesInductive, PTL DEF PagesSpec

(* Whatever the pages do, beside one another and with any fees and amounts,  *)
(* what the machine would lack if every holder of USDF sold is never more    *)
(* than the owner minted without payment and took out, and no purchase, sale *)
(* or fee adds to it.                                                        *)
THEOREM PagesStayBacked == PagesSpec => []Backed
<1>1. PagesInv => Backed
  BY MoneyBacked DEF PagesInv, SwapInv, Backed
<1>. QED BY <1>1, PagesInvariant, PTL

(* Any number of trades, summaries that overtake one another, events that    *)
(* come late, broken streams and reopened ones: the tape lists each trade    *)
(* once and none that was not indexed, and the banner tells a resolution     *)
(* that took place (Distinct, ApplySummary, HandleResolve).                  *)
THEOREM TapeStaysOnce == PagesSpec => []TapeOnce
<1>1. PagesInv => TapeOnce
  <2>. SUFFICES ASSUME PagesInv PROVE TapeOnce
    OBVIOUS
  <2>1. page.tape \in Seq(Nat) /\ DOMAIN page.tape = 1..Len(page.tape)
    BY DEF PagesInv, TapeInv, Tapes
  <2>. QED BY <2>1 DEF PagesInv, TapeInv, TapeOK, Below, Once, TapeOnce, Tape!TapeOnce
<1>. QED BY <1>1, PagesInvariant, PTL

(* At any depth of the pool, size of order, slippage and number of steps, and *)
(* with any trades of others in between: an order costs and brings what was   *)
(* signed, and on reserves that stay still the search for the best sale ends  *)
(* below it by no more than its steps could not halve away (calcSellAmount,   *)
(* handlePlaceOrder).                                                         *)
THEOREM OrdersStayFair == PagesSpec => []OrderFair
<1>1. PagesInv => OrderFair
  <2>. SUFFICES ASSUME PagesInv PROVE OrderFair
    OBVIOUS
  <2>1. PriceKept
    BY DEF PagesInv, SearchInv, DeskInv, GainOK, PriceKept
  <2>. QED BY <2>1, SearchTight DEF PagesInv, OrderFair
<1>. QED BY <1>1, PagesInvariant, PTL

(* No page tells what did not happen: an order or a swap that succeeded did, *)
(* a wallet told of its redemption has no token left, nobody is asked for a  *)
(* tip before some redemption was reported, holdings read while tokens are   *)
(* redeemed are not counted twice, and a profile shows its user's portfolio, *)
(* for any number of wallets, reads in flight, failures and clicks.          *)
THEOREM PagesReportTruly == PagesSpec => []ReportsTrue
<1>1. PagesInv => ReportsTrue
  <2>. SUFFICES ASSUME PagesInv PROVE ReportsTrue
    OBVIOUS
  <2>1. ReportTrue /\ Swap!PanelTrue
    BY DEF PagesInv, SearchInv, DeskInv, PageOK, ReportTrue, SwapInv, PanelOK, Swap!PanelTrue
  <2>2. Mine!CountedOnce(balances) /\ Mine!CountedOnce(profile.portfolio)
    BY DEF PagesInv, MineInv, SeenOK
  <2>3. Mine!RedeemTrue
    <3>1. DOMAIN payments = 1..Len(payments)
      BY DEF PagesInv, MineInv, PaymentsOK
    <3>. QED BY <3>1 DEF PagesInv, MineInv, PaymentsOK, Mine!RedeemTrue
  <2>4. Mine!ProfileOwn
    BY DEF PagesInv, MineInv, ProfileOK, Mine!ProfileOwn, Mine!NoSlot
  <2>. QED BY <2>1, <2>2, <2>3, <2>4 DEF ReportsTrue, Mine!HoldingsTrue
<1>. QED BY <1>1, PagesInvariant, PTL

-----------------------------------------------------------------------------
(* The reads of a market (MarketReads).                                     *)

\* A request that knows its reserves, from a row, from the chain or from nowhere.
Known == {"lastTrade", "probe", "probed", "boot", "booted", "spot", "spotted", "trades",
          "again", "done", "sync", "metricsSync", "update", "answer"}

Snapshots == [block : Nat, log : {0, 1}, at : Nat, reserves : SUBSET Nat]
ReadRecords == [pc : {"free", "liquidity", "metrics", "candles"} \union Known,
                began : Nat, empty : BOOLEAN, trade : Nat,
                tvl : [at : Nat, reserves : SUBSET Nat], chain : SUBSET Nat, head : Nat,
                stale : BOOLEAN, boot : Nat \union {-1}, sync : Nat \union {-1}]

\* Trades whose liquidity row is there too.
Rowed == IF job = Reads!NoJob THEN stored ELSE stored - 1

CountsOK ==
  /\ mined \in Nat /\ seen \in 0..mined /\ stored \in 0..mined /\ top \in 0..mined
  /\ served \in Nat /\ sync \in Nat \union {-1} /\ late \in BOOLEAN
  /\ job # Reads!NoJob => stored > 0 /\ job = [trade |-> stored, base |-> job.base]
  /\ job.base \in SUBSET Nat

\* One row for each trade that is indexed, and at most one snapshot.
RowsAre ==
  /\ snapshots \subseteq Snapshots
  /\ \A a \in snapshots : a.block <= mined /\ (a.log = 1 => a.block \in 1..Rowed)
  /\ \A a, b \in snapshots : a.log = b.log /\ (a.log = 0 \/ a.block = b.block) => a = b
  /\ \A t \in 1..Rowed : \E a \in snapshots : a.log = 1 /\ a.block = t

\* A row accounts for every trade up to its block, so does what the indexer
\* starts the next one from, and the cursor has a row.
Reached(n) == n <= 0 \/ \E a \in snapshots : n <= a.block
RowsCover ==
  late \/ /\ \A a \in snapshots : 1..a.block \subseteq a.reserves
          /\ job # Reads!NoJob => 1..(stored - 1) \subseteq job.base
          /\ Reached(top)

\* Balances are those of the pool since the request came and since its head.
ChainOK(q) ==
  q.chain = {} \/ \E m \in Nat : m <= mined /\ q.began <= m /\ q.head <= m /\ q.chain = 1..m

TvlOK(q) == q.pc \in Known => q.stale \/ late \/ 1..q.began \subseteq q.tvl.reserves

ReadOf(q) ==
  /\ q.began <= top /\ ChainOK(q) /\ TvlOK(q)
  /\ q.boot <= mined /\ (late \/ Reached(q.boot))

FreshInv ==
  /\ CountsOK /\ RowsAre /\ RowsCover
  /\ req \in [Requests -> ReadRecords]
  /\ \A r \in Requests : ReadOf(req[r])

Advances ==
  /\ mined \in Nat /\ mined' \in Nat /\ mined <= mined'
  /\ top \in Nat /\ top' \in Nat /\ top <= top'
  /\ snapshots \subseteq snapshots' /\ (late => late')

LEMMA ReadStays ==
  ASSUME NEW q \in ReadRecords, ReadOf(q), Advances
  PROVE  ReadOf(q)'
<1>1. q.began \in Nat /\ q.boot \in Int /\ q.head \in Nat
  BY DEF ReadRecords
<1>2. q.began <= top' /\ q.boot <= mined'
  BY <1>1 DEF ReadOf, Advances
<1>3. ChainOK(q)'
  <2>1. CASE q.chain = {}
    BY <2>1 DEF ChainOK
  <2>2. CASE q.chain # {}
    <3>1. PICK m \in Nat : m <= mined /\ q.began <= m /\ q.head <= m /\ q.chain = 1..m
      BY <2>2 DEF ReadOf, ChainOK
    <3>2. m <= mined'
      BY <3>1 DEF Advances
    <3>3. QED
      BY <3>1, <3>2 DEF ChainOK
  <2>3. QED
    BY <2>1, <2>2
<1>4. TvlOK(q)'
  BY DEF ReadOf, TvlOK, Advances
<1>5. late' \/ Reached(q.boot)'
  BY DEF ReadOf, Reached, Advances
<1>6. QED
  BY <1>2, <1>3, <1>4, <1>5 DEF ReadOf

LEMMA ReadMoves ==
  ASSUME FreshInv, Advances, NEW r \in Requests, NEW n \in ReadRecords,
         req' = [req EXCEPT ![r] = n], ReadOf(n)'
  PROVE  /\ req' \in [Requests -> ReadRecords]
         /\ (\A s \in Requests : ReadOf(req[s]))'
<1>1. req' \in [Requests -> ReadRecords]
  BY DEF FreshInv
<1>2. ASSUME NEW s \in Requests PROVE ReadOf(req[s])'
  <2>1. CASE s = r
    <3>1. req'[s] = n
      BY <2>1 DEF FreshInv
    <3>2. QED
      BY <3>1 DEF ReadOf, ChainOK, TvlOK
  <2>2. CASE s # r
    <3>1. req'[s] = req[s] /\ req[s] \in ReadRecords /\ ReadOf(req[s])
      BY <2>2 DEF FreshInv
    <3>2. PICK q \in ReadRecords : q = req[s]
      BY <3>1
    <3>3. ReadOf(q)'
      BY <3>1, <3>2, ReadStays
    <3>4. q = req'[s]
      BY <3>1, <3>2
    <3>5. QED
      BY <3>3, <3>4 DEF ReadOf, ChainOK, TvlOK
  <2>3. QED
    BY <2>1, <2>2
<1>3. QED
  BY <1>1, <1>2

\* A step of a request that has its reserves: what it has read it keeps, or has
\* from the chain.
Moves(q, n) ==
  /\ q.pc \in Known /\ n.began = q.began
  /\ n.chain \in {q.chain, {}} /\ n.head \in {q.head, 0} /\ n.boot \in {q.boot, -1}
  /\ \/ n.tvl.reserves = q.tvl.reserves /\ (q.stale => n.stale)
     \/ n.tvl.reserves = q.chain /\ q.chain # {}

LEMMA MovesWell ==
  ASSUME NEW q \in ReadRecords, NEW n \in ReadRecords, ReadOf(q), Moves(q, n), mined \in Nat
  PROVE  ReadOf(n)
<1>0. /\ q.began \in Nat /\ q.head \in Nat /\ q.boot \in Int /\ n.head \in Nat
      /\ n.stale \in BOOLEAN /\ q.stale \in BOOLEAN
  BY DEF ReadRecords
<1>1. n.began <= top /\ n.boot <= mined /\ (late \/ Reached(n.boot))
  BY <1>0 DEF ReadOf, Moves, Reached
<1>2. ChainOK(n)
  <2>1. CASE n.chain = {}
    BY <2>1 DEF ChainOK
  <2>2. CASE n.chain # {}
    <3>1. n.chain = q.chain
      BY <2>2 DEF Moves
    <3>2. PICK m \in Nat : m <= mined /\ q.began <= m /\ q.head <= m /\ q.chain = 1..m
      BY <2>2, <3>1 DEF ReadOf, ChainOK
    <3>3. n.head <= m /\ n.began <= m
      BY <1>0, <3>2 DEF Moves
    <3>4. QED
      BY <3>1, <3>2, <3>3 DEF ChainOK
  <2>3. QED
    BY <2>1, <2>2
<1>3. TvlOK(n)
  <2>1. CASE n.tvl.reserves = q.tvl.reserves /\ (q.stale => n.stale)
    BY <2>1 DEF ReadOf, TvlOK, Moves
  <2>2. CASE n.tvl.reserves = q.chain /\ q.chain # {}
    <3>1. PICK m \in Nat : q.began <= m /\ q.chain = 1..m
      BY <2>2 DEF ReadOf, ChainOK
    <3>2. 1..q.began \subseteq 1..m
      BY <1>0, <3>1
    <3>3. QED
      BY <2>2, <3>1, <3>2 DEF TvlOK, Moves
  <2>3. QED
    BY <2>1, <2>2 DEF Moves
<1>4. QED
  BY <1>1, <1>2, <1>3 DEF ReadOf

(* The newest row reaches as far as any.                                    *)
LEMMA LatestIs ==
  ASSUME CountsOK, RowsAre, snapshots # {}
  PROVE  /\ Reads!Latest \in snapshots
         /\ \A b \in snapshots : b.block <= Reads!Latest.block
<1> DEFINE d == Rowed
<1>0. d \in Nat
  BY DEF CountsOK, Rowed
<1>1. /\ snapshots \subseteq Snapshots
      /\ \A a \in snapshots : a.block \in Nat /\ a.log \in {0, 1} /\ (a.log = 1 => a.block \in 1..d)
      /\ \A a, b \in snapshots : a.log = b.log /\ (a.log = 0 \/ a.block = b.block) => a = b
      /\ \A t \in 1..d : \E a \in snapshots : a.log = 1 /\ a.block = t
  BY DEF RowsAre, Snapshots
<1> HIDE DEF d
<1>2. \E x \in snapshots : \A b \in snapshots \ {x} : Reads!Newer(x, b)
  <2>1. CASE \E z \in snapshots : z.log = 0 /\ z.block > d
    <3>1. PICK z \in snapshots : z.log = 0 /\ z.block > d
      BY <2>1
    <3>2. ASSUME NEW b \in snapshots \ {z} PROVE Reads!Newer(z, b)
      <4>1. b.log = 1 /\ b.block \in 1..d
        BY <1>1, <3>1
      <4>2. z.block > b.block
        BY <1>0, <1>1, <3>1, <4>1
      <4>3. QED
        BY <4>2 DEF Reads!Newer
    <3>3. QED
      BY <3>2
  <2>2. CASE d > 0 /\ \A z \in snapshots : z.log = 0 => ~(z.block > d)
    <3>1. PICK x \in snapshots : x.log = 1 /\ x.block = d
      BY <1>0, <1>1, <2>2
    <3>2. ASSUME NEW b \in snapshots \ {x} PROVE Reads!Newer(x, b)
      <4>1. CASE b.log = 1
        <5>1. b.block # d /\ b.block \in 1..d
          BY <1>1, <3>1, <4>1
        <5>2. x.block > b.block
          BY <1>0, <3>1, <5>1
        <5>3. QED
          BY <5>2 DEF Reads!Newer
      <4>2. CASE b.log = 0
        <5>1. b.block <= d /\ b.block \in Nat
          BY <1>0, <1>1, <2>2, <4>2
        <5>2. x.block > b.block \/ (x.block = b.block /\ x.log > b.log)
          BY <1>0, <3>1, <4>2, <5>1
        <5>3. QED
          BY <5>2 DEF Reads!Newer
      <4>3. QED
        BY <1>1, <4>1, <4>2
    <3>3. QED
      BY <3>2
  <2>3. CASE d = 0 /\ \A z \in snapshots : z.log = 0 => ~(z.block > d)
    <3>1. \A a \in snapshots : a.log = 0
      BY <1>1, <2>3
    <3>2. \A a, b \in snapshots : a = b
      BY <1>1, <3>1
    <3>3. QED
      BY <3>2
  <2>4. QED
    BY <1>0, <2>1, <2>2, <2>3
<1> DEFINE Best(x) == \A b \in snapshots \ {x} : Reads!Newer(x, b)
<1>3. Reads!Latest = CHOOSE x \in snapshots : Best(x)
  BY DEF Reads!Latest
<1>4. Reads!Latest \in snapshots /\ Best(Reads!Latest)
  BY <1>2, <1>3
<1>5. PICK x \in snapshots : x = Reads!Latest
  BY <1>4
<1>6. \A b \in snapshots : b.block <= x.block
  <2> SUFFICES ASSUME NEW b \in snapshots PROVE b.block <= x.block
    OBVIOUS
  <2>1. CASE b = x
    BY <1>1, <2>1
  <2>2. CASE b # x
    <3>1. Reads!Newer(x, b)
      BY <1>4, <1>5, <2>2
    <3>2. QED
      BY <1>1, <3>1 DEF Reads!Newer
  <2>3. QED
    BY <2>1, <2>2
<1>7. QED
  BY <1>4, <1>5, <1>6

(* What a read takes from the newest row includes what the cursor says.     *)
LEMMA LatestCovers ==
  ASSUME FreshInv, ~late, NEW n \in Nat, n <= top \/ (n <= stored /\ job = Reads!NoJob)
  PROVE  /\ 1..n \subseteq Reads!LatestReserves
         /\ snapshots # {} => 1..n \subseteq Reads!Latest.reserves
         /\ snapshots = {} => n = 0
<1>0. mined \in Nat /\ stored \in Nat /\ top \in Nat
  BY DEF FreshInv, CountsOK
<1>1. Reached(n)
  <2>1. CASE n <= top
    <3>1. Reached(top)
      BY DEF FreshInv, RowsCover
    <3>2. CASE top <= 0
      BY <1>0, <2>1, <3>2 DEF Reached
    <3>3. CASE ~(top <= 0)
      <4>1. PICK a \in snapshots : top <= a.block /\ a.block \in Nat
        BY <3>1, <3>3 DEF Reached, FreshInv, RowsAre, Snapshots
      <4>2. n <= a.block
        BY <1>0, <2>1, <4>1
      <4>3. QED
        BY <4>2 DEF Reached
    <3>4. QED
      BY <3>2, <3>3
  <2>2. CASE n <= stored /\ job = Reads!NoJob /\ n > 0
    <3>1. n \in 1..Rowed
      BY <1>0, <2>2 DEF Rowed
    <3>2. PICK a \in snapshots : a.block = n
      BY <3>1 DEF FreshInv, RowsAre
    <3>3. QED
      BY <3>2 DEF Reached
  <2>3. QED
    BY <2>1, <2>2 DEF Reached
<1>2. CASE snapshots = {}
  <2>1. n = 0
    BY <1>1, <1>2 DEF Reached
  <2>2. 1..n = {}
    BY <2>1
  <2>3. QED
    BY <1>2, <2>1, <2>2
<1>3. CASE snapshots # {}
  <2>1. PICK x \in snapshots : x = Reads!Latest /\ \A b \in snapshots : b.block <= x.block
    BY <1>3, LatestIs DEF FreshInv
  <2>2. x.block \in Nat /\ 1..x.block \subseteq x.reserves /\ \A b \in snapshots : b.block \in Nat
    BY <2>1 DEF FreshInv, RowsAre, RowsCover, Snapshots
  <2>3. n <= x.block
    BY <1>1, <2>1, <2>2 DEF Reached
  <2>4. 1..n \subseteq 1..x.block
    BY <2>2, <2>3
  <2>5. QED
    BY <1>3, <2>1, <2>2, <2>4 DEF Reads!LatestReserves
<1>4. QED
  BY <1>2, <1>3

\* A step that changes a request, and of the rest at most the caches and the
\* cursor.
LEMMA OneRead ==
  ASSUME FreshInv, UNCHANGED <<mined, seen, stored, snapshots, job, top, late>>,
         served' \in Nat, sync' \in Nat \union {-1},
         NEW r \in Requests, NEW n \in ReadRecords, req' = [req EXCEPT ![r] = n], ReadOf(n)
  PROVE  FreshInv'
<1>1. Advances
  BY DEF FreshInv, CountsOK, Advances
<1>2. ReadOf(n)'
  BY <1>1, ReadStays
<1>3. /\ req' \in [Requests -> ReadRecords]
      /\ (\A s \in Requests : ReadOf(req[s]))'
  BY <1>1, <1>2, ReadMoves
<1>4. CountsOK' /\ RowsAre' /\ RowsCover'
  BY DEF FreshInv, CountsOK, RowsAre, RowsCover, Rowed, Reached, Reads!NoJob
<1>5. QED
  BY <1>3, <1>4 DEF FreshInv

LEMMA OneMoves ==
  ASSUME FreshInv, UNCHANGED <<mined, seen, stored, snapshots, job, top, late>>,
         served' \in Nat, sync' \in Nat \union {-1},
         NEW r \in Requests, NEW n \in ReadRecords, req' = [req EXCEPT ![r] = n],
         Moves(req[r], n)
  PROVE  FreshInv'
<1>1. PICK q \in ReadRecords : q = req[r]
  BY DEF FreshInv
<1>2. ReadOf(q) /\ Moves(q, n) /\ mined \in Nat
  BY <1>1 DEF FreshInv, CountsOK
<1>3. ReadOf(n)
  BY <1>2, MovesWell
<1>4. QED
  BY <1>3, OneRead

LEMMA OnwardMoves ==
  ASSUME NEW r \in Requests, NEW q \in ReadRecords, Reads!Onward(r, q)
  PROVE  \E n \in ReadRecords :
            /\ req' = [req EXCEPT ![r] = n]
            /\ n.pc \in Known /\ n.began = q.began /\ n.boot = q.boot /\ n.stale = q.stale
            /\ n.tvl = q.tvl /\ n.chain \in {q.chain, {}} /\ n.head \in {q.head, 0}
<1>1. CASE req' = [req EXCEPT ![r] = [q EXCEPT !.pc = "boot"]]
  <2> DEFINE n == [q EXCEPT !.pc = "boot"]
  <2>1. /\ n \in ReadRecords /\ n.pc = "boot" /\ n.began = q.began /\ n.boot = q.boot
        /\ n.stale = q.stale /\ n.tvl = q.tvl /\ n.chain = q.chain /\ n.head = q.head
    BY DEF ReadRecords, Known
  <2> HIDE DEF n
  <2>2. req' = [req EXCEPT ![r] = n]
    BY <1>1 DEF n
  <2>3. QED
    BY <2>1, <2>2 DEF Known
<1>2. CASE req' = [req EXCEPT ![r] = [q EXCEPT !.pc = "spot"]]
  <2> DEFINE n == [q EXCEPT !.pc = "spot"]
  <2>1. /\ n \in ReadRecords /\ n.pc = "spot" /\ n.began = q.began /\ n.boot = q.boot
        /\ n.stale = q.stale /\ n.tvl = q.tvl /\ n.chain = q.chain /\ n.head = q.head
    BY DEF ReadRecords, Known
  <2> HIDE DEF n
  <2>2. req' = [req EXCEPT ![r] = n]
    BY <1>2 DEF n
  <2>3. QED
    BY <2>1, <2>2 DEF Known
<1>3. CASE req' = [req EXCEPT ![r] = [Reads!Read(q) EXCEPT !.pc = "trades"]]
  <2> DEFINE n == [Reads!Read(q) EXCEPT !.pc = "trades"]
  <2>1. /\ n \in ReadRecords /\ n.pc = "trades" /\ n.began = q.began /\ n.boot = q.boot
        /\ n.stale = q.stale /\ n.tvl = q.tvl /\ n.chain = {} /\ n.head = 0
    BY DEF ReadRecords, Known, Reads!Read
  <2> HIDE DEF n
  <2>2. req' = [req EXCEPT ![r] = n]
    BY <1>3 DEF n
  <2>3. QED
    BY <2>1, <2>2 DEF Known
<1>4. QED
  BY <1>1, <1>2, <1>3 DEF Reads!Onward

\* Reserves that come from the chain.
LEMMA OnChainIs ==
  ASSUME NEW q \in ReadRecords, NEW t \in Nat
  PROVE  /\ Reads!OnChain(q, t) \in ReadRecords
         /\ Reads!OnChain(q, t) =
              [q EXCEPT !.tvl = IF q.chain = {} THEN q.tvl ELSE [at |-> t, reserves |-> q.chain]]
<1>1. CASE q.chain = {}
  BY <1>1 DEF Reads!OnChain, ReadRecords
<1>2. CASE q.chain # {}
  BY <1>2 DEF Reads!OnChain, ReadRecords
<1>3. QED
  BY <1>1, <1>2

LEMMA LastTradeRead ==
  ASSUME FreshInv, NEW r \in Requests, Reads!ReadLastTrade(r)
  PROVE  FreshInv'
<1>1. PICK q \in ReadRecords : q = req[r] /\ q.pc = "lastTrade"
  BY DEF FreshInv, Reads!ReadLastTrade
<1>2. /\ UNCHANGED <<mined, seen, stored, snapshots, job, top, late>>
      /\ served' \in Nat /\ sync' \in Nat \union {-1} /\ stored \in Nat
  BY DEF Reads!ReadLastTrade, Reads!chain, Reads!tables, FreshInv, CountsOK
<1>3. PICK p \in {[q EXCEPT !.trade = stored], Reads!Fallback(q)} :
         \/ req' = [req EXCEPT ![r] = [p EXCEPT !.pc = "probe"]]
         \/ Reads!Onward(r, p)
  BY <1>1 DEF Reads!ReadLastTrade
<1>4. /\ p \in ReadRecords /\ p.pc = q.pc /\ p.began = q.began /\ p.boot = q.boot
      /\ p.tvl = q.tvl /\ p.chain = q.chain /\ p.head = q.head /\ (q.stale => p.stale)
  BY <1>2 DEF ReadRecords, Reads!Fallback
<1>5. \E n \in ReadRecords : req' = [req EXCEPT ![r] = n] /\ Moves(q, n)
  <2>1. CASE req' = [req EXCEPT ![r] = [p EXCEPT !.pc = "probe"]]
    <3> DEFINE n == [p EXCEPT !.pc = "probe"]
    <3>1. /\ n \in ReadRecords /\ n.pc = "probe" /\ n.began = p.began /\ n.boot = p.boot
          /\ n.stale = p.stale /\ n.tvl = p.tvl /\ n.chain = p.chain /\ n.head = p.head
      BY <1>4 DEF ReadRecords, Known
    <3> HIDE DEF n
    <3>2. Moves(q, n)
      BY <1>1, <1>4, <3>1 DEF Moves, Known
    <3>3. QED
      BY <2>1, <3>1, <3>2 DEF n
  <2>2. CASE Reads!Onward(r, p)
    <3>1. PICK n \in ReadRecords :
            /\ req' = [req EXCEPT ![r] = n]
            /\ n.pc \in Known /\ n.began = p.began /\ n.boot = p.boot /\ n.stale = p.stale
            /\ n.tvl = p.tvl /\ n.chain \in {p.chain, {}} /\ n.head \in {p.head, 0}
      BY <1>4, <2>2, OnwardMoves
    <3>2. Moves(q, n)
      BY <1>1, <1>4, <3>1 DEF Moves, Known
    <3>3. QED
      BY <3>1, <3>2
  <2>3. QED
    BY <1>3, <2>1, <2>2
<1>6. QED
  BY <1>1, <1>2, <1>5, OneMoves

LEMMA StageWords ==
  /\ Reads!Reading = {"probe", "boot", "spot", "again"}
  /\ Reads!ReadsOf["probe"] = "probed" /\ Reads!ReadsOf["boot"] = "booted"
  /\ Reads!ReadsOf["spot"] = "spotted" /\ Reads!ReadsOf["again"] = "done"
BY DEF Reads!Reading, Reads!ReadsOf

LEMMA BalancesRead ==
  ASSUME FreshInv, NEW r \in Requests, Reads!Balances(r)
  PROVE  FreshInv'
<1>1. PICK q \in ReadRecords : q = req[r] /\ q.pc \in Reads!Reading /\ ReadOf(q)
  BY DEF FreshInv, Reads!Balances
<1>2. /\ UNCHANGED <<mined, seen, stored, snapshots, job, top, late>>
      /\ served' \in Nat /\ sync' \in Nat \union {-1}
      /\ mined \in Nat /\ seen \in Nat /\ seen <= mined /\ top \in Nat /\ top <= mined
  BY DEF Reads!Balances, Reads!chain, Reads!tables, Reads!caches, FreshInv, CountsOK
<1> DEFINE h == IF q.pc = "boot" THEN seen ELSE 0
           n == [q EXCEPT !.pc = Reads!ReadsOf[q.pc], !.chain = 1..mined, !.head = h]
<1>3. req' = [req EXCEPT ![r] = n]
  BY <1>1 DEF Reads!Balances, FreshInv
<1>4. h \in Nat /\ h <= mined
  BY <1>2
<1> HIDE DEF h
<1>5. /\ n \in ReadRecords /\ n.began = q.began /\ n.boot = q.boot /\ n.tvl = q.tvl
      /\ n.stale = q.stale /\ n.chain = 1..mined /\ n.head = h /\ q.pc \in Known
  <2>1. Reads!ReadsOf[q.pc] \in Known /\ q.pc \in Known
    BY <1>1, StageWords DEF Known
  <2>2. PICK w \in Known : w = Reads!ReadsOf[q.pc]
    BY <2>1
  <2>3. PICK S \in SUBSET Nat : S = 1..mined
    BY <1>2
  <2>4. n = [q EXCEPT !.pc = w, !.chain = S, !.head = h]
    BY <2>2, <2>3
  <2>5. [q EXCEPT !.pc = w, !.chain = S, !.head = h] \in ReadRecords
    BY <1>4 DEF ReadRecords
  <2>6. QED
    BY <2>1, <2>3, <2>4, <2>5 DEF ReadRecords
<1> HIDE DEF n
<1>6. ReadOf(n)
  <2>1. n.began <= mined /\ n.began \in Nat
    BY <1>1, <1>2, <1>5 DEF ReadOf, ReadRecords
  <2>2. ChainOK(n)
    BY <1>2, <1>4, <1>5, <2>1 DEF ChainOK
  <2>3. TvlOK(n)
    BY <1>1, <1>5 DEF ReadOf, TvlOK
  <2>4. QED
    BY <1>1, <1>5, <2>2, <2>3 DEF ReadOf
<1>7. QED
  BY <1>2, <1>3, <1>5, <1>6, OneRead

LEMMA BalancesNotRead ==
  ASSUME FreshInv, NEW r \in Requests, Reads!BalancesFail(r)
  PROVE  FreshInv'
<1>1. PICK q \in ReadRecords : q = req[r] /\ q.pc \in Reads!Reading
  BY DEF FreshInv, Reads!BalancesFail
<1>2. /\ UNCHANGED <<mined, seen, stored, snapshots, job, top, late>>
      /\ served' \in Nat /\ sync' \in Nat \union {-1}
  BY DEF Reads!BalancesFail, Reads!chain, Reads!tables, Reads!caches, FreshInv, CountsOK
<1>3. PICK p \in {q, Reads!Fallback(q)} :
         req' = [req EXCEPT ![r] = [p EXCEPT !.pc = Reads!ReadsOf[@], !.chain = {}]]
  BY <1>1 DEF Reads!BalancesFail
<1> DEFINE n == [p EXCEPT !.pc = Reads!ReadsOf[@], !.chain = {}]
<1>4. /\ p \in ReadRecords /\ p.pc = q.pc /\ p.began = q.began /\ p.boot = q.boot
      /\ p.tvl = q.tvl /\ p.head = q.head /\ (q.stale => p.stale)
  BY DEF ReadRecords, Reads!Fallback
<1>5. Reads!ReadsOf[p.pc] \in Known /\ q.pc \in Known
  BY <1>1, <1>4, StageWords DEF Known
<1>6. /\ n \in ReadRecords /\ n.began = p.began /\ n.boot = p.boot /\ n.tvl = p.tvl
      /\ n.stale = p.stale /\ n.chain = {} /\ n.head = p.head
  BY <1>4, <1>5 DEF ReadRecords
<1>7. req' = [req EXCEPT ![r] = n]
  BY <1>3
<1> HIDE DEF n
<1>8. Moves(q, n)
  BY <1>4, <1>5, <1>6 DEF Moves
<1>9. QED
  BY <1>1, <1>2, <1>6, <1>7, <1>8, OneMoves

LEMMA ProbeIsRead ==
  ASSUME FreshInv, NEW r \in Requests, Reads!Probed(r) \/ Reads!NoBootstrap(r)
  PROVE  FreshInv'
<1>1. PICK q \in ReadRecords : q = req[r] /\ q.pc \in {"probed", "booted"}
  BY DEF FreshInv, Reads!Probed, Reads!NoBootstrap
<1>2. /\ UNCHANGED <<mined, seen, stored, snapshots, job, top, late>>
      /\ served' \in Nat /\ sync' \in Nat \union {-1}
  BY <1>1 DEF Reads!Probed, Reads!NoBootstrap, Reads!chain, Reads!tables, FreshInv, CountsOK,
     ReadRecords
<1>3. \E p \in ReadRecords :
        /\ Reads!Onward(r, p)
        /\ p.began = q.began /\ p.boot = q.boot /\ p.head = q.head /\ p.stale = q.stale
        /\ p.chain \in {q.chain, {}}
        /\ \/ p.tvl.reserves = q.tvl.reserves
           \/ p.tvl.reserves = q.chain /\ q.chain # {}
  <2>1. CASE Reads!Probed(r)
    <3> DEFINE c == Reads!OnChain(q, q.trade)
               p == [c EXCEPT !.chain = {}]
    <3>1. q.trade \in Nat
      BY DEF ReadRecords
    <3>2. /\ c \in ReadRecords
          /\ c = [q EXCEPT !.tvl = IF q.chain = {} THEN q.tvl
                                    ELSE [at |-> q.trade, reserves |-> q.chain]]
      BY <3>1, OnChainIs
    <3>3. /\ c.began = q.began /\ c.boot = q.boot /\ c.head = q.head /\ c.stale = q.stale
          /\ \/ c.tvl.reserves = q.tvl.reserves
             \/ c.tvl.reserves = q.chain /\ q.chain # {}
      BY <3>2 DEF ReadRecords
    <3>4. Reads!Onward(r, p)
      BY <1>1, <2>1 DEF Reads!Probed
    <3> HIDE DEF c
    <3>5a. PICK e \in ReadRecords : e = c
      BY <3>2
    <3>5b. [e EXCEPT !.chain = {}] \in ReadRecords
      BY DEF ReadRecords
    <3>5. /\ p \in ReadRecords /\ p.chain = {} /\ p.began = c.began /\ p.boot = c.boot
          /\ p.head = c.head /\ p.stale = c.stale /\ p.tvl = c.tvl
      BY <3>5a, <3>5b DEF ReadRecords
    <3> HIDE DEF p
    <3>6. QED
      BY <3>3, <3>4, <3>5
  <2>2. CASE Reads!NoBootstrap(r)
    <3> DEFINE p == [q EXCEPT !.empty = FALSE]
    <3>1. Reads!Onward(r, p)
      BY <1>1, <2>2 DEF Reads!NoBootstrap
    <3>2. /\ p \in ReadRecords /\ p.chain = q.chain /\ p.began = q.began /\ p.boot = q.boot
          /\ p.head = q.head /\ p.stale = q.stale /\ p.tvl = q.tvl
      BY DEF ReadRecords
    <3> HIDE DEF p
    <3>3. QED
      BY <3>1, <3>2
  <2>3. QED
    BY <2>1, <2>2
<1>4. PICK p \in ReadRecords :
        /\ Reads!Onward(r, p)
        /\ p.began = q.began /\ p.boot = q.boot /\ p.head = q.head /\ p.stale = q.stale
        /\ p.chain \in {q.chain, {}}
        /\ \/ p.tvl.reserves = q.tvl.reserves
           \/ p.tvl.reserves = q.chain /\ q.chain # {}
  BY <1>3
<1>5. PICK n \in ReadRecords :
        /\ req' = [req EXCEPT ![r] = n]
        /\ n.pc \in Known /\ n.began = p.began /\ n.boot = p.boot /\ n.stale = p.stale
        /\ n.tvl = p.tvl /\ n.chain \in {p.chain, {}} /\ n.head \in {p.head, 0}
  BY <1>4, OnwardMoves
<1>6. Moves(q, n)
  BY <1>1, <1>4, <1>5 DEF Moves, Known
<1>7. QED
  BY <1>1, <1>2, <1>5, <1>6, OneMoves

LEMMA TvlIsRead ==
  ASSUME FreshInv, NEW r \in Requests, Reads!Spotted(r) \/ Reads!Done(r)
  PROVE  FreshInv'
<1>1. PICK q \in ReadRecords : q = req[r] /\ q.pc \in {"spotted", "done"}
  BY DEF FreshInv, Reads!Spotted, Reads!Done
<1>2. /\ UNCHANGED <<mined, seen, stored, snapshots, job, top, late>>
      /\ served' \in Nat /\ sync' \in Nat \union {-1} /\ mined \in Nat /\ q.trade \in Nat
  BY <1>1 DEF Reads!Spotted, Reads!Done, Reads!chain, Reads!tables, Reads!caches, FreshInv,
     CountsOK, ReadRecords
<1>3. \E t \in Nat, b \in BOOLEAN, w \in {"trades", "sync"} :
        /\ req' = [req EXCEPT ![r] = [Reads!Read(Reads!OnChain(q, t)) EXCEPT !.pc = w, !.stale = b]]
        /\ (q.stale => b)
  <2>1. CASE Reads!Spotted(r)
    <3>1. req' = [req EXCEPT ![r] = [Reads!Read(Reads!OnChain(q, mined)) EXCEPT
                     !.pc = "trades", !.stale = q.stale \/ q.chain # {}]]
      BY <1>1, <2>1 DEF Reads!Spotted
    <3>3. (q.stale \/ q.chain # {}) \in BOOLEAN
      BY DEF ReadRecords
    <3>4. QED
      BY <1>2, <3>1, <3>3
  <2>2. CASE Reads!Done(r)
    <3>1. req' = [req EXCEPT ![r] = [Reads!Read(Reads!OnChain(q, q.trade)) EXCEPT !.pc = "sync"]]
      BY <1>1, <2>2 DEF Reads!Done
    <3>2. Reads!Read(Reads!OnChain(q, q.trade)) \in ReadRecords
      BY <1>2, OnChainIs, ZenonT(40) DEF Reads!Read, ReadRecords
    <3>3. Reads!Read(Reads!OnChain(q, q.trade)).stale = q.stale
      BY <1>2, OnChainIs DEF Reads!Read, ReadRecords
    <3>4. [Reads!Read(Reads!OnChain(q, q.trade)) EXCEPT !.pc = "sync"]
           = [Reads!Read(Reads!OnChain(q, q.trade)) EXCEPT !.pc = "sync", !.stale = q.stale]
      BY <3>2, <3>3 DEF ReadRecords
    <3>5. q.stale \in BOOLEAN
      BY DEF ReadRecords
    <3>6. QED
      BY <1>2, <3>1, <3>4, <3>5
  <2>3. QED
    BY <2>1, <2>2
<1>4. PICK t \in Nat, b \in BOOLEAN, w \in {"trades", "sync"} :
        /\ req' = [req EXCEPT ![r] = [Reads!Read(Reads!OnChain(q, t)) EXCEPT !.pc = w, !.stale = b]]
        /\ (q.stale => b)
  BY <1>3
<1> DEFINE c == Reads!OnChain(q, t)
           n == [Reads!Read(c) EXCEPT !.pc = w, !.stale = b]
<1>5. /\ c \in ReadRecords /\ c.began = q.began /\ c.boot = q.boot
      /\ \/ c.tvl.reserves = q.tvl.reserves
         \/ c.tvl.reserves = q.chain /\ q.chain # {}
  BY OnChainIs DEF ReadRecords
<1>6. req' = [req EXCEPT ![r] = n]
  BY <1>4
<1> HIDE DEF c
<1>7. /\ n \in ReadRecords /\ n.began = c.began /\ n.boot = c.boot /\ n.tvl = c.tvl
      /\ n.chain = {} /\ n.head = 0 /\ n.stale = b
  BY <1>5, ZenonT(40) DEF ReadRecords, Reads!Read, Known
<1> HIDE DEF n
<1>8. Moves(q, n)
  BY <1>1, <1>4, <1>5, <1>7 DEF Moves, Known
<1>9. QED
  BY <1>1, <1>2, <1>6, <1>7, <1>8, OneMoves

LEMMA TradesAreRead ==
  ASSUME FreshInv, NEW r \in Requests, Reads!ReadTrades(r)
  PROVE  FreshInv'
<1>1. PICK q \in ReadRecords : q = req[r] /\ q.pc = "trades"
  BY DEF FreshInv, Reads!ReadTrades
<1>2. /\ UNCHANGED <<mined, seen, stored, snapshots, job, top, late>>
      /\ served' \in Nat /\ sync' \in Nat \union {-1} /\ stored \in Nat
  BY DEF Reads!ReadTrades, Reads!chain, Reads!tables, Reads!caches, FreshInv, CountsOK
<1>3. PICK p \in {[q EXCEPT !.trade = stored], Reads!Read([q EXCEPT !.trade = stored]),
                  Reads!Fallback(q)}, w \in {"again", "sync"} :
        req' = [req EXCEPT ![r] = [p EXCEPT !.pc = w]]
  BY <1>1 DEF Reads!ReadTrades
<1>4. PICK e \in ReadRecords :
        /\ e = p /\ e.began = q.began /\ e.boot = q.boot /\ e.tvl = q.tvl
        /\ e.chain \in {q.chain, {}} /\ e.head \in {q.head, 0} /\ (q.stale => e.stale)
  <2>1. CASE p = [q EXCEPT !.trade = stored]
    <3>1. p \in ReadRecords
      BY <1>2, <2>1 DEF ReadRecords
    <3>2. QED
      BY <2>1, <3>1 DEF ReadRecords
  <2>2. CASE p = Reads!Read([q EXCEPT !.trade = stored])
    <3>1. p = [q EXCEPT !.chain = {}, !.head = 0, !.trade = 0, !.empty = FALSE]
      BY <2>2 DEF Reads!Read, ReadRecords
    <3>2. p \in ReadRecords
      BY <3>1 DEF ReadRecords
    <3>3. QED
      BY <3>1, <3>2 DEF ReadRecords
  <2>3. CASE p = Reads!Fallback(q)
    <3>1. p \in ReadRecords
      BY <2>3 DEF ReadRecords, Reads!Fallback
    <3>2. QED
      BY <2>3, <3>1 DEF ReadRecords, Reads!Fallback
  <2>4. QED
    BY <2>1, <2>2, <2>3
<1> DEFINE n == [e EXCEPT !.pc = w]
<1>5. /\ n \in ReadRecords /\ n.began = e.began /\ n.boot = e.boot /\ n.tvl = e.tvl
      /\ n.chain = e.chain /\ n.head = e.head /\ n.stale = e.stale
  BY DEF ReadRecords, Known
<1>6. req' = [req EXCEPT ![r] = n]
  BY <1>3, <1>4
<1> HIDE DEF n
<1>7. Moves(q, n)
  BY <1>1, <1>4, <1>5 DEF Moves, Known
<1>8. QED
  BY <1>1, <1>2, <1>5, <1>6, <1>7, OneMoves

LEMMA SyncIsRead ==
  ASSUME FreshInv, NEW r \in Requests, Reads!ReadSync(r) \/ Reads!ReadSyncFails(r)
  PROVE  FreshInv'
<1>1. PICK q \in ReadRecords : q = req[r] /\ q.pc \in {"sync", "metricsSync"}
  BY DEF FreshInv, Reads!ReadSync, Reads!ReadSyncFails
<1>2. /\ UNCHANGED <<mined, seen, stored, snapshots, job, top, late>>
      /\ served' \in Nat /\ sync' \in Nat \union {-1}
  BY DEF Reads!ReadSync, Reads!ReadSyncFails, Reads!chain, Reads!caches, FreshInv, CountsOK,
     Reads!NoRow
<1>3. PICK p \in ReadRecords :
        /\ Reads!Compared(r, p)
        /\ p.began = q.began /\ p.boot = q.boot /\ p.tvl = q.tvl /\ (q.stale => p.stale)
  <2>1. CASE Reads!ReadSync(r)
    <3>1. PICK v \in Nat \union {-1} : v = sync'
      BY <1>2
    <3>2. Reads!Compared(r, [q EXCEPT !.sync = v])
      BY <1>1, <2>1, <3>1 DEF Reads!ReadSync
    <3>3. [q EXCEPT !.sync = v] \in ReadRecords
      BY DEF ReadRecords
    <3>4. QED
      BY <3>2, <3>3 DEF ReadRecords
  <2>2. CASE Reads!ReadSyncFails(r)
    <3>1. Reads!Compared(r, [Reads!Fallback(q) EXCEPT !.sync = 0])
      BY <1>1, <2>2 DEF Reads!ReadSyncFails
    <3>2. [Reads!Fallback(q) EXCEPT !.sync = 0] = [q EXCEPT !.stale = TRUE, !.sync = 0]
      BY DEF Reads!Fallback
    <3>3. [q EXCEPT !.stale = TRUE, !.sync = 0] \in ReadRecords
      BY DEF ReadRecords
    <3>4. QED
      BY <3>1, <3>2, <3>3 DEF ReadRecords
  <2>3. QED
    BY <2>1, <2>2
<1>4. PICK e \in ReadRecords :
        /\ e = Reads!Read(p) /\ e.began = p.began /\ e.boot = p.boot /\ e.tvl = p.tvl
        /\ e.sync = p.sync /\ e.chain = {} /\ e.head = 0 /\ e.stale = p.stale
  <2>1. Reads!Read(p) \in ReadRecords
    BY DEF ReadRecords, Reads!Read
  <2>2. QED
    BY <2>1 DEF ReadRecords, Reads!Read
<1>5. PICK w \in {"update", "answer"}, v \in {p.boot, -1} :
        req' = [req EXCEPT ![r] = [e EXCEPT !.pc = w, !.boot = v, !.sync = -1, !.tvl.at = 0]]
  BY <1>3, <1>4 DEF Reads!Compared, Reads!NoRow
<1> DEFINE n == [e EXCEPT !.pc = w, !.boot = v, !.sync = -1, !.tvl.at = 0]
<1>6. v \in Nat \union {-1}
  BY <1>5 DEF ReadRecords
<1>7. PICK s \in [at : Nat, reserves : SUBSET Nat] :
        s = [e.tvl EXCEPT !.at = 0] /\ s.reserves = e.tvl.reserves
  <2>1. PICK o \in [at : Nat, reserves : SUBSET Nat] : o = e.tvl
    BY DEF ReadRecords
  <2>2. [o EXCEPT !.at = 0] \in [at : Nat, reserves : SUBSET Nat]
    OBVIOUS
  <2>3. [o EXCEPT !.at = 0].reserves = o.reserves
    OBVIOUS
  <2>4. QED
    BY <2>1, <2>2, <2>3
<1>8. n = [e EXCEPT !.pc = w, !.boot = v, !.sync = -1, !.tvl = s]
  BY <1>7 DEF ReadRecords
<1>8a. PICK z \in Nat \union {-1} : z = v
  BY <1>6
<1>8b. [e EXCEPT !.pc = w, !.boot = z, !.sync = -1, !.tvl = s] \in ReadRecords
  BY <1>7, ZenonT(40) DEF ReadRecords, Known
<1>9. req' = [req EXCEPT ![r] = n]
  BY <1>5
<1> HIDE DEF n
<1>10. /\ n \in ReadRecords /\ n.began = e.began /\ n.boot = v /\ n.tvl = s /\ n.pc = w
       /\ n.chain = {} /\ n.head = 0 /\ n.stale = e.stale
  <2>1. n = [e EXCEPT !.pc = w, !.boot = z, !.sync = -1, !.tvl = s]
    BY <1>8, <1>8a
  <2>2. n \in ReadRecords
    BY <1>8b, <2>1
  <2>3. /\ n.began = e.began /\ n.boot = z /\ n.tvl = s /\ n.pc = w
        /\ n.chain = e.chain /\ n.head = e.head /\ n.stale = e.stale
    BY <2>1 DEF ReadRecords
  <2>4. QED
    BY <1>4, <1>8a, <2>2, <2>3
<1>11. Moves(q, n)
  BY <1>1, <1>3, <1>4, <1>5, <1>7, <1>10 DEF Moves, Known
<1>12. QED
  BY <1>1, <1>2, <1>9, <1>10, <1>11, OneMoves

\* The bootstrap's cursor is written; a row reaches it.
LEMMA CursorIsWritten ==
  ASSUME FreshInv, NEW r \in Requests, Reads!UpdateSync(r)
  PROVE  FreshInv'
<1>1. PICK q \in ReadRecords : q = req[r] /\ q.pc = "update" /\ ReadOf(q)
  BY DEF FreshInv, Reads!UpdateSync
<1>2. /\ UNCHANGED <<mined, seen, stored, snapshots, job, late, served>>
      /\ sync' = q.boot /\ top' = IF q.boot > top THEN q.boot ELSE top
  BY <1>1 DEF Reads!UpdateSync, Reads!chain, Reads!caches
<1>3. q.boot \in Nat \union {-1} /\ q.boot <= mined /\ (late \/ Reached(q.boot))
  BY <1>1 DEF ReadRecords, ReadOf
<1>4. top \in Nat /\ mined \in Nat /\ top <= mined
  BY DEF FreshInv, CountsOK
<1>5. Advances /\ top' \in 0..mined
  BY <1>2, <1>3, <1>4 DEF Advances
<1> DEFINE n == [q EXCEPT !.pc = "answer", !.boot = -1]
<1>6. /\ n \in ReadRecords /\ n.began = q.began /\ n.boot = -1 /\ n.tvl = q.tvl
      /\ n.chain = q.chain /\ n.head = q.head /\ n.stale = q.stale
  BY DEF ReadRecords, Known
<1>7. req' = [req EXCEPT ![r] = n]
  BY <1>1 DEF Reads!UpdateSync, Reads!NoRow
<1> HIDE DEF n
<1>8. Moves(q, n)
  BY <1>1, <1>6 DEF Moves, Known
<1>9. ReadOf(n)
  BY <1>1, <1>4, <1>6, <1>8, MovesWell
<1>10. ReadOf(n)'
  BY <1>5, <1>6, <1>9, ReadStays
<1>11. /\ req' \in [Requests -> ReadRecords]
       /\ (\A s \in Requests : ReadOf(req[s]))'
  BY <1>5, <1>6, <1>7, <1>10, ReadMoves
<1>12. CountsOK' /\ RowsAre'
  BY <1>2, <1>3, <1>5 DEF FreshInv, CountsOK, RowsAre, Rowed, Reads!NoJob
<1>13. RowsCover'
  BY <1>2, <1>3 DEF FreshInv, RowsCover, Reached, Reads!NoJob
<1>14. QED
  BY <1>11, <1>12, <1>13 DEF FreshInv

LEMMA NothingRead ==
  /\ Reads!Free \in ReadRecords /\ Reads!Free.pc = "free" /\ Reads!Free.began = 0
  /\ Reads!Free.chain = {} /\ Reads!Free.boot = -1
<1>1. [at |-> 0, reserves |-> {}] \in [at : Nat, reserves : SUBSET Nat]
  OBVIOUS
<1>2. PICK o \in [at : Nat, reserves : SUBSET Nat] : o = [at |-> 0, reserves |-> {}]
  BY <1>1
<1>3. PICK S \in SUBSET Nat : S = {}
  OBVIOUS
<1>4. Reads!Free = [pc |-> "free", began |-> 0, empty |-> FALSE, trade |-> 0, tvl |-> o,
         chain |-> S, head |-> 0, stale |-> FALSE, boot |-> -1, sync |-> -1]
  BY <1>2, <1>3 DEF Reads!Free, Reads!NoTvl, Reads!NoRow
<1>5. QED
  BY <1>3, <1>4 DEF ReadRecords

LEMMA ReadBegins ==
  ASSUME FreshInv, NEW r \in Requests,
         Reads!Ask(r) \/ Reads!Answer(r) \/ Reads!Fails(r)
  PROVE  FreshInv'
<1>1. /\ UNCHANGED <<mined, seen, stored, snapshots, job, top, late>>
      /\ served' \in Nat /\ sync' \in Nat \union {-1} /\ top \in Nat
  BY DEF Reads!Ask, Reads!Answer, Reads!Fails, Reads!chain, Reads!tables, Reads!caches,
     FreshInv, CountsOK
<1>2. PICK b \in {0, top}, w \in {"free", "liquidity", "metrics", "candles"} :
        req' = [req EXCEPT ![r] = [Reads!Free EXCEPT !.pc = w, !.began = b]]
  <2>1. CASE Reads!Ask(r)
    BY <2>1 DEF Reads!Ask
  <2>2. CASE Reads!Answer(r) \/ Reads!Fails(r)
    <3>1. req' = [req EXCEPT ![r] = Reads!Free]
      BY <2>2 DEF Reads!Answer, Reads!Fails
    <3>2. Reads!Free = [Reads!Free EXCEPT !.pc = "free", !.began = 0]
      <4>1. PICK f \in ReadRecords : f = Reads!Free /\ f.pc = "free" /\ f.began = 0
        BY NothingRead
      <4>2. f = [f EXCEPT !.pc = "free", !.began = 0]
        BY <4>1 DEF ReadRecords
      <4>3. QED
        BY <4>1, <4>2
    <3>3. QED
      BY <3>1, <3>2
  <2>3. QED
    BY <2>1, <2>2
<1> DEFINE n == [Reads!Free EXCEPT !.pc = w, !.began = b]
<1>3. /\ n \in ReadRecords /\ n.pc = w /\ n.began = b /\ n.chain = {} /\ n.boot = -1
  <2>1. PICK f \in ReadRecords : f = Reads!Free /\ f.chain = {} /\ f.boot = -1
    BY NothingRead
  <2>2. PICK m \in Nat : m = b
    BY <1>1, <1>2
  <2>3. PICK d \in ReadRecords : d = [f EXCEPT !.pc = w, !.began = m]
    BY DEF ReadRecords
  <2>4. d.pc = w /\ d.began = m /\ d.chain = f.chain /\ d.boot = f.boot
    BY <2>3 DEF ReadRecords
  <2>5. n = d
    BY <2>1, <2>2, <2>3
  <2> HIDE DEF n
  <2>6. QED
    BY <2>1, <2>2, <2>4, <2>5
<1>4. req' = [req EXCEPT ![r] = n]
  BY <1>2
<1> HIDE DEF n
<1>5. ReadOf(n)
  BY <1>1, <1>3 DEF FreshInv, CountsOK, ReadOf, ChainOK, TvlOK, Known, Reached
<1>6. QED
  BY <1>1, <1>3, <1>4, <1>5, OneRead

\* What the newest row gives a request.
LEMMA RowIsTvl ==
  ASSUME FreshInv
  PROVE  \E s \in [at : Nat, reserves : SUBSET Nat] :
           /\ s = (IF snapshots = {} THEN Reads!NoTvl ELSE Reads!FromRow)
           /\ \A n \in Nat : n <= top => late \/ 1..n \subseteq s.reserves
<1>1. CASE snapshots = {}
  <2>1. PICK s \in [at : Nat, reserves : SUBSET Nat] : s = [at |-> 0, reserves |-> {}]
    OBVIOUS
  <2>2. ASSUME NEW n \in Nat, n <= top, ~late PROVE 1..n \subseteq s.reserves
    <3>1. n = 0
      BY <1>1, <2>2, LatestCovers
    <3>2. QED
      BY <3>1
  <2>3. QED
    BY <1>1, <2>1, <2>2 DEF Reads!NoTvl
<1>2. CASE snapshots # {}
  <2>1. PICK x \in Snapshots : x = Reads!Latest
    BY <1>2, LatestIs DEF FreshInv, RowsAre
  <2>2. PICK s \in [at : Nat, reserves : SUBSET Nat] : s = [at |-> x.at, reserves |-> x.reserves]
    <3>1. x.at \in Nat /\ x.reserves \in SUBSET Nat
      BY DEF Snapshots
    <3>2. QED
      BY <3>1
  <2>3. s.reserves = x.reserves
    BY <2>2
  <2>4. ASSUME NEW n \in Nat, n <= top, ~late PROVE 1..n \subseteq s.reserves
    BY <1>2, <2>1, <2>3, <2>4, LatestCovers
  <2>5. s = Reads!FromRow
    BY <2>1, <2>2 DEF Reads!FromRow
  <2>6. QED
    BY <1>2, <2>4, <2>5
<1>3. QED
  BY <1>1, <1>2

\* A step of a request that takes its reserves from the newest row, or is stale.
LEMMA RowTaken ==
  ASSUME FreshInv, UNCHANGED <<mined, seen, stored, snapshots, job, top, late>>,
         served' \in Nat, sync' \in Nat \union {-1}, NEW r \in Requests,
         NEW w \in Known, NEW b \in BOOLEAN, NEW m \in BOOLEAN,
         NEW s \in [at : Nat, reserves : SUBSET Nat],
         b \/ \A n \in Nat : n <= top => late \/ 1..n \subseteq s.reserves,
         req' = [req EXCEPT ![r] = [req[r] EXCEPT !.pc = w, !.empty = m, !.tvl = s, !.stale = b]]
  PROVE  FreshInv'
<1>1. PICK q \in ReadRecords : q = req[r] /\ ReadOf(q)
  BY DEF FreshInv
<1> DEFINE n == [q EXCEPT !.pc = w, !.empty = m, !.tvl = s, !.stale = b]
<1>2. /\ n \in ReadRecords /\ n.began = q.began /\ n.boot = q.boot /\ n.tvl = s /\ n.stale = b
      /\ n.chain = q.chain /\ n.head = q.head
  BY DEF ReadRecords
<1>3. req' = [req EXCEPT ![r] = n]
  BY <1>1
<1> HIDE DEF n
<1>4. q.began \in Nat /\ q.began <= top
  BY <1>1 DEF ReadRecords, ReadOf
<1>5. b \/ late \/ 1..q.began \subseteq s.reserves
  BY <1>4
<1>6. TvlOK(n)
  BY <1>2, <1>5 DEF TvlOK
<1>7. ChainOK(n)
  BY <1>1, <1>2 DEF ReadOf, ChainOK
<1>8. ReadOf(n)
  BY <1>1, <1>2, <1>6, <1>7 DEF ReadOf
<1>9. QED
  BY <1>2, <1>3, <1>8, OneRead

LEMMA RowsAreRead ==
  ASSUME FreshInv, NEW r \in Requests,
         Reads!ReadLiquidity(r) \/ Reads!ReadMetrics(r)
  PROVE  FreshInv'
<1>1. PICK q \in ReadRecords : q = req[r] /\ q.pc \in {"liquidity", "metrics"}
  BY DEF FreshInv, Reads!ReadLiquidity, Reads!ReadMetrics
<1>2. /\ UNCHANGED <<mined, seen, stored, snapshots, job, top, late>>
      /\ served' \in Nat /\ sync' \in Nat \union {-1}
  BY DEF Reads!ReadLiquidity, Reads!ReadMetrics, Reads!chain, Reads!tables,
     Reads!caches, FreshInv, CountsOK
<1>3. q.empty \in BOOLEAN /\ q.stale \in BOOLEAN /\ q.tvl \in [at : Nat, reserves : SUBSET Nat]
  BY DEF ReadRecords
<1>4. PICK s \in [at : Nat, reserves : SUBSET Nat] :
        /\ s = (IF snapshots = {} THEN Reads!NoTvl ELSE Reads!FromRow)
        /\ \A n \in Nat : n <= top => late \/ 1..n \subseteq s.reserves
  BY RowIsTvl
<1>5. (snapshots = {}) \in BOOLEAN /\ "lastTrade" \in Known /\ "metricsSync" \in Known
  BY DEF Known
<1>6. CASE Reads!ReadLiquidity(r)
  <2>1. CASE req' = [req EXCEPT ![r].pc = "lastTrade", ![r].empty = snapshots = {}, ![r].tvl = s]
    <3>1. req' = [req EXCEPT ![r] = [q EXCEPT !.pc = "lastTrade", !.empty = snapshots = {},
                                              !.tvl = s]]
      BY <1>1, <2>1 DEF FreshInv
    <3>2. PICK m \in BOOLEAN : m = (snapshots = {})
      BY <1>5
    <3>3. [q EXCEPT !.pc = "lastTrade", !.empty = m, !.tvl = s]
           = [q EXCEPT !.pc = "lastTrade", !.empty = m, !.tvl = s, !.stale = q.stale]
      BY DEF ReadRecords
    <3>4. req' = [req EXCEPT ![r] = [req[r] EXCEPT !.pc = "lastTrade", !.empty = m,
                                                   !.tvl = s, !.stale = q.stale]]
      BY <1>1, <3>1, <3>2, <3>3
    <3>5. QED
      BY <1>2, <1>3, <1>4, <1>5, <3>4, RowTaken
  <2>2. CASE req' = [req EXCEPT ![r] = [Reads!Fallback(q) EXCEPT !.pc = "lastTrade", !.empty = TRUE]]
    <3>1. [Reads!Fallback(q) EXCEPT !.pc = "lastTrade", !.empty = TRUE]
            = [q EXCEPT !.pc = "lastTrade", !.empty = TRUE, !.tvl = q.tvl, !.stale = TRUE]
      BY DEF Reads!Fallback, ReadRecords
    <3>2. req' = [req EXCEPT ![r] = [req[r] EXCEPT !.pc = "lastTrade", !.empty = TRUE,
                                                   !.tvl = q.tvl, !.stale = TRUE]]
      BY <1>1, <2>2, <3>1
    <3>3. QED
      BY <1>2, <1>3, <1>5, <3>2, RowTaken
  <2>3. QED
    BY <1>1, <1>4, <1>6, <2>1, <2>2 DEF Reads!ReadLiquidity
<1>7. CASE Reads!ReadMetrics(r)
  <2>1. req' = [req EXCEPT ![r].pc = "metricsSync", ![r].tvl = s]
    BY <1>4, <1>7 DEF Reads!ReadMetrics
  <2>2. req' = [req EXCEPT ![r] = [q EXCEPT !.pc = "metricsSync", !.tvl = s]]
    BY <1>1, <2>1 DEF FreshInv
  <2>3. [q EXCEPT !.pc = "metricsSync", !.tvl = s]
         = [q EXCEPT !.pc = "metricsSync", !.empty = q.empty, !.tvl = s, !.stale = q.stale]
    BY DEF ReadRecords
  <2>4. req' = [req EXCEPT ![r] = [req[r] EXCEPT !.pc = "metricsSync", !.empty = q.empty,
                                                 !.tvl = s, !.stale = q.stale]]
    BY <1>1, <2>2, <2>3
  <2>5. QED
    BY <1>2, <1>3, <1>4, <1>5, <2>4, RowTaken
<1>8. QED
  BY <1>6, <1>7

\* Candles store the cursor and answer no reserves.
LEMMA CandlesRead ==
  ASSUME FreshInv, NEW r \in Requests, Reads!ReadCandles(r)
  PROVE  FreshInv'
<1>1. PICK n \in ReadRecords :
        n = Reads!Free /\ n.pc = "free" /\ n.began = 0 /\ n.chain = {} /\ n.boot = -1
  BY NothingRead
<1>2. /\ UNCHANGED <<mined, seen, stored, snapshots, job, top, late>>
      /\ served' \in Nat /\ sync' \in Nat \union {-1} /\ req' = [req EXCEPT ![r] = n]
  BY <1>1 DEF Reads!ReadCandles, Reads!chain, Reads!caches, FreshInv, CountsOK, Reads!NoRow
<1>3. ReadOf(n)
  BY <1>1 DEF FreshInv, CountsOK, ReadOf, ChainOK, TvlOK, Known, Reached
<1>4. QED
  BY <1>1, <1>2, <1>3, OneRead

LEMMA Bootstraps ==
  ASSUME FreshInv, NEW r \in Requests, Reads!Bootstrap(r)
  PROVE  FreshInv'
<1>1. PICK q \in ReadRecords : q = req[r] /\ q.pc = "booted" /\ q.chain # {} /\ ReadOf(q)
  BY DEF FreshInv, Reads!Bootstrap
<1>2. /\ UNCHANGED <<mined, seen, stored, sync, job, top, served>>
      /\ mined \in Nat /\ seen \in Nat /\ seen <= mined /\ top \in Nat /\ top <= mined
  BY DEF Reads!Bootstrap, Reads!chain, Reads!caches, FreshInv, CountsOK
<1>3. late \in BOOLEAN /\ late' = (late \/ Reads!Lags(r))
  BY DEF Reads!Bootstrap, FreshInv, CountsOK
<1>4. Reads!Lags(r) <=> seen # q.head \/ \E a \in snapshots : a.log = 0 /\ a.block < seen
  BY <1>1 DEF Reads!Lags, Reads!BootstrapBlock
<1>5. PICK m \in Nat : m <= mined /\ q.began <= m /\ q.head <= m /\ q.chain = 1..m
  BY <1>1 DEF ReadOf, ChainOK
<1> DEFINE x == [block |-> seen, log |-> 0, at |-> mined, reserves |-> q.chain]
<1>6. x \in Snapshots /\ x.block = seen /\ x.log = 0 /\ x.reserves = 1..m
  BY <1>2, <1>5 DEF Snapshots, ReadRecords
<1>7. snapshots' = IF \E a \in snapshots : a.log = 0 THEN snapshots ELSE snapshots \union {x}
  BY <1>1 DEF Reads!Bootstrap, Reads!BootstrapBlock
<1> HIDE DEF x
<1>8. Advances
  BY <1>2, <1>3, <1>7 DEF Advances
<1>9. CountsOK'
  BY <1>2, <1>3 DEF FreshInv, CountsOK, Reads!NoJob
<1>10. RowsAre'
  <2>1. CASE \E a \in snapshots : a.log = 0
    BY <1>2, <1>7, <2>1 DEF FreshInv, RowsAre, Rowed, Reads!NoJob
  <2>2. CASE \A a \in snapshots : a.log # 0
    <3>1. snapshots' = snapshots \union {x}
      BY <1>7, <2>2
    <3>2. Rowed' = Rowed /\ mined' = mined
      BY <1>2 DEF Rowed, Reads!NoJob
    <3>3. snapshots' \subseteq Snapshots
      BY <1>6, <3>1 DEF FreshInv, RowsAre
    <3>4. \A a \in snapshots' : a.block <= mined /\ (a.log = 1 => a.block \in 1..Rowed)
      BY <1>2, <1>6, <3>1 DEF FreshInv, RowsAre
    <3>5. \A a, b \in snapshots' : a.log = b.log /\ (a.log = 0 \/ a.block = b.block) => a = b
      BY <1>6, <2>2, <3>1 DEF FreshInv, RowsAre
    <3>6. \A t \in 1..Rowed : \E a \in snapshots' : a.log = 1 /\ a.block = t
      BY <3>1 DEF FreshInv, RowsAre
    <3>7. QED
      BY <3>2, <3>3, <3>4, <3>5, <3>6 DEF RowsAre
  <2>3. QED
    BY <2>1, <2>2
<1>11. RowsCover'
  <2> SUFFICES ASSUME ~late'
      PROVE /\ \A a \in snapshots' : 1..a.block \subseteq a.reserves
            /\ job' # Reads!NoJob => 1..(stored' - 1) \subseteq job'.base
            /\ Reached(top)'
    BY DEF RowsCover, Reads!NoJob
  <2>1. ~late /\ seen = q.head
    BY <1>3, <1>4
  <2>2. 1..x.block \subseteq x.reserves
    <3>1. 1..seen \subseteq 1..m
      BY <1>2, <1>5, <2>1
    <3>2. QED
      BY <1>6, <3>1
  <2>3. \A a \in snapshots' : 1..a.block \subseteq a.reserves
    BY <1>7, <2>1, <2>2 DEF FreshInv, RowsCover
  <2>4. Reached(top)'
    BY <1>2, <1>7, <2>1 DEF FreshInv, RowsCover, Reached
  <2>5. QED
    BY <1>2, <2>1, <2>3, <2>4 DEF FreshInv, RowsCover
<1> DEFINE c == Reads!OnChain(q, mined)
           n == [Reads!Read(c) EXCEPT !.pc = "trades", !.stale = FALSE, !.boot = seen]
<1>12. req' = [req EXCEPT ![r] = n]
  BY <1>1 DEF Reads!Bootstrap, Reads!BootstrapBlock
<1>13. PICK e \in ReadRecords : e = c /\ e.began = q.began /\ e.tvl.reserves = q.chain
  BY <1>1, <1>2, OnChainIs DEF ReadRecords
<1>14. PICK d \in ReadRecords :
         d = Reads!Read(e) /\ d.began = e.began /\ d.tvl = e.tvl /\ d.chain = {}
  <2>1. Reads!Read(e) \in ReadRecords
    BY DEF Reads!Read, ReadRecords
  <2>2. QED
    BY <2>1 DEF Reads!Read, ReadRecords
<1>15. n = [d EXCEPT !.pc = "trades", !.stale = FALSE, !.boot = seen]
  BY <1>13, <1>14
<1> HIDE DEF n
<1>16. PICK k \in ReadRecords :
         /\ k = n /\ k.began = q.began /\ k.tvl.reserves = 1..m
         /\ k.chain = {} /\ k.boot = seen
  <2>1. [d EXCEPT !.pc = "trades", !.stale = FALSE, !.boot = seen] \in ReadRecords
    BY <1>2 DEF ReadRecords, Known
  <2>2. n.began = d.began /\ n.tvl = d.tvl /\ n.chain = d.chain /\ n.boot = seen
    BY <1>15 DEF ReadRecords
  <2>3. QED
    BY <1>5, <1>13, <1>14, <1>15, <2>1, <2>2
<1>17. ReadOf(k)'
  <2>1. ChainOK(k)'
    BY <1>16 DEF ChainOK
  <2>2. 1..k.began \subseteq k.tvl.reserves
    <3>1. q.began \in Nat
      BY DEF ReadRecords
    <3>2. 1..q.began \subseteq 1..m
      BY <1>5, <3>1
    <3>3. QED
      BY <1>16, <3>2
  <2>3. TvlOK(k)'
    BY <2>2 DEF TvlOK
  <2>4. k.began <= top' /\ k.boot <= mined'
    BY <1>1, <1>2, <1>16 DEF ReadOf
  <2>5. late' \/ Reached(k.boot)'
    <3> SUFFICES ASSUME ~late' PROVE Reached(k.boot)'
      OBVIOUS
    <3>1. \A a \in snapshots : a.log = 0 => ~(a.block < seen)
      BY <1>3, <1>4
    <3>2. \E a \in snapshots' : seen <= a.block
      <4>1. CASE \E a \in snapshots : a.log = 0
        <5>1. PICK a \in snapshots : a.log = 0 /\ a.block \in Nat
          BY <4>1 DEF FreshInv, RowsAre, Snapshots
        <5>2. seen <= a.block
          BY <1>2, <3>1, <5>1
        <5>3. QED
          BY <1>7, <5>1, <5>2
      <4>2. CASE ~\E a \in snapshots : a.log = 0
        BY <1>2, <1>6, <1>7, <4>2
      <4>3. QED
        BY <4>1, <4>2
    <3>3. QED
      BY <1>16, <3>2 DEF Reached
  <2>6. QED
    BY <2>1, <2>3, <2>4, <2>5 DEF ReadOf
<1>18. QED
  BY <1>8, <1>9, <1>10, <1>11, <1>12, <1>16, <1>17, ReadMoves DEF FreshInv

\* A step of the pool or of the indexer, which no request notices.
LEMMA NoRead ==
  ASSUME FreshInv, Advances, req' = req
  PROVE  /\ req' \in [Requests -> ReadRecords]
         /\ (\A s \in Requests : ReadOf(req[s]))'
<1>1. ASSUME NEW s \in Requests PROVE ReadOf(req[s])'
  <2>1. PICK q \in ReadRecords : q = req[s] /\ ReadOf(q)
    BY DEF FreshInv
  <2>2. ReadOf(q)'
    BY <2>1, ReadStays
  <2>3. q = req'[s]
    BY <2>1
  <2>4. QED
    BY <2>2, <2>3 DEF ReadOf, ChainOK, TvlOK
<1>2. QED
  BY <1>1 DEF FreshInv

LEMMA PoolMoves ==
  ASSUME FreshInv, Reads!Trade \/ Reads!HeadSeen \/ Reads!CoolsDown
  PROVE  FreshInv'
<1>1. /\ UNCHANGED <<stored, snapshots, sync, job, served, req, top, late>>
      /\ mined' \in {mined, mined + 1} /\ seen' \in {seen, mined} /\ mined \in Nat
      /\ seen' # seen => mined' = mined
  BY DEF Reads!Trade, Reads!HeadSeen, Reads!CoolsDown, Reads!chain, Reads!tables, Reads!caches,
     FreshInv, CountsOK
<1>2. Advances
  BY <1>1 DEF Advances, FreshInv, CountsOK
<1>3. CountsOK'
  BY <1>1 DEF FreshInv, CountsOK, Reads!NoJob
<1>4. RowsAre'
  <2>1. \A a \in snapshots : a.block <= mined'
    BY <1>1 DEF FreshInv, RowsAre, Snapshots
  <2>2. QED
    BY <1>1, <2>1 DEF FreshInv, RowsAre, Rowed, Reads!NoJob
<1>5. RowsCover'
  BY <1>1 DEF FreshInv, RowsCover, Reached, Reads!NoJob
<1>6. QED
  BY <1>1, <1>2, <1>3, <1>4, <1>5, NoRead DEF FreshInv

LEMMA TradeIndexed ==
  ASSUME FreshInv, Reads!IndexTrade
  PROVE  FreshInv'
<1>1. /\ UNCHANGED <<mined, seen, snapshots, sync, served, req, top, late>>
      /\ job = Reads!NoJob /\ stored' = stored + 1
      /\ stored \in Nat /\ mined \in Nat /\ stored < mined /\ top \in Nat
  BY DEF Reads!IndexTrade, Reads!chain, Reads!caches, FreshInv, CountsOK
<1>2. PICK b \in SUBSET Nat : b = Reads!LatestReserves
  <2>1. CASE snapshots = {}
    BY <2>1 DEF Reads!LatestReserves
  <2>2. CASE snapshots # {}
    BY <2>2, LatestIs DEF FreshInv, RowsAre, Snapshots, Reads!LatestReserves
  <2>3. QED
    BY <2>1, <2>2
<1>3. PICK j : j = [trade |-> stored + 1, base |-> b]
  OBVIOUS
<1>4. job' = j /\ j.trade = stored + 1 /\ j.base = b
  BY <1>2, <1>3 DEF Reads!IndexTrade
<1>5. job' # Reads!NoJob
  BY <1>1, <1>4 DEF Reads!NoJob
<1>6. Rowed = stored /\ Rowed' = stored
  BY <1>1, <1>5 DEF Rowed, Reads!NoJob
<1>7. Advances
  BY <1>1 DEF Advances, FreshInv, CountsOK
<1>8. CountsOK'
  <2>1. job' = [trade |-> stored', base |-> job'.base] /\ job'.base \in SUBSET Nat
    BY <1>1, <1>3, <1>4
  <2>2. stored' > 0 /\ stored' \in 0..mined
    BY <1>1
  <2>3. QED
    BY <1>1, <2>1, <2>2 DEF FreshInv, CountsOK
<1>9. RowsAre'
  BY <1>1, <1>6 DEF FreshInv, RowsAre
<1>10. RowsCover'
  <2>1. ASSUME ~late PROVE 1..stored \subseteq b
    BY <1>1, <1>2, <2>1, LatestCovers
  <2>2. stored' - 1 = stored
    BY <1>1
  <2>3. late \/ 1..(stored' - 1) \subseteq job'.base
    BY <1>4, <2>1, <2>2
  <2>4. QED
    BY <1>1, <2>3 DEF FreshInv, RowsCover, Reached
<1>11. QED
  BY <1>1, <1>7, <1>8, <1>9, <1>10, NoRead DEF FreshInv

LEMMA LiquidityIndexed ==
  ASSUME FreshInv, Reads!IndexLiquidity
  PROVE  FreshInv'
<1>1. /\ UNCHANGED <<mined, seen, stored, served, req, late>>
      /\ job # Reads!NoJob /\ job' = Reads!NoJob
      /\ stored \in Nat /\ stored > 0 /\ stored <= mined /\ mined \in Nat /\ top \in Nat
      /\ job.trade = stored /\ top <= mined
  BY DEF Reads!IndexLiquidity, Reads!chain, Reads!caches, FreshInv, CountsOK
<1>2. sync' = stored /\ top' = IF stored > top THEN stored ELSE top
  BY <1>1 DEF Reads!IndexLiquidity
<1>3. PICK b \in SUBSET Nat : b = job.base
  BY DEF FreshInv, CountsOK
<1>4. PICK x \in Snapshots :
        /\ x = [block |-> stored, log |-> 1, at |-> stored, reserves |-> b \union {stored}]
        /\ x.block = stored /\ x.log = 1 /\ x.reserves = b \union {stored}
  <2>1. PICK S \in SUBSET Nat : S = b \union {stored}
    BY <1>1
  <2>2. [block |-> stored, log |-> 1, at |-> stored, reserves |-> S] \in Snapshots
    BY <1>1 DEF Snapshots
  <2>3. QED
    BY <2>1, <2>2
<1>5. snapshots' = snapshots \union {x}
  BY <1>1, <1>3, <1>4 DEF Reads!IndexLiquidity
<1>6. Rowed = stored - 1 /\ Rowed' = stored
  BY <1>1 DEF Rowed, Reads!NoJob
<1>7. Advances
  BY <1>1, <1>2, <1>5 DEF Advances, FreshInv, CountsOK
<1>8. CountsOK'
  <2>1. top' \in 0..mined
    BY <1>1, <1>2
  <2>2. job'.base = {}
    BY <1>1 DEF Reads!NoJob
  <2>3. (job = Reads!NoJob)'
    BY <1>1 DEF Reads!NoJob
  <2>4. sync' \in Nat /\ stored' \in 0..mined' /\ seen' \in 0..mined' /\ top' \in 0..mined'
    BY <1>1, <1>2, <2>1 DEF FreshInv, CountsOK
  <2>5. mined' \in Nat /\ served' \in Nat /\ late' \in BOOLEAN
    BY <1>1 DEF FreshInv, CountsOK
  <2>6. QED
    BY <2>2, <2>3, <2>4, <2>5, Zenon DEF CountsOK
<1>9. RowsAre'
  <2>0. 1..Rowed = 1..(stored - 1) /\ 1..stored = 1..(stored - 1) \union {stored}
    BY <1>1, <1>6
  <2>1. \A a \in snapshots : a.log \in {0, 1} /\ (a.log = 1 => a.block \in 1..(stored - 1))
    BY <2>0 DEF FreshInv, RowsAre, Snapshots
  <2>2. snapshots' \subseteq Snapshots
    BY <1>5 DEF FreshInv, RowsAre
  <2>3. \A a \in snapshots' : a.block <= mined /\ (a.log = 1 => a.block \in 1..stored)
    BY <1>1, <1>4, <1>5, <2>0, <2>1 DEF FreshInv, RowsAre
  <2>4. \A a, b1 \in snapshots' : a.log = b1.log /\ (a.log = 0 \/ a.block = b1.block) => a = b1
    <3>1. \A a \in snapshots : a.log = 1 => a.block # stored
      BY <1>1, <2>1
    <3>2. \A a \in snapshots : a.log = 1 \/ a.log = 0
      BY <2>1
    <3>3. \A a, b1 \in snapshots : a.log = b1.log /\ (a.log = 0 \/ a.block = b1.block) => a = b1
      BY DEF FreshInv, RowsAre
    <3>4. \A a \in snapshots : ~(a.log = x.log /\ (a.log = 0 \/ a.block = x.block))
      BY <1>4, <3>1
    <3>5. x.log # 0
      BY <1>4
    <3>6. QED
      BY <1>5, <3>3, <3>4, <3>5
  <2>5. \A t \in 1..stored : \E a \in snapshots' : a.log = 1 /\ a.block = t
    <3> SUFFICES ASSUME NEW t \in 1..stored PROVE \E a \in snapshots' : a.log = 1 /\ a.block = t
      OBVIOUS
    <3>1. CASE t = stored
      BY <1>4, <1>5, <3>1
    <3>2. CASE t # stored
      <4>1. t \in 1..Rowed
        BY <2>0, <3>2
      <4>2. QED
        BY <1>5, <4>1 DEF FreshInv, RowsAre
    <3>3. QED
      BY <3>1, <3>2
  <2>6. QED
    BY <1>1, <1>6, <2>2, <2>3, <2>4, <2>5 DEF RowsAre
<1>10. RowsCover'
  <2> SUFFICES ASSUME ~late
      PROVE /\ \A a \in snapshots' : 1..a.block \subseteq a.reserves
            /\ Reached(top)'
    BY <1>1 DEF RowsCover, Reads!NoJob
  <2>1. 1..stored \subseteq b \union {stored}
    <3>1. 1..(stored - 1) \subseteq b
      BY <1>1, <1>3 DEF FreshInv, RowsCover
    <3>2. 1..stored = 1..(stored - 1) \union {stored}
      BY <1>1
    <3>3. QED
      BY <3>1, <3>2
  <2>2. \A a \in snapshots' : 1..a.block \subseteq a.reserves
    BY <1>4, <1>5, <2>1 DEF FreshInv, RowsCover
  <2>3. Reached(top)'
    <3>1. CASE stored > top
      <4>1. top' = stored /\ \E a \in snapshots' : stored <= a.block
        BY <1>1, <1>2, <1>4, <1>5, <3>1
      <4>2. QED
        BY <4>1 DEF Reached
    <3>2. CASE ~(stored > top)
      BY <1>2, <1>5, <3>2 DEF FreshInv, RowsCover, Reached
    <3>3. QED
      BY <3>1, <3>2
  <2>4. QED
    BY <2>2, <2>3
<1>11. QED
  BY <1>1, <1>7, <1>8, <1>9, <1>10, NoRead DEF FreshInv

LEMMA FreshInitially == PoolInit => FreshInv
<1> SUFFICES ASSUME PoolInit PROVE FreshInv
  OBVIOUS
<1>1. /\ mined = 0 /\ seen = 0 /\ stored = 0 /\ snapshots = {} /\ sync \in {-1, 0}
      /\ job = Reads!NoJob /\ served = 0 /\ top = 0 /\ late = FALSE
      /\ req = [r \in Requests |-> Reads!Free]
  BY DEF PoolInit, Reads!Init, Reads!NoRow
<1>2. job.base = {}
  BY <1>1 DEF Reads!NoJob
<1>3. CountsOK
  <2>0. late \in BOOLEAN
    BY <1>1, Zenon
  <2>1. sync \in Nat \union {-1} /\ mined \in Nat
    BY <1>1
  <2>1a. seen \in 0..mined /\ stored \in 0..mined /\ top \in 0..mined /\ served \in Nat
    BY <1>1
  <2>2. job.base \in SUBSET Nat
    BY <1>2
  <2>3. job = Reads!NoJob
    BY <1>1
  <2>4. QED
    BY <2>0, <2>1, <2>1a, <2>2, <2>3, Zenon DEF CountsOK
<1>4. Rowed = 0
  BY <1>1 DEF Rowed
<1>5. RowsAre
  BY <1>1, <1>4 DEF RowsAre
<1>6. RowsCover
  BY <1>1 DEF RowsCover, Reached
<1>7. PICK f \in ReadRecords :
        f = Reads!Free /\ f.pc = "free" /\ f.began = 0 /\ f.chain = {} /\ f.boot = -1
  BY NothingRead
<1>8. ReadOf(f)
  BY <1>1, <1>7 DEF ReadOf, ChainOK, TvlOK, Known, Reached
<1>9. req \in [Requests -> ReadRecords]
  BY <1>1, <1>7
<1>10. \A r \in Requests : req[r] = f
  BY <1>1, <1>7
<1>11. \A r \in Requests : ReadOf(req[r])
  BY <1>8, <1>10
<1>12. QED
  BY <1>3, <1>5, <1>6, <1>9, <1>11 DEF FreshInv

LEMMA FreshStep == FreshInv /\ [PoolNext]_poolVars => FreshInv'
<1> SUFFICES ASSUME FreshInv, [PoolNext]_poolVars PROVE FreshInv'
  OBVIOUS
<1>1. CASE UNCHANGED readVars
  BY <1>1 DEF readVars, FreshInv, CountsOK, RowsAre, RowsCover, Reached, Rowed, ReadOf, ChainOK,
     TvlOK, Reads!NoJob
<1>2. CASE MarketRead
  <2>1. CASE Reads!Trade \/ Reads!HeadSeen \/ Reads!CoolsDown
    BY <2>1, PoolMoves
  <2>2. CASE Reads!IndexTrade
    BY <2>2, TradeIndexed
  <2>3. CASE Reads!IndexLiquidity
    BY <2>3, LiquidityIndexed
  <2>4. ASSUME NEW r \in Requests, Reads!Ask(r) \/ Reads!Answer(r) \/ Reads!Fails(r)
        PROVE FreshInv'
    BY <2>4, ReadBegins
  <2>5. ASSUME NEW r \in Requests, Reads!Summary(r) PROVE FreshInv'
    <3>1. CASE Reads!ReadLiquidity(r)
      BY <3>1, RowsAreRead
    <3>2. CASE Reads!ReadLastTrade(r)
      BY <3>2, LastTradeRead
    <3>3. CASE Reads!Balances(r)
      BY <3>3, BalancesRead
    <3>4. CASE Reads!BalancesFail(r)
      BY <3>4, BalancesNotRead
    <3>5. CASE Reads!Probed(r) \/ Reads!NoBootstrap(r)
      BY <3>5, ProbeIsRead
    <3>6. CASE Reads!Bootstrap(r)
      BY <3>6, Bootstraps
    <3>7. CASE Reads!Spotted(r) \/ Reads!Done(r)
      BY <3>7, TvlIsRead
    <3>8. CASE Reads!ReadTrades(r)
      BY <3>8, TradesAreRead
    <3>9. QED
      BY <2>5, <3>1, <3>2, <3>3, <3>4, <3>5, <3>6, <3>7, <3>8 DEF Reads!Summary
  <2>6. ASSUME NEW r \in Requests, Reads!ReadMetrics(r) \/ Reads!ReadCandles(r)
        PROVE FreshInv'
    BY <2>6, RowsAreRead, CandlesRead
  <2>7. ASSUME NEW r \in Requests, Reads!ReadSync(r) \/ Reads!ReadSyncFails(r)
        PROVE FreshInv'
    BY <2>7, SyncIsRead
  <2>8. ASSUME NEW r \in Requests, Reads!UpdateSync(r) PROVE FreshInv'
    BY <2>8, CursorIsWritten
  <2>9. QED
    BY <1>2, <2>1, <2>2, <2>3, <2>4, <2>5, <2>6, <2>7, <2>8 DEF MarketRead, Reads!Next
<1>3. QED
  BY <1>1, <1>2 DEF PoolNext, Contract, poolVars

\* The TVL a pool's market answers without the stale flag accounts for every
\* trade up to the cursor that stood when the request came, for any number of
\* requests, trades and failures: the routes of markets.ts, their probes and
\* their bootstrap.
THEOREM TvlStaysFresh == PoolSpec => []TvlFresh
<1>1. FreshInv => TvlFresh
  <2> SUFFICES ASSUME FreshInv, NEW r \in Requests, req[r].pc = "answer", ~req[r].stale, ~late
      PROVE 1..req[r].began \subseteq req[r].tvl.reserves
    BY DEF TvlFresh, Reads!TvlFresh
  <2>1. TvlOK(req[r])
    BY DEF FreshInv, ReadOf
  <2>2. QED
    BY <2>1 DEF TvlOK, Known
<1>2. QED
  BY <1>1, FreshInitially, FreshStep, PTL DEF PoolSpec
=============================================================================
