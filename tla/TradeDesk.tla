------------------------------ MODULE TradeDesk ------------------------------
(***************************************************************************)
(* An order placed on a market's page (handlePlaceOrder, frontend/src/app/  *)
(* markets/[id]/MarketPageClient.tsx, and frontend/src/lib/amm.ts): the     *)
(* page quotes against the market maker with one read after the other, has  *)
(* the wallet sign an approval and the trade, and waits for both receipts,  *)
(* while other accounts trade and take their funding out.  A receipt that   *)
(* cannot be had leaves a trade behind that is mined beside a later order.  *)
(* The routes of apps/api/src/routes/trade.ts quote with the same search.   *)
(* The market maker is module MarketMaker.                                  *)
(***************************************************************************)
EXTENDS MarketMaker, Sequences

CONSTANTS Me,        \* the account of the page
          Depth,     \* what the pool is funded with
          Tokens,    \* outcome tokens Me holds of each outcome
          Orders,    \* amounts typed into the form
          Den, Slip, \* slippage: 50 of 10000
          MaxSteps,  \* MAX_BINARY_SEARCH_STEPS, 48
          MaxOrders, \* bound on the orders placed
          MaxMoves   \* bound on what the others do

ASSUME DeskAssumption ==
    /\ Depth \in Nat /\ Tokens \in Nat /\ Orders \subseteq Nat
    /\ Den \in Nat \ {0} /\ Slip \in 0..Den
    /\ MaxSteps \in Nat /\ MaxOrders \in Nat /\ MaxMoves \in Nat

VARIABLES order,    \* the order in flight, or the last one
          earlier,  \* what earlier orders signed and was not mined yet
          approved, \* sides whose token the market maker may take from Me
          gain,     \* history: the last trade of Me, its terms and what it brought
          poolInit, \* poolInitialized: "null", "true", "false"
          poolSeen, \* poolInitializedRef
          shown,    \* walletBalances
          peek,     \* a read of the balances that no order asked for
          placed, moves \* counters of the bounds

signed == <<earlier, approved, gain>>
wholePage == <<poolInit, poolSeen, shown, peek>>
deskVars == <<order, signed, wholePage>>
deskAll == <<vars, deskVars, placed, moves>>

Crowd == Accounts \ {Me}
Sides == {"BUY", "SELL"}
NoPeek == [on |-> FALSE, usdf |-> 0, old |-> FALSE]
NoGain == [of |-> "none", side |-> "BUY", n |-> 0, min |-> 0, paid |-> 0, got |-> 0]
NoOrder == [pc |-> "idle", side |-> "BUY", out |-> 0, n |-> 0, min |-> 0, quote |-> 0,
            lo |-> 0, hi |-> 0, steps |-> 0, moved |-> FALSE,
            approval |-> "none", trade |-> "none", lost |-> FALSE, report |-> "none",
            usdf |-> 0, blind |-> FALSE]

MyBalances == <<wallet[Me], held[Me][0], held[Me][1]>>

\* The others have funded the pool and Me has split a set.
DeskInit ==
    /\ Me \in Accounts
    /\ pool = [o \in Outcomes |-> Depth]
    /\ held = [a \in Accounts |-> [o \in Outcomes |-> IF a = Me THEN Tokens ELSE 0]]
    /\ wallet = [a \in Accounts |-> Endowment]
    /\ pot = Depth + Tokens /\ cash = 0
    /\ \E lp \in Crowd :
         /\ shares = [a \in Accounts |-> IF a = lp THEN Depth ELSE 0]
         /\ withdrawn = [a \in Accounts |-> IF a = lp THEN Depth ELSE 0]
    /\ supply = Depth /\ feeWeight = Depth /\ allWithdrawn = Depth
    /\ order = NoOrder /\ earlier = <<>> /\ approved = {} /\ gain = NoGain
    /\ poolInit = "null" /\ poolSeen = FALSE /\ shown = <<0, 0, 0>> /\ peek = NoPeek
    /\ placed = 0 /\ moves = 0

-----------------------------------------------------------------------------
(* What the market maker answers and does. *)

Net(n) == n - BuyFee(n)
BuyQuote(n, o) == pool[o] + Net(n) - ceildiv(BuyEnding(Net(n), o), ONE)
BuyAnswers(n, o) == pool[Other(o)] + Net(n) > 0 /\ BuyEnding(Net(n), o) > 0

SellAnswers(r, o) == pool[Other(o)] > SellGross(r) /\ SellEnding(SellGross(r), o) > 0
SellRequired(r, o) == SellGross(r) + ceildiv(SellEnding(SellGross(r), o), ONE) - pool[o]

\* The tokens of a sale pay for the return r.
PaidBy(t, r) == SellAnswers(r, t.out) /\ SellRequired(r, t.out) <= t.n
Fits(r) == PaidBy(order, r)

\* Other accounts, the deployer among them: the API's /trade/buy and
\* /trade/sell send its transaction and answer without waiting.
Others ==
    /\ moves < MaxMoves /\ moves' = moves + 1
    /\ \E a \in Crowd : Trade(a) \/ (shares[a] > 0 /\ RemoveFunding(a, shares[a]))
    /\ order' = [order EXCEPT !.moved = TRUE]
    /\ UNCHANGED <<signed, wholePage, placed>>

-----------------------------------------------------------------------------
(* The order. *)

Report(what, o) == [o EXCEPT !.pc = "idle", !.report = what]
Step(o) == order' = o /\ UNCHANGED <<vars, signed, wholePage, placed, moves>>

PoolInitialized == supply > 0

\* loadPoolState: once seen, a pool stays initialized. A read that fails
\* changes nothing.
LoadPoolState ==
    /\ poolSeen' = (poolSeen \/ PoolInitialized)
    /\ poolInit' = IF poolSeen' THEN "true" ELSE "false"

PageLoadsPool ==
    /\ LoadPoolState
    /\ UNCHANGED <<vars, order, signed, shown, peek, placed, moves>>

Tx(kind) == [kind |-> kind, side |-> order.side, out |-> order.out,
             n |-> order.n, min |-> order.min]
Unmined == (IF order.approval = "pending" THEN <<Tx("approval")>> ELSE <<>>)
           \o (IF order.trade = "pending" THEN <<Tx("trade")>> ELSE <<>>)

\* What the last order has signed stays with the chain.
PlaceOrder(side, o, n) ==
    /\ order.pc = "idle" /\ poolInit # "false" /\ placed < MaxOrders
    /\ order' = [NoOrder EXCEPT !.side = side, !.out = o, !.n = n, !.hi = n,
                   !.pc = IF poolInit = "null" THEN "pool" ELSE "quote"]
    /\ earlier' = earlier \o Unmined
    /\ gain' = NoGain
    /\ placed' = placed + 1
    /\ UNCHANGED <<vars, approved, wholePage, moves>>

\* An order on a page that does not know its pool yet loads the state itself. A
\* second click during that first read, before the button is locked, is left out.
AwaitPool ==
    /\ order.pc = "pool"
    /\ LoadPoolState
    /\ order' = IF poolSeen' THEN [order EXCEPT !.pc = "quote"] ELSE Report("error", order)
    /\ UNCHANGED <<vars, signed, shown, peek, placed, moves>>

\* A state that cannot be read counts as no pool.
PoolUnknown ==
    /\ order.pc = "pool" /\ ~poolSeen
    /\ Step(Report("error", order))

MinOut(q) == (q * (Den - Slip)) \div Den

\* A quote, or a minimum, of zero is refused.
Priced(q) ==
    IF MinOut(q) > 0 THEN [order EXCEPT !.pc = "check", !.quote = q, !.min = MinOut(q)]
                     ELSE Report("error", [order EXCEPT !.quote = q])

QuoteBuy ==
    /\ order.pc = "quote" /\ order.side = "BUY"
    /\ IF BuyAnswers(order.n, order.out)
       THEN Step(Priced(BuyQuote(order.n, order.out)))
       ELSE Step(Report("error", order))

Mid(lo, hi) == ((lo + hi) \div 2) + IF hi > lo THEN 1 ELSE 0

\* One read of calcSellAmount in the search for the largest return that n
\* tokens pay for; a read that reverts ends the order.
Probe ==
    LET mid == Mid(order.lo, order.hi)
        next == [order EXCEPT !.steps = @ + 1, !.lo = IF Fits(mid) THEN mid ELSE @,
                              !.hi = IF Fits(mid) THEN @ ELSE mid - 1,
                              !.quote = IF Fits(mid) THEN mid ELSE @]
    IN  /\ order.pc = "quote" /\ order.side = "SELL" /\ order.steps < MaxSteps
        /\ IF SellAnswers(mid, order.out)
           THEN Step([next EXCEPT !.pc = IF next.hi - next.lo <= 1 THEN "last" ELSE "quote"])
           ELSE Step(Report("error", order))

\* The final read, of the upper end.
ProbeLast ==
    /\ order.pc = "last"
    /\ IF SellAnswers(order.hi, order.out)
       THEN Step(Priced(IF Fits(order.hi) THEN order.hi ELSE order.quote))
       ELSE Step(Report("error", order))

SearchEnds ==
    /\ order.pc = "quote" /\ order.side = "SELL" /\ order.steps >= MaxSteps
    /\ Step(Priced(order.quote))

\* A purchase looks at the balance; ensureUsdfAllowance, ensureOutcomeApproval.
Check ==
    /\ order.pc = "check"
    /\ IF order.side = "BUY" /\ wallet[Me] < order.n
       THEN Step(Report("error", order))
       ELSE Step([order EXCEPT !.pc = IF order.side \in approved THEN "sign" ELSE "approve"])

\* The wallet asks; the trade is signed before the approval is mined.
SignApproval ==
    /\ order.pc = "approve"
    /\ Step([order EXCEPT !.pc = "sign", !.approval = "pending"])

SignTrade ==
    /\ order.pc = "sign"
    /\ Step([order EXCEPT !.pc = "wait", !.trade = "pending"])

WalletRefuses == order.pc \in {"approve", "sign"} /\ Step(Report("error", order))

-----------------------------------------------------------------------------
(* Transactions of Me are mined in the order of their nonces. *)

\* Mutant of Accepts: the market maker trades at any price.
AcceptsAny(t) == t.side \in approved

\* The minimum bought, the maximum sold.
Accepts(t) ==
    /\ t.side \in approved
    /\ IF t.side = "BUY" THEN BuyAnswers(t.n, t.out) /\ BuyQuote(t.n, t.out) >= t.min
                         ELSE PaidBy(t, t.min)

\* buy(n, out, min), sell(min, out, n): a sale returns the minimum.
TradeCall(t) == IF t.side = "BUY" THEN Buy(Me, t.n, t.out) ELSE Sell(Me, t.min, t.out)

Spent(t) == IF t.side = "BUY" THEN wallet[Me] - wallet'[Me]
                              ELSE held[Me][t.out] - held'[Me][t.out]
Received(t) == IF t.side = "BUY" THEN held'[Me][t.out] - held[Me][t.out]
                                 ELSE wallet'[Me] - wallet[Me]

\* A read of the balances that is under way now mixes them.
Executes(t, of) ==
    /\ Accepts(t) /\ TradeCall(t)
    /\ gain' = [of |-> of, side |-> t.side, n |-> t.n, min |-> t.min,
                paid |-> Spent(t), got |-> Received(t)]
    /\ peek' = [peek EXCEPT !.old = TRUE]
    /\ UNCHANGED <<approved, poolInit, poolSeen, shown, placed, moves>>

Fails(t) == ~(Accepts(t) /\ ENABLED TradeCall(t))

\* What an earlier order left behind is mined before anything of this one.
EarlierMined ==
    /\ earlier # <<>> /\ earlier' = Tail(earlier)
    /\ LET t == Head(earlier) IN
         \/ /\ t.kind = "approval" /\ approved' = approved \union {t.side}
            /\ UNCHANGED <<vars, order, gain, wholePage, placed, moves>>
         \/ /\ t.kind = "trade" /\ Executes(t, "earlier")
            /\ order' = [order EXCEPT !.moved = TRUE]
         \/ /\ t.kind = "trade" /\ Fails(t)
            /\ UNCHANGED <<vars, order, approved, gain, wholePage, placed, moves>>

ApprovalMined ==
    /\ earlier = <<>> /\ order.approval = "pending"
    /\ order' = [order EXCEPT !.approval = "success"]
    /\ approved' = approved \union {order.side}
    /\ UNCHANGED <<vars, earlier, gain, wholePage, placed, moves>>

TradeDue == earlier = <<>> /\ order.trade = "pending" /\ order.approval # "pending"

TradeExecutes ==
    /\ TradeDue /\ Executes(order, "order")
    /\ order' = [order EXCEPT !.trade = "success"]
    /\ UNCHANGED earlier

TradeReverts ==
    /\ TradeDue /\ Fails(order)
    /\ Step([order EXCEPT !.trade = "reverted"])

\* A wait for a receipt that fails although the transaction is on its way.
LoseReceipt ==
    /\ order.pc = "wait" /\ ~order.lost
    /\ Step([order EXCEPT !.lost = TRUE])

\* Mutant of Settle: the first answer decides.
SettleEarly ==
    /\ order.pc = "wait" /\ (order.lost \/ order.trade # "pending" \/ order.approval = "success")
    /\ Step(IF order.lost \/ order.trade = "reverted" THEN Report("error", order)
            ELSE [order EXCEPT !.pc = "refresh", !.report = "success"])

\* Both receipts are settled before either is looked at. A trade that succeeded
\* shows that the pool is initialized: setPoolInitialized(true).
Settle ==
    /\ order.pc = "wait" /\ order.approval # "pending"
    /\ order.lost \/ order.trade # "pending"
    /\ \/ /\ order.lost \/ order.trade # "success"
          /\ Step(Report("error", order))
       \/ /\ ~order.lost /\ order.trade = "success"
          /\ order' = [order EXCEPT !.pc = "refresh", !.report = "success"]
          /\ poolInit' = "true"
          /\ UNCHANGED <<vars, signed, poolSeen, shown, peek, placed, moves>>

\* refreshBalances reads the USDF, then both outcome tokens, and shows them
\* together.
ReadUsdf ==
    /\ order.pc = "refresh"
    /\ Step([order EXCEPT !.pc = "tokens", !.usdf = wallet[Me]])

Shows(usdf) == shown' = <<usdf, held[Me][0], held[Me][1]>>

Refresh ==
    /\ order.pc = "tokens"
    /\ order' = [order EXCEPT !.pc = "idle", !.blind = FALSE]
    /\ Shows(order.usdf)
    /\ UNCHANGED <<vars, signed, poolInit, poolSeen, peek, placed, moves>>

\* A read that fails is swallowed: the old balances stay.
RefreshFails ==
    /\ order.pc \in {"refresh", "tokens"}
    /\ Step([order EXCEPT !.pc = "idle", !.blind = TRUE])

\* The page reads the balances when it opens, for the wallet and for the market.
Peek ==
    /\ ~peek.on
    /\ peek' = [on |-> TRUE, usdf |-> wallet[Me], old |-> FALSE]
    /\ UNCHANGED <<vars, order, signed, poolInit, poolSeen, shown, placed, moves>>

PeekLands ==
    /\ peek.on /\ peek' = NoPeek
    /\ Shows(peek.usdf)
    /\ order' = [order EXCEPT !.blind = peek.old]
    /\ UNCHANGED <<vars, signed, poolInit, poolSeen, placed, moves>>

PeekFails ==
    /\ peek.on /\ peek' = NoPeek
    /\ UNCHANGED <<vars, order, signed, poolInit, poolSeen, shown, placed, moves>>

Quoting == QuoteBuy \/ Probe \/ ProbeLast \/ SearchEnds
Desk == AwaitPool \/ PoolUnknown \/ Quoting \/ Check \/ Settle
Balances == ReadUsdf \/ Refresh \/ RefreshFails \/ Peek \/ PeekLands \/ PeekFails
Signing == SignApproval \/ SignTrade \/ WalletRefuses
MinedOfMe == EarlierMined \/ ApprovalMined \/ TradeExecutes \/ TradeReverts
Click == \E side \in Sides, o \in Outcomes, n \in Orders : PlaceOrder(side, o, n)

DeskNext == Click \/ Desk \/ Balances \/ Signing \/ MinedOfMe \/ PageLoadsPool
            \/ LoseReceipt \/ Others

DeskSpec == DeskInit /\ [][DeskNext]_deskAll

-----------------------------------------------------------------------------
(* Properties. *)

(* Whoever trades between the quote, the signature and the block, even when  *)
(* the reads of one quote saw different reserves, and even when the trade is *)
(* mined beside a later order: a purchase costs the amount typed and brings  *)
(* the minimum at least, a sale costs no more tokens than typed and brings   *)
(* exactly the minimum.                                                      *)
PriceKept ==
    gain.of # "none" =>
      /\ gain.paid <= gain.n
      /\ gain.side = "BUY" => gain.paid = gain.n /\ gain.got >= gain.min
      /\ gain.side = "SELL" => gain.got = gain.min

(* The page says an order succeeded only if its own trade did, whatever an   *)
(* earlier one left behind.  The balances it then shows are those after that *)
(* trade, unless its refresh failed or a read begun before the trade came    *)
(* back last.  It reports an error over a trade that executed or still may   *)
(* only if a receipt could not be had.                                       *)
ReportTrue ==
    /\ order.report = "success" => gain.of = "order" /\ earlier = <<>>
    /\ order.report = "success" /\ order.pc = "idle" /\ ~order.blind => shown = MyBalances
    /\ order.report = "error" /\ ~order.lost =>
         gain.of # "order" /\ order.trade # "pending"

\* The largest return that the tokens of the order pay for.
BestReturn == LET paid == {r \in 0..order.n : Fits(r)}
              IN  CHOOSE r \in paid : \A s \in paid : s <= r

\* 2 to the power of k.
TwoTo[k \in 0..MaxSteps] == IF k = 0 THEN 1 ELSE 2 * TwoTo[k - 1]

(* On reserves that do not move the search, where no read is beyond the      *)
(* pool's depth, is never above the best return, and below it by no more     *)
(* than what its steps could not halve away.                                 *)
QuoteTight ==
    order.side = "SELL" /\ order.pc \in {"check", "approve"} /\ ~order.moved
        => BestReturn - order.quote \in 0..(order.n \div TwoTo[MaxSteps])
=============================================================================
