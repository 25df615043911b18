------------------------------- MODULE MC_Pages -------------------------------
(* The pages, together: each behaviour is about one thing a page does, the   *)
(* order form (TradeDesk), the swap page (Vending), the market's page        *)
(* (LivePage), the points of its chart (SpotPoints) or the holdings that     *)
(* pages show and redeem (Holdings).                                         *)
EXTENDS TradeDesk

\* Of Vending.
CONSTANTS Amounts, FlatFee, Threshold, FeeDivisor, Cent, OwnerAmount, MaxOwner, MaxTx
\* Of LivePage and of SpotPoints.
CONSTANTS MaxTrades, Rows, TapeRows, Slots, MaxFaults, Visitors, NumTrades, LastTime
\* Of Holdings.
CONSTANTS Wallets, Stake, MaxElsewhere, MaxClicks

VARIABLES opened,  \* what this behaviour is about
          faults   \* calls that failed
VARIABLES usdt, usdf, others, spend, minted, rescued, calls, txs, sent,
          form, call, timers, dropped
VARIABLES db, stream, asks, page
VARIABLES traded, now, recordings, points
VARIABLES owned, tokens, had, payments, connected, loads, balances, redeem, reported,
          profile, elsewhere, clicks

Swap == INSTANCE Vending
Tape == INSTANCE LivePage
Spot == INSTANCE SpotPoints WITH Drained <- {}, calls <- recordings
Mine == INSTANCE Holdings WITH usdf <- owned, txs <- payments, wallet <- connected,
          shown <- balances, moves <- elsewhere, MaxMoves <- MaxElsewhere

swapVars == <<usdt, usdf, others, spend, minted, rescued, calls, txs, sent,
              form, call, timers, dropped>>
liveVars == <<db, stream, asks, page>>
spotVars == <<traded, now, recordings, points>>
mineVars == <<owned, tokens, had, payments, connected, loads, balances, redeem, reported,
              profile, elsewhere, clicks>>
pages == <<opened, faults, deskAll, swapVars, liveVars, spotVars, mineVars>>

PagesInit ==
    /\ opened \in {"order", "swap", "market", "chart", "holdings"}
    /\ DeskInit /\ Swap!Init /\ Tape!Init /\ Spot!Init /\ Mine!Init

OrderPage == /\ opened = "order" /\ DeskNext
             /\ UNCHANGED <<opened, faults, swapVars, liveVars, spotVars, mineVars>>
SwapPage == /\ opened = "swap" /\ Swap!Next
            /\ UNCHANGED <<opened, faults, deskAll, liveVars, spotVars, mineVars>>
MarketPage == /\ opened = "market" /\ Tape!Next
              /\ UNCHANGED <<opened, deskAll, swapVars, spotVars, mineVars>>
Chart == /\ opened = "chart" /\ Spot!Next
         /\ UNCHANGED <<opened, deskAll, swapVars, liveVars, mineVars>>
Holdings == /\ opened = "holdings" /\ Mine!Next
            /\ UNCHANGED <<opened, deskAll, swapVars, liveVars, spotVars>>
PagesNext == OrderPage \/ SwapPage \/ MarketPage \/ Chart \/ Holdings

ASSUME PagesAssumption ==
    /\ Swap!VendingAssumption /\ Tape!TapeAssumption /\ Mine!HoldingsAssumption

NoHints == {}

\* What a behaviour is not about has not begun, and none of its steps is due.
PagesSpec ==
    /\ PagesInit /\ [][PagesNext]_pages
    /\ Swap!Fairness /\ Tape!Fairness /\ Spot!Fairness

(* What the machine lacks to pay every holder is never more than what its    *)
(* owner minted without payment and took out.                                *)
Backed == Swap!Backed

(* An order costs and brings what the page said, and is quoted tightly.       *)
OrderFair == PriceKept /\ QuoteTight

(* Neither the order form nor the swap page reports what the chain did not   *)
(* do, and no page what a wallet never had, or another user's portfolio.     *)
ReportsTrue == ReportTrue /\ Swap!PanelTrue /\ Mine!HoldingsTrue

(* A swap that was started ends and leaves the form ready for the next.       *)
FormUnlocks == Swap!FormUnlocks

(* The tape lists a trade once, and only trades that were indexed.            *)
TapeOnce == Tape!TapeOnce

(* The tape of a page that stays open, and the chart's points, follow.        *)
PageFollows == Tape!PageCatchesUp /\ Spot!PointFollows
===============================================================================
