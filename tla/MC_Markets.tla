------------------------------ MODULE MC_Markets ------------------------------
(* How markets are created and found, for TLC: each behaviour is about the   *)
(* creation of markets by the API (MarketCreation), the factory that makes   *)
(* their market makers (Factory), the form that asks for a market            *)
(* (CreateForm), the page that lists markets (MarketList) or the card of the *)
(* home page (HomeCard).                                                     *)
EXTENDS MarketCreation

\* Of CreateForm.
CONSTANTS Forms, Funds, Amounts, MaxAsked, MaxTyped, MaxFaults
\* Of MarketList, of HomeCard and of Factory.
CONSTANTS Markets, CONCURRENCY, MaxStats, MaxHeard, MaxChanges
CONSTANTS Live, MaxTrades, MaxTime, MaxMoves
CONSTANTS Users, Tokens, MAX_FEE, Fees, Lists, SlotCounts, MaxMakers

VARIABLES about,   \* what this behaviour is about
          faults   \* calls that failed, of all but the first
VARIABLES form, call, seen, wallet, own, sent, count, says, excused, typed
VARIABLES traded, recorded, now, visit, deck, turned, card, kept, fetched, asks,
          known, crossed, moves
VARIABLES listed, stats, loads, list, cache, metric, runs, heard, top, calm, read, changes
VARIABLES owner, allowedCollateralToken, defaultFee, slots, makers

Dialogs == INSTANCE CreateForm WITH MaxMarkets <- MaxAsked, pools <- own, told <- says
Home == INSTANCE HomeCard WITH list <- deck, cache <- kept
Page == INSTANCE MarketList WITH rows <- listed
Makers == INSTANCE Factory

ASSUME MarketsAssumption ==
    /\ Dialogs!FormAssumption /\ Makers!FactoryAssumption
    /\ Page!ListAssumption /\ Home!CardAssumption

formVars == <<form, call, seen, wallet, own, sent, count, says, excused, typed>>
cardVars == <<traded, recorded, now, visit, deck, turned, card, kept, fetched, asks,
              known, crossed, moves>>
listVars == <<listed, stats, loads, list, cache, metric, runs, heard, top, calm, read, changes>>
factoryVars == <<owner, allowedCollateralToken, defaultFee, slots, makers>>
markets == <<about, faults, vars, formVars, cardVars, listVars, factoryVars>>

\* The part a behaviour is about starts in any of its initial states.
MarketsInit ==
    /\ about \in {"creation", "factory", "form", "list", "card"}
    /\ Init /\ Dialogs!Init /\ Page!Init /\ Home!Init /\ Makers!Init
    /\ about # "creation" => left = CHOOSE b \in Budgets : TRUE
    /\ about # "list" => listed = {}
    /\ about # "card" => \A m \in Markets : recorded[m] = 0
    /\ about # "factory" => /\ owner = CHOOSE u \in Users : TRUE
                            /\ allowedCollateralToken = CHOOSE t \in Tokens : TRUE
                            /\ defaultFee = 0

Creation == /\ about = "creation" /\ Next
            /\ UNCHANGED <<about, faults, formVars, listVars, cardVars, factoryVars>>
Making == /\ about = "factory" /\ Makers!Next
          /\ UNCHANGED <<about, faults, vars, formVars, listVars, cardVars>>
Form == /\ about = "form" /\ Dialogs!Next
        /\ UNCHANGED <<about, vars, listVars, cardVars, factoryVars>>
Listing == /\ about = "list" /\ Page!Next
           /\ UNCHANGED <<about, vars, formVars, cardVars, factoryVars>>
HomePage == /\ about = "card" /\ Home!Next
            /\ UNCHANGED <<about, vars, formVars, listVars, factoryVars>>
MarketsNext == Creation \/ Making \/ Form \/ Listing \/ HomePage

\* What a behaviour is not about has not begun, and none of its steps is due.
MarketsSpec == MarketsInit /\ [][MarketsNext]_markets /\ Fairness

NoneOrBoth == {<<>>, <<1>>, <<1, 2>>}
Budget(creates, seeds, faulty) == [creates |-> creates, seeds |-> seeds, faults |-> faulty]
MCBudgets == {Budget(2, 0, 1), Budget(2, 1, 0), Budget(1, 2, 1)}

(* A dialog ends with what happened to its market and the payments into it.  *)
FormTrue == Dialogs!FormTrue

(* What a visitor sees of the markets is no older than what was there, and   *)
(* a market maker has the terms its caller was given.                        *)
MarketsTrue == Page!ListTrue /\ []Home!CardTrue /\ []Makers!TermsHold
===============================================================================
