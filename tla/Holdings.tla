------------------------------- MODULE Holdings -------------------------------
(***************************************************************************)
(* What pages read and show of a wallet's holdings once a market is         *)
(* resolved, and the redemption of its tokens: the market's page            *)
(* (frontend/src/app/markets/[id]/MarketPageClient.tsx), which reads the    *)
(* chain itself, and the profile page (app/profile/page.tsx), which asks    *)
(* the API for a portfolio (apps/api/src/routes/trade.ts).  Wallets change  *)
(* while reads are on their way, and the chain moves between two reads.     *)
(*                                                                          *)
(* A token is a winning one and worth one USDF; the losing ones redeem to   *)
(* nothing.  Of the native coin only the tips are kept.  The site no longer *)
(* trades in a resolved market: its tokens are only redeemed.               *)
(***************************************************************************)
EXTENDS Integers, Sequences

CONSTANTS Wallets,
          Stake,     \* winning tokens of each wallet at first
          Slots,     \* bound on the reads in flight
          MaxMoves,  \* bound on what wallets do elsewhere
          MaxClicks, \* bound on clicks of the button and changes of wallet
          MaxFaults  \* bound on calls that fail

HoldingsAssumption ==
    /\ Stake \in Nat /\ Slots \subseteq Nat \ {0}
    /\ MaxMoves \in Nat /\ MaxClicks \in Nat /\ MaxFaults \in Nat

VARIABLES usdf, tokens, \* wallet -> balance
          had,      \* history: wallet -> the most it was ever worth
          txs,      \* the market page's transactions: [kind, of, status]
          wallet,   \* the wallet connected at the market page
          loads,    \* slot -> a read of balances on its way
          shown,    \* walletBalances, and whose they are
          redeem,   \* handleRedeem under way, hasRedeemedOnce and the message
          reported, \* history: wallets told that their redemption succeeded
          profile,  \* the profile page: its user, the read it awaits, its portfolio
          moves, clicks, faults

chain == <<usdf, tokens, had>>
page == <<wallet, shown, redeem, reported>>
vars == <<chain, txs, page, loads, profile, moves, clicks, faults>>

NoWallet == "none"
NoSlot == 0
Nothing == [of |-> NoWallet, usdf |-> 0, tokens |-> 0]
NoLoad == [at |-> "free", for |-> "market", of |-> NoWallet, usdf |-> 0, tokens |-> 0]

Init ==
    /\ usdf = [w \in Wallets |-> 0]
    /\ tokens = [w \in Wallets |-> Stake] /\ had = tokens
    /\ txs = <<>> /\ wallet = NoWallet
    /\ loads = [s \in Slots |-> NoLoad] /\ shown = Nothing
    /\ redeem = [at |-> "idle", kind |-> "redeem", of |-> NoWallet, tx |-> 0,
                 slot |-> NoSlot, once |-> FALSE, says |-> "nothing"]
    /\ reported = {}
    /\ profile = [user |-> NoWallet, ask |-> NoSlot, portfolio |-> Nothing]
    /\ moves = 0 /\ clicks = 0 /\ faults = 0

Fault == faults < MaxFaults /\ faults' = faults + 1
Click == clicks < MaxClicks /\ clicks' = clicks + 1

-----------------------------------------------------------------------------
(* The chain. *)

Worth(w) == usdf[w] + tokens[w]
Most(w) == [had EXCEPT ![w] = IF Worth(w)' > @ THEN Worth(w)' ELSE @]

\* redeemPositions burns what there is and pays for it.
Redeem(w) ==
    /\ usdf' = [usdf EXCEPT ![w] = @ + tokens[w]]
    /\ tokens' = [tokens EXCEPT ![w] = 0]
    /\ had' = Most(w)

\* Another tab of the wallet's, or somebody who pays it. Tokens move by
\* redemption alone: one that was bought or sent elsewhere between the two reads
\* would be counted beside what paid for it, and the pages promise nothing of it.
Elsewhere(w) ==
    /\ moves < MaxMoves /\ moves' = moves + 1
    /\ \/ Redeem(w)
       \/ /\ usdf' = [usdf EXCEPT ![w] = @ + 1] \/ (usdf[w] > 0 /\ usdf' = [usdf EXCEPT ![w] = @ - 1])
          /\ UNCHANGED tokens
          /\ had' = Most(w)
    /\ UNCHANGED <<txs, page, loads, profile, clicks, faults>>

Mined(i, status) == txs' = [txs EXCEPT ![i].status = status]

Mine(i) ==
    /\ txs[i].status = "pending"
    /\ \/ /\ Mined(i, "success")
          /\ IF txs[i].kind = "redeem" THEN Redeem(txs[i].of) ELSE UNCHANGED chain
          /\ UNCHANGED faults
       \/ Mined(i, "reverted") /\ Fault /\ UNCHANGED chain
    /\ UNCHANGED <<page, loads, profile, moves, clicks>>

-----------------------------------------------------------------------------
(* Reads of balances: loadWalletBalances and refreshBalances at the market's *)
(* page, buildPortfolioSnapshot behind the profile.  The API looks at no     *)
(* session: whoever asks, asks for an address.                               *)

Ask(s, for, w) ==
    /\ loads[s].at = "free"
    /\ loads' = [loads EXCEPT ![s] = [NoLoad EXCEPT !.at = "usdf", !.for = for, !.of = w]]

\* The USDF first, then the tokens of either outcome.
ReadUsdf(s) ==
    /\ loads[s].at = "usdf"
    /\ loads' = [loads EXCEPT ![s].at = "tokens", ![s].usdf = usdf[loads[s].of]]
    /\ UNCHANGED <<chain, txs, page, profile, moves, clicks, faults>>

\* A portfolio leaves out a market whose tokens cannot be read.
ReadTokens(s) ==
    /\ loads[s].at = "tokens"
    /\ \/ /\ loads' = [loads EXCEPT ![s].at = "read", ![s].tokens = tokens[loads[s].of]]
          /\ UNCHANGED faults
       \/ /\ loads[s].for = "profile" /\ Fault
          /\ loads' = [loads EXCEPT ![s].at = "read"]
    /\ UNCHANGED <<chain, txs, page, profile, moves, clicks>>

Free(s) == loads' = [loads EXCEPT ![s] = NoLoad]
Read(s) == [of |-> loads[s].of, usdf |-> loads[s].usdf, tokens |-> loads[s].tokens]

\* The redemption waits for its own read, however that ends.
Refreshed(s) == redeem' = IF redeem.at = "loading" /\ redeem.slot = s
                         THEN [redeem EXCEPT !.at = "idle", !.slot = NoSlot] ELSE redeem

\* Only the effect of the user there is by now takes its reply.
Cancelled(s) == s # profile.ask

Told(p) == profile' = [profile EXCEPT !.ask = NoSlot, !.portfolio = p]

\* The market page shows what was read for any wallet.
Arrives(s) ==
    /\ loads[s].at = "read" /\ Free(s)
    /\ IF loads[s].for = "market" THEN shown' = Read(s) /\ Refreshed(s) /\ UNCHANGED profile
       ELSE /\ IF Cancelled(s) THEN UNCHANGED profile ELSE Told(Read(s))
            /\ UNCHANGED <<shown, redeem>>
    /\ UNCHANGED <<chain, txs, wallet, reported, moves, clicks, faults>>

\* A read fails, or the API's answer is lost: what the market page showed
\* stays, the portfolio is cleared.
LoadFails(s) ==
    /\ loads[s].at \in {"usdf", IF loads[s].for = "market" THEN "tokens" ELSE "read"}
    /\ Fault /\ Free(s)
    /\ IF loads[s].for = "market" THEN Refreshed(s) /\ UNCHANGED profile
       ELSE /\ IF Cancelled(s) THEN UNCHANGED profile ELSE Told(Nothing)
            /\ UNCHANGED redeem
    /\ UNCHANGED <<chain, txs, wallet, shown, reported, moves, clicks>>

-----------------------------------------------------------------------------
(* The market's page. *)

\* The wallet connects, changes or leaves: hasRedeemedOnce, the message and
\* what is shown stay, and reads on their way are not called off.
Connect(w) ==
    /\ w # wallet /\ wallet' = w /\ Click
    /\ IF w = NoWallet THEN UNCHANGED loads ELSE \E s \in Slots : Ask(s, "market", w)
    /\ UNCHANGED <<chain, txs, shown, redeem, reported, profile, moves, faults>>

At(step) == redeem' = [redeem EXCEPT !.at = step]
Ends(says) == redeem' = [redeem EXCEPT !.at = "idle", !.says = says]

\* After a redemption the button sends a tip.
HandleRedeem ==
    /\ redeem.at = "idle" /\ wallet # NoWallet /\ Click
    /\ redeem' = [redeem EXCEPT !.kind = IF redeem.once THEN "tip" ELSE "redeem",
                                !.at = IF redeem.once THEN "funds" ELSE "sign",
                                !.of = wallet, !.tx = 0, !.says = "nothing"]
    /\ UNCHANGED <<chain, txs, wallet, loads, shown, reported, profile, moves, faults>>

\* getBalance and getGasPrice: enough for the tip and its gas, or an error.
CheckFunds ==
    /\ redeem.at = "funds" /\ (At("sign") \/ Ends("error"))
    /\ UNCHANGED <<chain, txs, wallet, loads, shown, reported, profile, moves, clicks, faults>>

Sign ==
    /\ redeem.at = "sign"
    /\ txs' = Append(txs, [kind |-> redeem.kind, of |-> redeem.of, status |-> "pending"])
    /\ redeem' = [redeem EXCEPT !.at = "receipt", !.tx = Len(txs')]
    /\ UNCHANGED <<chain, wallet, loads, shown, reported, profile, moves, clicks, faults>>

Refuse ==
    /\ redeem.at = "sign" /\ Ends("error")
    /\ UNCHANGED <<chain, txs, wallet, loads, shown, reported, profile, moves, clicks, faults>>

Receipt(status) == redeem.at = "receipt" /\ txs[redeem.tx].status = status

\* waitForSuccess.
Redeemed ==
    /\ redeem.kind = "redeem" /\ Receipt("success")
    /\ redeem' = [redeem EXCEPT !.at = "reserves", !.says = "success", !.once = TRUE]
    /\ reported' = reported \union {redeem.of}
    /\ UNCHANGED <<chain, txs, wallet, loads, shown, profile, moves, clicks, faults>>

Tipped ==
    /\ redeem.kind = "tip" /\ Receipt("success")
    /\ redeem' = [redeem EXCEPT !.at = "load", !.says = "success"]
    /\ UNCHANGED <<chain, txs, wallet, loads, shown, reported, profile, moves, clicks, faults>>

NotRedeemed ==
    /\ Receipt("reverted") /\ Ends("error")
    /\ UNCHANGED <<chain, txs, wallet, loads, shown, reported, profile, moves, clicks, faults>>

\* A wait that fails although the transaction is on its way.
ReceiptLost ==
    /\ redeem.at = "receipt" /\ Ends("error") /\ Fault
    /\ UNCHANGED <<chain, txs, wallet, loads, shown, reported, profile, moves, clicks>>

\* fetchPoolReserves: six reads, of which none that fails is told.
ReadReserves ==
    /\ redeem.at = "reserves" /\ At("load")
    /\ UNCHANGED <<chain, txs, wallet, loads, shown, reported, profile, moves, clicks, faults>>

\* The balances of the wallet that clicked.
Reload(s) ==
    /\ redeem.at = "load" /\ Ask(s, "market", redeem.of)
    /\ redeem' = [redeem EXCEPT !.at = "loading", !.slot = s]
    /\ UNCHANGED <<chain, txs, wallet, shown, reported, profile, moves, clicks, faults>>

-----------------------------------------------------------------------------
(* The profile page: an effect for each user. *)

SignIn(w) ==
    /\ w # profile.user /\ Click
    /\ \E s \in Slots :
         /\ Ask(s, "profile", w)
         /\ profile' = [profile EXCEPT !.user = w, !.ask = s]
    /\ UNCHANGED <<chain, txs, page, moves, faults>>

SignOut ==
    /\ profile.user # NoWallet /\ Click
    /\ profile' = [user |-> NoWallet, ask |-> NoSlot, portfolio |-> Nothing]
    /\ UNCHANGED <<chain, txs, page, loads, moves, faults>>

Loading == \E s \in Slots : ReadUsdf(s) \/ ReadTokens(s) \/ Arrives(s) \/ LoadFails(s)
Redeeming == \/ HandleRedeem \/ CheckFunds \/ Sign \/ Refuse \/ Redeemed \/ Tipped \/ NotRedeemed
             \/ ReceiptLost \/ ReadReserves \/ \E s \in Slots : Reload(s)
Visiting == SignOut \/ Connect(NoWallet) \/ \E w \in Wallets : SignIn(w) \/ Connect(w)
Chain == (\E i \in DOMAIN txs : Mine(i)) \/ \E w \in Wallets : Elsewhere(w)
Next == Loading \/ Redeeming \/ Visiting \/ Chain

Spec == Init /\ [][Next]_vars

-----------------------------------------------------------------------------
(* Properties. *)

(* Balances are read one after the other while tokens are redeemed into      *)
(* USDF: neither page shows a holding twice, a total that the wallet it      *)
(* belongs to never had.                                                     *)
CountedOnce(p) == p.of # NoWallet => p.usdf + p.tokens <= had[p.of]

(* A wallet that was told of its redemption has no token left; and nobody    *)
(* was asked for a tip before the page reported a redemption, though it need *)
(* not have been of the same wallet.                                         *)
RedeemTrue ==
    /\ \A w \in reported : tokens[w] = 0
    /\ reported = {} => \A i \in DOMAIN txs : txs[i].kind # "tip"

(* Whoever signed in and out while replies were on their way: a profile that *)
(* awaits none shows the portfolio of its user.                              *)
ProfileOwn == profile.ask = NoSlot => profile.portfolio.of \in {NoWallet, profile.user}

HoldingsTrue == CountedOnce(shown) /\ CountedOnce(profile.portfolio) /\ RedeemTrue /\ ProfileOwn
=============================================================================
