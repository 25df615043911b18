------------------------------- MODULE Vending -------------------------------
(***************************************************************************)
(* USDF and the page that swaps it.  The contract mints USDF for USDT and   *)
(* burns it for USDT less a fee (contracts-hardhat/contracts/               *)
(* USDF_Mainnet.sol); the swap page (frontend/src/app/swap/page.tsx) sends  *)
(* an approval and a buy, or a sell, for a user who may edit the form,      *)
(* reverse it and swap again while transactions are on their way.           *)
(* A mined transaction is one step, a require that fails reverts it.        *)
(***************************************************************************)
EXTENDS Integers

CONSTANTS Endowment,   \* USDT the user starts with
          Amounts,     \* amounts typed into the form
          FlatFee,     \* 2 USDT
          Threshold,   \* 100 USDT, above which the fee is a percentage
          FeeDivisor,  \* 50: two percent
          Cent,        \* the amounts shown for a purchase are whole cents
          OwnerAmount, \* what the owner mints or rescues at a time
          MaxOwner,    \* bound on the owner's calls and on gifts
          MaxTx        \* bound on the transactions the page sends

VendingAssumption ==
    /\ Endowment \in Nat /\ Amounts \subseteq Nat
    /\ FlatFee \in Nat /\ Threshold \in Nat /\ FeeDivisor \in Nat \ {0}
    /\ Cent \in Nat \ {0} /\ OwnerAmount \in Nat /\ MaxOwner \in Nat /\ MaxTx \in Nat

VARIABLES usdt,    \* user, machine and owner -> USDT
          usdf,    \* the user's USDF
          others,  \* USDF in other hands
          spend,   \* USDT allowance of the machine
          minted, rescued, \* by the owner so far
          calls,   \* calls of the owner and gifts so far
          txs,     \* sequence number -> [kind, amount, status]
          sent,    \* transactions sent
          form,    \* swapDirection, fromAmount, isSwapping, swapStep,
                   \* txHash, txDirection and the balances last read
          call,    \* handleSwap in flight: where it waits, and what it captured
          timers,  \* three-second resets that are scheduled
          dropped  \* history: a hash still awaited was cleared from the form

money == <<usdt, usdf, others, spend, minted, rescued, calls>>
page == <<form, call, timers, dropped>>
vars == <<money, txs, sent, page>>

NoHash == 0
Reverse(dir) == IF dir = "buy" THEN "sell" ELSE "buy"
NoCall == [at |-> "none", dir |-> "buy", amount |-> 0, tx |-> NoHash]

Init ==
    /\ usdt = [a \in {"user", "machine", "owner"} |-> IF a = "user" THEN Endowment ELSE 0]
    /\ usdf = 0 /\ others = 0 /\ spend = 0 /\ minted = 0 /\ rescued = 0 /\ calls = 0
    /\ txs = [i \in 1..MaxTx |-> [kind |-> "none", amount |-> 0, status |-> "unsent"]]
    /\ sent = 0
    /\ form = [dir |-> "buy", from |-> 0, swapping |-> FALSE, step |-> "idle",
               hash |-> NoHash, txDir |-> "buy", usdt |-> Endowment, usdf |-> 0]
    /\ call = NoCall /\ timers = 0 /\ dropped = FALSE

-----------------------------------------------------------------------------
(* The contract. *)

SellFee(out) == IF out > Threshold THEN out \div FeeDivisor ELSE FlatFee

ApproveTx(n) == spend' = n /\ UNCHANGED <<usdt, usdf>>

MayBuy(n) == n > 0 /\ spend >= n /\ usdt["user"] >= n
BuyTx(n) ==
    /\ usdt' = [usdt EXCEPT !["user"] = @ - n, !["machine"] = @ + n]
    /\ spend' = spend - n
    /\ usdf' = usdf + n

MaySell(n) == n > SellFee(n) /\ usdf >= n /\ usdt["machine"] >= n

\* Mutant of SellTx: the fee is paid on top of what was sold.
SellTxPaysFee(n) ==
    /\ usdt' = [usdt EXCEPT !["machine"] = @ - n - SellFee(n), !["user"] = @ + n,
                            !["owner"] = @ + SellFee(n)]
    /\ usdf' = usdf - n
    /\ UNCHANGED spend

SellTx(n) ==
    /\ usdt' = [usdt EXCEPT !["machine"] = @ - n, !["user"] = @ + (n - SellFee(n)),
                            !["owner"] = @ + SellFee(n)]
    /\ usdf' = usdf - n
    /\ UNCHANGED spend

Succeeds(t) == CASE t.kind = "approve" -> TRUE
                 [] t.kind = "buy" -> MayBuy(t.amount)
                 [] OTHER -> MaySell(t.amount)

Mine(i) ==
    /\ txs[i].status = "pending"
    /\ txs' = [txs EXCEPT ![i].status = IF Succeeds(txs[i]) THEN "success" ELSE "reverted"]
    /\ IF Succeeds(txs[i])
       THEN CASE txs[i].kind = "approve" -> ApproveTx(txs[i].amount)
              [] txs[i].kind = "buy" -> BuyTx(txs[i].amount)
              [] OTHER -> SellTx(txs[i].amount)
       ELSE UNCHANGED <<usdt, usdf, spend>>
    /\ UNCHANGED <<others, minted, rescued, calls, sent, page>>

\* mint, onlyOwner: the seeding of pools.
OwnerMint ==
    /\ calls < MaxOwner /\ calls' = calls + 1
    /\ minted' = minted + OwnerAmount /\ others' = others + OwnerAmount
    /\ UNCHANGED <<usdt, usdf, spend, rescued, txs, sent, page>>

\* rescueUSDT, and rescueToken with the USDT's address.
Rescue ==
    /\ calls < MaxOwner /\ calls' = calls + 1
    /\ usdt["machine"] >= OwnerAmount
    /\ usdt' = [usdt EXCEPT !["machine"] = @ - OwnerAmount, !["owner"] = @ + OwnerAmount]
    /\ rescued' = rescued + OwnerAmount
    /\ UNCHANGED <<usdf, others, spend, minted, txs, sent, page>>

\* USDT that somebody sends to the machine without buying, as the comment of
\* rescueToken expects.
Gift ==
    /\ calls < MaxOwner /\ calls' = calls + 1
    /\ usdt' = [usdt EXCEPT !["machine"] = @ + OwnerAmount]
    /\ UNCHANGED <<usdf, others, spend, minted, rescued, txs, sent, page>>

\* Another holder, whom the owner's mint or a market paid, sells.
OtherSells ==
    \E n \in 1..others :
        /\ n > SellFee(n) /\ usdt["machine"] >= n
        /\ usdt' = [usdt EXCEPT !["machine"] = @ - n, !["owner"] = @ + SellFee(n)]
        /\ others' = others - n
        /\ UNCHANGED <<usdf, spend, minted, rescued, calls, txs, sent, page>>

-----------------------------------------------------------------------------
(* The page.  The balances it compares are the ones it last read. *)

chain == <<money, txs, sent>>

\* convertAmount: what the page says arrives, whatever the fee: the amount
\* itself, of a purchase to two decimals (of a sale to four, all of them here).
ToAmount(n, dir) == IF dir = "buy" THEN ((n + Cent \div 2) \div Cent) * Cent ELSE n

\* handleAmountChange and handleMaxClick.
Type(n) ==
    /\ form' = [form EXCEPT !.from = n]
    /\ UNCHANGED <<chain, call, timers, dropped>>

Balance == IF form.dir = "buy" THEN form.usdt ELSE form.usdf
MaxAmount == Type(Balance)

Awaited == form.swapping /\ form.hash # NoHash

\* handleDirectionToggle is not disabled while a swap is under way: it clears
\* the hash and the step, and leaves isSwapping.
Toggle ==
    /\ form' = [form EXCEPT !.dir = Reverse(@), !.step = "idle", !.hash = NoHash,
                            !.from = ToAmount(@, form.dir)]
    /\ dropped' = (dropped \/ Awaited)
    /\ UNCHANGED <<chain, call, timers>>

\* The click; a balance that is too small ends the call at once.
HandleSwap ==
    /\ form.from > 0 /\ ~form.swapping
    /\ LET enough == form.from <= Balance
       IN  /\ form' = [form EXCEPT !.swapping = enough, !.hash = NoHash, !.txDir = form.dir,
                                   !.step = IF enough THEN "submitting" ELSE "idle"]
           /\ call' = IF enough THEN [at |-> IF form.dir = "buy" THEN "approve" ELSE "swap",
                                      dir |-> form.dir, amount |-> form.from, tx |-> NoHash]
                      ELSE NoCall
    /\ UNCHANGED <<chain, timers, dropped>>

\* The wallet signs and sends what the call asks for.
Sign(kind) ==
    /\ sent < MaxTx /\ sent' = sent + 1
    /\ txs' = [txs EXCEPT ![sent'] = [kind |-> kind, amount |-> call.amount, status |-> "pending"]]
    /\ UNCHANGED money

SignApproval ==
    /\ call.at = "approve" /\ Sign("approve")
    /\ call' = [call EXCEPT !.at = "receipt", !.tx = sent']
    /\ UNCHANGED <<form, timers, dropped>>

ApprovalMined ==
    /\ call.at = "receipt" /\ txs[call.tx].status # "pending"
    /\ call' = [call EXCEPT !.at = "swap"]
    /\ UNCHANGED <<chain, form, timers, dropped>>

SignSwap ==
    /\ call.at = "swap" /\ Sign(call.dir)
    /\ form' = [form EXCEPT !.step = "confirming", !.hash = sent']
    /\ call' = NoCall
    /\ UNCHANGED <<timers, dropped>>

\* Mutant of Unlock: the spinner is left running.
StayLocked(f) == [f EXCEPT !.step = "idle"]

Unlock(f) == [f EXCEPT !.step = "idle", !.swapping = FALSE]

\* The wallet refuses, or the wait for the approval's receipt fails.
SwapFails ==
    /\ call.at # "none"
    /\ form' = Unlock(form)
    /\ call' = NoCall
    /\ UNCHANGED <<chain, timers, dropped>>

Receipt(status) == form.hash # NoHash /\ form.step = "confirming"
                       /\ txs[form.hash].status = status

\* The effect on a receipt: the balances are read again and the form is
\* cleared three seconds later.
Succeeded ==
    /\ Receipt("success")
    /\ form' = [form EXCEPT !.step = "complete", !.swapping = FALSE]
    /\ timers' = timers + 1
    /\ UNCHANGED <<chain, call, dropped>>

Failed ==
    /\ Receipt("reverted")
    /\ form' = [Unlock(form) EXCEPT !.hash = NoHash]
    /\ UNCHANGED <<chain, call, timers, dropped>>

\* The wait for the swap's receipt fails, wherever the transaction is.
ReceiptLost ==
    /\ form.hash # NoHash /\ form.step = "confirming"
    /\ form' = [Unlock(form) EXCEPT !.hash = NoHash]
    /\ UNCHANGED <<chain, call, timers, dropped>>

\* The reset does not look at what the form has become.
ResetFires ==
    /\ timers > 0 /\ timers' = timers - 1
    /\ form' = [form EXCEPT !.from = 0, !.step = "idle", !.hash = NoHash]
    /\ dropped' = (dropped \/ Awaited)
    /\ UNCHANGED <<chain, call>>

Refetch ==
    /\ form' = [form EXCEPT !.usdt = usdt["user"], !.usdf = usdf]
    /\ UNCHANGED <<chain, call, timers, dropped>>

Wallet == SignApproval \/ SignSwap
Page == ApprovalMined \/ Succeeded \/ Failed \/ ResetFires
User == (\E n \in Amounts : Type(n)) \/ MaxAmount \/ Toggle \/ HandleSwap
Mined == \E i \in 1..sent : Mine(i)
Next == Wallet \/ Page \/ User \/ Mined \/ SwapFails \/ ReceiptLost
            \/ Refetch \/ OwnerMint \/ Rescue \/ Gift \/ OtherSells

Spec == Init /\ [][Next]_vars

\* The wallet answers (it signs or refuses), transactions are mined, effects
\* and timers run; nobody has to click.
Fairness == WF_vars(Wallet \/ SwapFails) /\ WF_vars(Page) /\ WF_vars(Mined)

FairSpec == Spec /\ Fairness

-----------------------------------------------------------------------------
(* Properties. *)

\* What the machine would lack if every holder sold at once.
Short == usdf + others - usdt["machine"]

(* No purchase, sale or fee, of the page's user or of another holder, adds   *)
(* to what the machine lacks: it is never more than what the owner minted    *)
(* without payment and took out.  With neither every holder can be paid in   *)
(* full.  The page's user can be as long as nothing was taken out and the    *)
(* others still hold as much as was minted.  Once minted USDF has been sold  *)
(* nothing protects those who paid for theirs.                               *)
Backed ==
    /\ Short <= minted + rescued
    /\ rescued = 0 /\ others >= minted => usdf <= usdt["machine"]

(* The success panel is only shown over a transaction that succeeded, of     *)
(* the direction the panel names, also when the form was reversed, reset and *)
(* used again while transactions were under way.                             *)
PanelTrue ==
    form.step = "complete" => /\ txs[form.hash].status = "success"
                              /\ txs[form.hash].kind = form.txDir

(* A swap that was started unlocks the form again, however the wallet, the   *)
(* chain or the approval fail.  Exempt is a hash that was cleared while it   *)
(* was awaited, by the reverse button or by the reset of the swap before:    *)
(* the form then stays locked.                                               *)
FormUnlocks == form.swapping ~> (~form.swapping \/ dropped)
=============================================================================
