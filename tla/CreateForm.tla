----------------------------- MODULE CreateForm -----------------------------
(* The form that creates a market (components/CreateMarketForm.tsx) and what  *)
(* it calls: the upload of a picture, POST /markets, and then, if the visitor *)
(* gave an amount, two transactions of the visitor's wallet to the new pool.  *)
(* Typing stays possible meanwhile; a dialog that is closed goes on, and the  *)
(* next one shares the wallet with it.  The pool's own seed is the API's (see *)
(* MarketCreation); here a pool is what the visitor paid into it.             *)
EXTENDS Integers, Sequences

CONSTANTS Forms,      \* dialogs
          Funds,      \* the wallet's USDF at first
          Amounts,    \* that a visitor types
          MaxMarkets, \* markets created
          MaxTyped,   \* changes of the inputs
          MaxFaults   \* calls that fail, prompts refused, payments elsewhere

FormAssumption ==
    /\ Funds \in Nat /\ Amounts \subseteq Nat
    /\ MaxMarkets \in Nat /\ MaxTyped \in Nat /\ MaxFaults \in Nat

VARIABLES form,    \* per dialog: the inputs, the flags and the message
          call,    \* per dialog: the submission under way
          seen,    \* the wallet's balance as last read by the page
          wallet,  \* its USDF
          pools,   \* the visitor's markets: allowance and what was paid in
          sent,    \* the wallet's transactions still to be mined, in order
          count,   \* how many were mined
          told,    \* history: per market what its form ended with
          excused, \* history: markets with a reverted transaction or a receipt given up
          typed, faults

vars == <<form, call, seen, wallet, pools, sent, count, told, excused, typed, faults>>
chain == <<wallet, pools, sent, count>>
bounds == <<typed, faults>>

Closed == [open |-> FALSE, amount |-> 0, file |-> FALSE, says |-> "nothing",
           uploading |-> FALSE, pending |-> FALSE, funding |-> FALSE]
Idle == [at |-> "idle", amount |-> 0, pool |-> 0, tx |-> 0]

Init ==
    /\ form = [f \in Forms |-> Closed]
    /\ call = [f \in Forms |-> Idle]
    /\ seen = Funds /\ wallet = Funds
    /\ pools = <<>> /\ sent = <<>> /\ count = 0
    /\ told = <<>> /\ excused = {} /\ typed = 0 /\ faults = 0

Fault == faults < MaxFaults /\ faults' = faults + 1
Typing == typed < MaxTyped /\ typed' = typed + 1

-----------------------------------------------------------------------------
(* The visitor. *)

Open(f) ==
    /\ ~form[f].open /\ call[f] = Idle
    /\ form' = [form EXCEPT ![f] = [Closed EXCEPT !.open = TRUE]]
    /\ UNCHANGED <<call, seen, chain, told, excused, bounds>>

\* What was submitted goes on.
Close(f) ==
    /\ form[f].open /\ Typing
    /\ form' = [form EXCEPT ![f] = Closed]
    /\ UNCHANGED <<call, seen, chain, told, excused, faults>>

\* The message goes, and the label of the button; not what locks it.
resetStatus(f) == [form[f] EXCEPT !.says = "nothing"]

\* The inputs are not locked during a submission.
Type(f) ==
    /\ form[f].open /\ Typing
    /\ \/ \E a \in Amounts : form' = [form EXCEPT ![f] = [resetStatus(f) EXCEPT !.amount = a]]
       \/ form' = [form EXCEPT ![f] = [resetStatus(f) EXCEPT !.file = ~@]]
    /\ UNCHANGED <<call, seen, chain, told, excused, faults>>

ReadBalance ==
    /\ seen # wallet /\ seen' = wallet
    /\ UNCHANGED <<form, call, chain, told, excused, bounds>>

Locked(f) == form[f].uploading \/ form[f].pending \/ form[f].funding

\* The amount is what the input holds now.
Submit(f) ==
    /\ form[f].open /\ ~Locked(f) /\ form[f].amount <= seen
    /\ Len(pools) < MaxMarkets
    /\ LET next == IF form[f].file THEN "upload" ELSE "create" IN
       /\ call' = [call EXCEPT ![f] = [Idle EXCEPT !.at = next, !.amount = form[f].amount]]
       /\ form' = [form EXCEPT ![f] = [resetStatus(f) EXCEPT !.uploading = (next = "upload"),
                                                             !.pending = (next = "create")]]
    /\ UNCHANGED <<seen, chain, told, excused, bounds>>

-----------------------------------------------------------------------------
(* The submission. *)

\* A dialog that was closed shows nothing.
Shows(f, new) == form' = [form EXCEPT ![f] = IF @.open THEN new ELSE @]
Unlocked(f) == [form[f] EXCEPT !.uploading = FALSE, !.pending = FALSE, !.funding = FALSE]

\* It ends with an error; what was typed stays.
Ends(f) ==
    /\ call' = [call EXCEPT ![f] = Idle]
    /\ Shows(f, [Unlocked(f) EXCEPT !.says = "error"])
    /\ told' = IF call[f].pool = 0 THEN told ELSE [told EXCEPT ![call[f].pool] = "failed"]

\* It ends well; the inputs are emptied, whatever was typed since.
Succeeds(f, message) ==
    /\ call' = [call EXCEPT ![f] = Idle]
    /\ Shows(f, [Unlocked(f) EXCEPT !.says = message, !.amount = 0, !.file = FALSE])
    /\ told' = [told EXCEPT ![call[f].pool] = message]

Upload(f) ==
    /\ call[f].at = "upload"
    /\ \/ /\ call' = [call EXCEPT ![f].at = "create"]
          /\ Shows(f, [form[f] EXCEPT !.uploading = FALSE, !.pending = TRUE])
          /\ UNCHANGED <<told, faults>>
       \/ Ends(f) /\ Fault
    /\ UNCHANGED <<seen, chain, excused, typed>>

\* The API answers when the pool is seeded.  A failure, or a lost answer, may
\* leave a market that this form never hears of.
CreateMarket(f) ==
    /\ call[f].at = "create"
    /\ \/ /\ Len(pools) < MaxMarkets
          /\ pools' = Append(pools, [asked |-> call[f].amount, allowance |-> 0, paid |-> 0])
          /\ told' = Append(told, "nothing")
          /\ call' = [call EXCEPT ![f].at = "created", ![f].pool = Len(pools')]
          /\ UNCHANGED <<form, faults>>
       \/ Ends(f) /\ Fault /\ UNCHANGED pools
    /\ UNCHANGED <<seen, wallet, sent, count, excused, typed>>

\* The wallet is asked only if an amount was given.
Created(f) ==
    /\ call[f].at = "created"
    /\ IF call[f].amount > 0
       THEN /\ call' = [call EXCEPT ![f].at = "approve"]
            /\ Shows(f, [form[f] EXCEPT !.pending = FALSE, !.funding = TRUE])
            /\ UNCHANGED told
       ELSE Succeeds(f, "created")
    /\ UNCHANGED <<seen, chain, excused, bounds>>

NextTx == count + Len(sent) + 1

\* The visitor confirms a transaction of the amount submitted.
Confirm(f, from, to, amount) ==
    /\ call[f].at = from
    /\ sent' = Append(sent, [kind |-> from, pool |-> call[f].pool, amount |-> amount])
    /\ call' = [call EXCEPT ![f].at = to, ![f].tx = NextTx]
    /\ UNCHANGED <<form, seen, wallet, pools, count, told, excused, bounds>>

\* Mutant of Amount: the amount is what the input holds by then.
InputAmount(f) == form[f].amount
Amount(f) == call[f].amount

Approve(f) == Confirm(f, "approve", "approving", Amount(f))
AddFunding(f) == Confirm(f, "fund", "funding", Amount(f))

Receipt(f, at) == call[f].at = at /\ call[f].tx <= count

Approved(f) ==
    /\ Receipt(f, "approving")
    /\ call' = [call EXCEPT ![f].at = "fund"]
    /\ UNCHANGED <<form, seen, chain, told, excused, bounds>>

\* The receipt is awaited; its status is not read.
Funded(f) ==
    /\ Receipt(f, "funding")
    /\ Succeeds(f, "funded")
    /\ UNCHANGED <<seen, chain, excused, bounds>>

\* The prompt is refused or the call fails before anything is sent.
Refused(f) ==
    /\ call[f].at \in {"approve", "fund"}
    /\ Ends(f) /\ Fault
    /\ UNCHANGED <<seen, chain, excused, typed>>

\* The wait for a receipt ends first.
GivesUp(f) ==
    /\ call[f].at \in {"approving", "funding"}
    /\ Ends(f) /\ Fault
    /\ excused' = excused \cup {call[f].pool}
    /\ UNCHANGED <<seen, chain, typed>>

-----------------------------------------------------------------------------
(* The chain. *)

Pays(t) == pools[t.pool].allowance >= t.amount /\ wallet >= t.amount

Mine ==
    /\ sent # <<>> /\ sent' = Tail(sent) /\ count' = count + 1
    /\ LET t == Head(sent) IN
       \/ /\ t.kind = "approve"
          /\ pools' = [pools EXCEPT ![t.pool].allowance = t.amount]
          /\ UNCHANGED <<wallet, excused>>
       \/ /\ t.kind = "fund" /\ Pays(t)
          /\ pools' = [pools EXCEPT ![t.pool].allowance = @ - t.amount, ![t.pool].paid = @ + t.amount]
          /\ wallet' = wallet - t.amount
          /\ UNCHANGED excused
       \/ /\ t.kind = "fund" /\ ~Pays(t)
          /\ excused' = excused \cup {t.pool}
          /\ UNCHANGED <<wallet, pools>>
    /\ UNCHANGED <<form, call, seen, told, bounds>>

SpentElsewhere ==
    /\ wallet > 0 /\ Fault /\ wallet' = wallet - 1
    /\ UNCHANGED <<form, call, seen, pools, sent, count, told, excused, typed>>

Dialog(f) ==
    \/ Open(f) \/ Close(f) \/ Type(f) \/ Submit(f)
    \/ Upload(f) \/ CreateMarket(f) \/ Created(f)
    \/ Approve(f) \/ Approved(f) \/ AddFunding(f) \/ Funded(f) \/ Refused(f) \/ GivesUp(f)

Next == (\E f \in Forms : Dialog(f)) \/ ReadBalance \/ Mine \/ SpentElsewhere

Spec == Init /\ [][Next]_vars

-----------------------------------------------------------------------------
(* Properties. *)

(* What a dialog ends with is what happened to its market: paid exactly the   *)
(* amount submitted if it says funded, and otherwise nothing, now or later,   *)
(* however much was typed, closed, opened or spent in between.  Exempt is a   *)
(* payment that reverted, whose status the form does not read, and one whose  *)
(* receipt it gave up on, which may be mined all the same.                    *)
SaysWhatWasPaid ==
    \A p \in DOMAIN pools : p \notin excused =>
        /\ told[p] = "funded" => pools[p].paid = pools[p].asked
        /\ told[p] \in {"created", "failed"} =>
               /\ pools[p].paid = 0
               /\ \A i \in DOMAIN sent : sent[i].pool = p => sent[i].kind # "fund"

(* A dialog that is open can be submitted again exactly when its submission   *)
(* is over: no typing unlocks it early, no ending leaves it locked.           *)
LockedWhileBusy == \A f \in Forms : form[f].open => (Locked(f) <=> call[f] # Idle)

FormTrue == SaysWhatWasPaid /\ LockedWhileBusy
=============================================================================
