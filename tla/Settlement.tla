------------------------------ MODULE Settlement ------------------------------
(***************************************************************************)
(* Resolving a market and redeeming it through the API: concurrent         *)
(* requests to POST /api/admin/markets/:id/resolve (routes/admin.ts), POST *)
(* /api/admin/resolve (routes/admin-resolve.ts) and POST /api/redeem       *)
(* (routes/redeem.ts), the market's row in Postgres, the deployer's        *)
(* transactions and the condition on chain.                                *)
(*                                                                         *)
(* A handler interleaves with the others at every await.  The deployer's   *)
(* transactions are mined in the order they were sent.  What the adapter,  *)
(* the oracle and the token contract do with one is taken from modules     *)
(* Oracle and ConditionalTokens; the deployer keeps its roles, so a        *)
(* resolution reverts exactly when the condition has its result.           *)
(***************************************************************************)
EXTENDS Integers, Sequences

CONSTANTS Requests,    \* concurrent requests
          Routes,      \* the routes used: "markets", "admin"
          Payouts,     \* vectors an admin chooses: [1,0], [0,1] or [1,1]
          Holding,     \* tokens of each outcome each owner starts with
          MaxRedeems,  \* bound on redeem requests
          MaxNukes,    \* bound on nuke and restore calls
          MaxFaults    \* bound on timeouts, failed writes and restarts

Outcomes == {"YES", "NO"}  \* 0 and 1
Owners == {"deployer", "user"}

\* The outcomes a vector pays for.
Paid(v) == CASE v = "yes" -> {"YES"} [] v = "no" -> {"NO"} [] OTHER -> Outcomes

ASSUME SettlementAssumption ==
    /\ Routes \subseteq {"markets", "admin"}
    /\ Payouts \subseteq {"yes", "no", "split"}
    /\ Holding \in Nat /\ MaxRedeems \in Nat /\ MaxNukes \in Nat /\ MaxFaults \in Nat

VARIABLES result,  \* payoutNumerators on chain, or "open"
          tokens,  \* owner -> outcome -> balance
          sent,    \* the deployer's transactions, in order
          mined,   \* how many of them are mined
          row,     \* the market's row: status and resolutionData
          req,     \* each request in progress
          left,    \* what the environment may still do
          serial   \* history: one request at a time so far, and no fault

work == <<result, tokens, sent, mined, row, req, left>>
vars == <<result, tokens, sent, mined, row, req, left, serial>>

NoData == [payouts |-> "none", outcome |-> "none"]
Idle == [pc |-> "idle", route |-> "none", arg |-> "none", tx |-> 0]

Init ==
    /\ result = "open"
    /\ tokens = [w \in Owners |-> [o \in Outcomes |-> Holding]]
    /\ sent = <<>> /\ mined = 0
    /\ row = [status |-> "active", data |-> NoData]
    /\ req = [r \in Requests |-> Idle]
    /\ left = [redeems |-> MaxRedeems, nukes |-> MaxNukes, faults |-> MaxFaults]
    /\ serial = TRUE

Spend(what) == left[what] > 0 /\ left' = [left EXCEPT ![what] = @ - 1]
Goto(r, pc) == req' = [req EXCEPT ![r].pc = pc]
Answer(r) == req' = [req EXCEPT ![r] = Idle]

-----------------------------------------------------------------------------
(* Resolve. *)

\* Only the markets route looks at the status; the admin route takes YES or NO.
Resolve(r, route, v) ==
    /\ req[r] = Idle
    /\ route = "markets" => row.status = "active"
    /\ route = "admin" => v # "split"
    /\ req' = [req EXCEPT ![r] = [pc |-> "simulate", route |-> route, arg |-> v, tx |-> 0]]
    /\ UNCHANGED <<result, tokens, sent, mined, row, left>>

\* Mutant of Simulate: the request is not simulated.
SkipSimulation(r) ==
    /\ req[r].pc = "simulate"
    /\ Goto(r, "send")
    /\ UNCHANGED <<result, tokens, sent, mined, row, left>>

\* simulateContract throws when requestResolve would revert.
Simulate(r) ==
    /\ req[r].pc = "simulate"
    /\ IF result = "open" THEN Goto(r, "send") ELSE Answer(r)
    /\ UNCHANGED <<result, tokens, sent, mined, row, left>>

Send(r) ==
    /\ req[r].pc = "send"
    /\ sent' = Append(sent, [route |-> req[r].route, arg |-> req[r].arg])
    /\ req' = [req EXCEPT ![r].pc = "wait", ![r].tx = Len(sent) + 1]
    /\ UNCHANGED <<result, tokens, mined, row, left>>

\* Mutant of Write: the receipt is not awaited.
WriteEarly(r) ==
    /\ req[r].pc = "wait" /\ req[r].route \in {"markets", "admin"}
    /\ row' = [status |-> "resolved",
               data   |-> [payouts |-> req[r].arg,
                           outcome |-> IF req[r].route = "markets" THEN "none"
                                       ELSE IF req[r].arg = "yes" THEN "YES" ELSE "NO"]]
    /\ Answer(r)
    /\ UNCHANGED <<result, tokens, sent, mined, left>>

\* Mutant of Write: the resolution is stored, the status is not.
WriteData(r) ==
    /\ req[r].pc = "wait" /\ req[r].route \in {"markets", "admin"}
    /\ req[r].tx <= mined
    /\ row' = [row EXCEPT !.data.payouts = req[r].arg]
    /\ Answer(r)
    /\ UNCHANGED <<result, tokens, sent, mined, left>>

\* The receipt is awaited and its status ignored.  Only the admin route
\* stores an outcome next to the vector.
Write(r) ==
    /\ req[r].pc = "wait" /\ req[r].route \in {"markets", "admin"}
    /\ req[r].tx <= mined
    /\ row' = [status |-> "resolved",
               data   |-> [payouts |-> req[r].arg,
                           outcome |-> IF req[r].route = "markets" THEN "none"
                                       ELSE IF req[r].arg = "yes" THEN "YES" ELSE "NO"]]
    /\ Answer(r)
    /\ UNCHANGED <<result, tokens, sent, mined, left>>

-----------------------------------------------------------------------------
(* Redeem. *)

\* resolutionData?.outcome || 0
Winning == IF row.data.outcome = "none" THEN "YES" ELSE row.data.outcome

\* The owner's balance is checked; the deployer's tokens will be redeemed.
Redeem(r, w) ==
    /\ req[r] = Idle /\ Spend("redeems")
    /\ row.status = "resolved"
    /\ IF tokens[w][Winning] > 0
       THEN req' = [req EXCEPT ![r] = [pc |-> "send", route |-> "redeem",
                                       arg |-> Winning, tx |-> 0]]
       ELSE Answer(r)
    /\ UNCHANGED <<result, tokens, sent, mined, row>>

Redeemed(r) ==
    /\ req[r].pc = "wait" /\ req[r].route = "redeem"
    /\ req[r].tx <= mined
    /\ Answer(r)
    /\ UNCHANGED <<result, tokens, sent, mined, row, left>>

-----------------------------------------------------------------------------
(* The chain. *)

\* A resolution after the first, and a redemption before it, revert.
Mine ==
    /\ mined < Len(sent)
    /\ mined' = mined + 1
    /\ LET t == sent[mined + 1]
       IN  IF t.route = "redeem"
           THEN /\ tokens' = IF result = "open" THEN tokens
                             ELSE [tokens EXCEPT !["deployer"][t.arg] = 0]
                /\ UNCHANGED result
           ELSE /\ result' = IF result = "open" THEN t.arg ELSE result
                /\ UNCHANGED tokens
    /\ UNCHANGED <<sent, row, req, left>>

-----------------------------------------------------------------------------
(* Other admin calls and faults. *)

Nuke ==
    /\ Spend("nukes")
    /\ row' = [row EXCEPT !.status = "deleted"]
    /\ UNCHANGED <<result, tokens, sent, mined, req>>

\* Back to active, resolved or not.
Restore ==
    /\ Spend("nukes")
    /\ row' = [row EXCEPT !.status = "active"]
    /\ UNCHANGED <<result, tokens, sent, mined, req>>

\* A call throws, the receipt times out or the database write fails: the
\* request answers with an error, its transaction stays where it is.
Fail(r) ==
    /\ req[r] # Idle /\ Spend("faults")
    /\ Answer(r)
    /\ UNCHANGED <<result, tokens, sent, mined, row>>

Crash ==
    /\ Spend("faults")
    /\ \E r \in Requests : req[r] # Idle
    /\ req' = [r \in Requests |-> Idle]
    /\ UNCHANGED <<result, tokens, sent, mined, row>>

Progress(r) == Simulate(r) \/ Send(r) \/ Write(r) \/ Redeemed(r)
Ask(r) == \E route \in Routes, v \in Payouts : Resolve(r, route, v)

Step ==
    \/ \E r \in Requests :
         \/ Progress(r) \/ Ask(r) \/ Fail(r)
         \/ \E w \in Owners : Redeem(r, w)
    \/ Mine \/ Nuke \/ Restore \/ Crash

Next ==
    /\ Step
    /\ serial' = (/\ serial
                  /\ left'.faults = left.faults
                  /\ \A r, s \in Requests : req'[r] # Idle /\ req'[s] # Idle => r = s)

Spec == Init /\ [][Next]_vars

\* Handlers and the chain go on.
Fairness == WF_work(Mine) /\ \A r \in Requests : WF_work(Progress(r))
FairSpec == Spec /\ Fairness

-----------------------------------------------------------------------------
(* Properties. *)

Requested == [pc : {"idle", "simulate", "send", "wait"},
              route : {"none", "markets", "admin", "redeem"},
              arg : Payouts \union Outcomes \union {"none"},
              tx : 0..Len(sent)]

TypeOK ==
    /\ result \in Payouts \union {"open"}
    /\ tokens \in [Owners -> [Outcomes -> 0..Holding]]
    /\ mined \in 0..Len(sent)
    /\ row.status \in {"active", "resolved", "deleted"}
    /\ row.data.payouts \in Payouts \union {"none"}
    /\ row.data.outcome \in Outcomes \union {"none"}
    /\ req \in [Requests -> Requested]

(* A market is never shown as resolved before its condition is: whatever    *)
(* fails, times out or races, the row follows the chain.                    *)
ResolvedAfterReport == row.status = "resolved" => result # "open"

(* SYSTEM_STATUS, resolve: the vector is reported and the market's status   *)
(* becomes resolved.  Served one request at a time, with nukes and restores *)
(* between them, a row that says resolved carries what was reported.        *)
RowMatchesChain == serial /\ row.status = "resolved" => row.data.payouts = result

Burnt(o) == tokens'["deployer"][o] < tokens["deployer"][o]

(* SYSTEM_STATUS, redeem: winning tokens are burnt for collateral.  The     *)
(* route burns no token that its market's result pays nothing for.          *)
BurnsWinning == [][\A o \in Outcomes : Burnt(o) => o \in Paid(result)]_vars

(* SYSTEM_STATUS, resolve: once the vector is reported the status becomes   *)
(* resolved, however many requests race, unless a handler fails before it   *)
(* stores it or an admin nukes or restores the market.                      *)
ReportReachesRow ==
    result # "open" ~>
        \/ row.status = "resolved"
        \/ left.faults < MaxFaults \/ left.nukes < MaxNukes
=============================================================================
