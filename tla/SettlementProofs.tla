--------------------------- MODULE SettlementProofs ---------------------------
(***************************************************************************)
(* Theorems about Settlement, for any number of concurrent requests,       *)
(* faults and nukes, and about what else administrators edit: the tags     *)
(* (Tags) and the pictures behind tiles (Backgrounds).                     *)
(***************************************************************************)
EXTENDS MC_Admin, SequenceTheorems, TLAPS

Txs == [route : {"markets", "admin", "redeem"},
        arg : Payouts \union Outcomes \union {"none"}]
IsResolution(t) == t.route # "redeem"

LogType == sent \in Seq(Txs) /\ mined \in Nat /\ mined <= Len(sent)
ReqType == req \in [Requests -> [pc : {"idle", "simulate", "send", "wait"},
                                 route : {"none", "markets", "admin", "redeem"},
                                 arg : Payouts \union Outcomes \union {"none"},
                                 tx : Nat]]
RowType == row \in [status : {"active", "resolved", "deleted"},
                     data   : [payouts : Payouts \union {"none"},
                               outcome : Outcomes \union {"none"}]]

\* A request that is resolving carries a payout vector.
Carries(r) ==
    /\ req[r].pc \in {"simulate", "send", "wait"} => req[r].route # "none"
    /\ req[r].pc # "idle" /\ req[r].route # "redeem" => req[r].arg \in Payouts
\* A request that waits does so for its own transaction.
Waits(r) ==
    req[r].pc = "wait" =>
        /\ req[r].tx \in 1..Len(sent)
        /\ sent[req[r].tx].route = req[r].route
\* A resolution in the log carries a vector, and once mined there is a result.
Logged == \A i \in 1..Len(sent) : IsResolution(sent[i]) => sent[i].arg \in Payouts
Effective == \A i \in 1..mined : IsResolution(sent[i]) => result # "open"

SettlementInv ==
    /\ LogType /\ ReqType /\ RowType
    /\ \A r \in Requests : Carries(r) /\ Waits(r)
    /\ Logged /\ Effective
    /\ ResolvedAfterReport

(* No vector is the word for a condition without a result. *)
LEMMA OpenIsNoVector == "open" \notin Payouts
  BY SettlementAssumption

LEMMA InitHolds == Init => SettlementInv
  BY DEF Init, SettlementInv, LogType, ReqType, RowType, Carries, Waits, Logged, Effective,
     ResolvedAfterReport, Idle, NoData

(* What a step does to the requests and nothing else keeps the invariant   *)
(* when the request it touches ends.                                       *)
LEMMA AnswerKeeps ==
    ASSUME SettlementInv, NEW r \in Requests, Answer(r),
           UNCHANGED <<result, sent, mined, row>>
    PROVE  SettlementInv'
  BY DEF SettlementInv, Answer, Idle, LogType, ReqType, RowType, Carries, Waits, Logged,
     Effective, ResolvedAfterReport

LEMMA ResolveKeeps ==
    ASSUME SettlementInv, NEW r \in Requests, NEW route \in Routes, NEW v \in Payouts,
           Resolve(r, route, v)
    PROVE  SettlementInv'
  BY SettlementAssumption DEF SettlementInv, Resolve, LogType, ReqType, RowType, Carries, Waits,
     Logged, Effective, ResolvedAfterReport

LEMMA SimulateKeeps ==
    ASSUME SettlementInv, NEW r \in Requests, Simulate(r)
    PROVE  SettlementInv'
<1>1. CASE Answer(r)
  BY <1>1, AnswerKeeps DEF Simulate
<1>2. CASE Goto(r, "send")
  BY <1>2, ZenonT(40) DEF Simulate, Goto, SettlementInv, LogType, ReqType, RowType, Carries, Waits,
     Logged, Effective, ResolvedAfterReport
<1>3. QED
  BY <1>1, <1>2 DEF Simulate

LEMMA SendKeeps ==
    ASSUME SettlementInv, NEW r \in Requests, Send(r)
    PROVE  SettlementInv'
<1> DEFINE t == [route |-> req[r].route, arg |-> req[r].arg]
<1>1. t \in Txs /\ (IsResolution(t) => t.arg \in Payouts)
  BY DEF SettlementInv, Send, ReqType, Carries, Txs, IsResolution
<1>2. sent' = Append(sent, t) /\ sent \in Seq(Txs) /\ t.route = req[r].route
  BY DEF Send, SettlementInv, LogType
<1>3. UNCHANGED <<result, mined, row>>
  BY DEF Send
<1>4. req' = [req EXCEPT ![r].pc = "wait", ![r].tx = Len(sent) + 1] /\ req[r].pc = "send"
  BY DEF Send
<1> HIDE DEF t
<1>5. Len(sent') = Len(sent) + 1 /\ sent'[Len(sent) + 1] = t
      /\ \A i \in 1..Len(sent) : sent'[i] = sent[i]
  BY <1>1, <1>2
<1>6. LogType'
  BY <1>1, <1>2, <1>3, <1>5 DEF SettlementInv, LogType
<1>7. ReqType'
  <2>1. Len(sent) + 1 \in Nat
    BY <1>2
  <2>2. req' = [req EXCEPT ![r] = [@ EXCEPT !.pc = "wait", !.tx = Len(sent) + 1]]
    BY <1>4 DEF SettlementInv, ReqType
  <2>3. [req[r] EXCEPT !.pc = "wait", !.tx = Len(sent) + 1]
          \in [pc : {"idle", "simulate", "send", "wait"},
              route : {"none", "markets", "admin", "redeem"},
              arg : Payouts \union Outcomes \union {"none"}, tx : Nat]
    BY <2>1 DEF SettlementInv, ReqType
  <2>4. QED
    BY <2>2, <2>3 DEF SettlementInv, ReqType
<1>8. \A x \in Requests : Carries(x)'
  BY <1>4 DEF SettlementInv, Carries, ReqType
<1>9. ASSUME NEW x \in Requests
      PROVE  Waits(x)'
  <2>1. CASE x = r
    <3>1. req'[r].tx = Len(sent) + 1 /\ req'[r].route = req[r].route
      BY <1>4 DEF SettlementInv, ReqType
    <3>2. QED
      BY <2>1, <3>1, <1>2, <1>5 DEF Waits
  <2>2. CASE x # r
    <3>1. req'[x] = req[x]
      BY <2>2, <1>4 DEF SettlementInv, ReqType
    <3>2. QED
      BY <3>1, <1>2, <1>5 DEF SettlementInv, Waits
  <2>3. QED
    BY <2>1, <2>2
<1>10. Logged' /\ Effective' /\ ResolvedAfterReport'
  BY <1>1, <1>2, <1>3, <1>5 DEF SettlementInv, LogType, Logged, Effective, ResolvedAfterReport
<1>11. RowType'
  BY <1>3 DEF SettlementInv, RowType
<1>12. QED
  BY <1>6, <1>7, <1>8, <1>9, <1>10, <1>11 DEF SettlementInv

(* The row is written only after the request's own transaction is mined.   *)
LEMMA WriteKeeps ==
    ASSUME SettlementInv, NEW r \in Requests, Write(r)
    PROVE  SettlementInv'
<1>1. req[r].tx \in 1..mined /\ IsResolution(sent[req[r].tx])
  BY DEF SettlementInv, Write, Waits, LogType, IsResolution
<1>2. result # "open"
  BY <1>1 DEF SettlementInv, Effective
<1>3. req' = [req EXCEPT ![r] = Idle] /\ UNCHANGED <<result, sent, mined>>
  BY DEF Write, Answer
<1>4. RowType'
  <2>1. req[r].arg \in Payouts
    BY DEF SettlementInv, Carries, Write
  <2>2. QED
    BY <2>1 DEF Write, RowType, Outcomes
<1>5. ReqType' /\ \A x \in Requests : Carries(x)' /\ Waits(x)'
  BY <1>3 DEF SettlementInv, ReqType, Carries, Waits, Idle
<1>6. QED
  BY <1>2, <1>3, <1>4, <1>5 DEF SettlementInv, LogType, Logged, Effective,
     ResolvedAfterReport

LEMMA RedeemKeeps ==
    ASSUME SettlementInv, NEW r \in Requests, NEW w \in Owners, Redeem(r, w)
    PROVE  SettlementInv'
<1>1. CASE Answer(r)
  BY <1>1, AnswerKeeps DEF Redeem
<1>2. CASE req' = [req EXCEPT ![r] = [pc |-> "send", route |-> "redeem",
                                      arg |-> Winning, tx |-> 0]]
  <2>1. Winning \in Outcomes
    BY DEF Winning, SettlementInv, RowType, Outcomes
  <2>2. UNCHANGED <<result, sent, mined, row>>
    BY DEF Redeem
  <2>3. QED
    BY <1>2, <2>1, <2>2 DEF SettlementInv, LogType, ReqType, RowType, Carries, Waits,
       Logged, Effective, ResolvedAfterReport
<1>3. QED
  BY <1>1, <1>2 DEF Redeem

LEMMA MineKeeps ==
    ASSUME SettlementInv, Mine
    PROVE  SettlementInv'
<1> DEFINE t == sent[mined + 1]
<1>1. mined + 1 \in 1..Len(sent) /\ mined' = mined + 1 /\ UNCHANGED <<sent, row, req>>
  BY DEF Mine, SettlementInv, LogType
<1>2. result # "open" => result' = result
  BY DEF Mine
<1>3. IsResolution(t) => result' # "open"
  BY <1>1, OpenIsNoVector DEF Mine, SettlementInv, Logged, IsResolution
<1>4. Effective'
  BY <1>1, <1>2, <1>3 DEF SettlementInv, LogType, Effective
<1>5. LogType'
  BY <1>1 DEF SettlementInv, LogType
<1>6. ReqType' /\ RowType'
  BY <1>1 DEF SettlementInv, ReqType, RowType
<1>7. \A r \in Requests : Carries(r)' /\ Waits(r)'
  BY <1>1 DEF SettlementInv, Carries, Waits
<1>8. Logged'
  BY <1>1 DEF SettlementInv, Logged
<1>9. ResolvedAfterReport'
  BY <1>1, <1>2 DEF SettlementInv, ResolvedAfterReport
<1>10. QED
  BY <1>4, <1>5, <1>6, <1>7, <1>8, <1>9 DEF SettlementInv

(* Faults end requests; nuke and restore never set resolved. *)
LEMMA EnvironmentKeeps ==
    ASSUME SettlementInv, Nuke \/ Restore \/ Crash
    PROVE  SettlementInv'
<1>1. CASE Nuke \/ Restore
  BY <1>1 DEF Nuke, Restore, SettlementInv, LogType, ReqType, RowType, Carries, Waits, Logged,
     Effective, ResolvedAfterReport
<1>2. CASE Crash
  BY <1>2 DEF Crash, Idle, SettlementInv, LogType, ReqType, RowType, Carries, Waits, Logged,
     Effective, ResolvedAfterReport
<1>3. QED
  BY <1>1, <1>2

LEMMA SettlementInductive == SettlementInv /\ [Next]_vars => SettlementInv'
<1>1. SUFFICES ASSUME SettlementInv, [Next]_vars PROVE SettlementInv'
  OBVIOUS
<1>2. CASE UNCHANGED vars
  BY <1>1, <1>2 DEF vars, SettlementInv, LogType, ReqType, RowType, Carries, Waits, Logged,
     Effective, ResolvedAfterReport
<1>3. ASSUME NEW r \in Requests, Progress(r) \/ Ask(r) \/ Fail(r)
      PROVE  SettlementInv'
  <2>1. CASE Redeemed(r) \/ Fail(r)
    BY <1>1, <2>1, AnswerKeeps DEF Redeemed, Fail
  <2>2. QED
    BY <1>1, <1>3, <2>1, SimulateKeeps, SendKeeps, WriteKeeps, ResolveKeeps
       DEF Progress, Ask
<1>4. ASSUME NEW r \in Requests, NEW w \in Owners, Redeem(r, w)
      PROVE  SettlementInv'
  BY <1>1, <1>4, RedeemKeeps
<1>5. CASE Mine \/ Nuke \/ Restore \/ Crash
  BY <1>1, <1>5, MineKeeps, EnvironmentKeeps
<1>6. QED
  BY <1>1, <1>2, <1>3, <1>4, <1>5 DEF Next, Step

(* With any number of requests racing, failing and restarting, a market is *)
(* never shown as resolved before its condition has a result.              *)
THEOREM ResolvedOnlyAfterReport == Spec => []ResolvedAfterReport
<1>1. SettlementInv => ResolvedAfterReport
  BY DEF SettlementInv
<1>2. QED
  BY <1>1, InitHolds, SettlementInductive, PTL DEF Spec

-----------------------------------------------------------------------------
(* One request at a time: what a request waits for is the last transaction,  *)
(* and what it will store is what that transaction reports.                  *)

Budget == left \in [redeems : Nat, nukes : Nat, faults : Nat]
Alone == \A r, s \in Requests : req[r] # Idle /\ req[s] # Idle => r = s
\* A resolution is sent only where there is no result yet.
SendsOpen(r) == req[r].pc = "send" /\ req[r].route # "redeem" => result = "open"
\* It waits for the last transaction, and its vector becomes the result.
WaitsLast(r) ==
    req[r].pc = "wait" =>
        /\ req[r].tx = Len(sent) /\ mined >= Len(sent) - 1
        /\ sent[Len(sent)].arg = req[r].arg
        /\ req[r].route # "redeem" =>
               result = IF mined < Len(sent) THEN "open" ELSE req[r].arg
AllMined == mined < Len(sent) => \E r \in Requests : req[r].pc = "wait"
RowTrue == row.status = "resolved" => row.data.payouts = result

OneByOne ==
    /\ Alone /\ AllMined /\ RowTrue
    /\ \A r \in Requests : SendsOpen(r) /\ WaitsLast(r)

SerialInv == SettlementInv /\ Budget /\ (serial => OneByOne)

LEMMA Lengths == SettlementInv => mined \in Nat /\ Len(sent) \in Nat /\ mined <= Len(sent)
  BY DEF SettlementInv, LogType

(* The others are idle while one request is busy.                            *)
LEMMA OnlyOne ==
    ASSUME Alone, NEW r \in Requests, req[r].pc # "idle"
    PROVE  \A s \in Requests \ {r} : req[s].pc = "idle"
  BY DEF Alone, Idle

(* A request that ends after its transaction, or before it sent one.         *)
LEMMA AnswerSerial ==
    ASSUME SettlementInv, OneByOne, NEW r \in Requests, Answer(r),
           req[r].pc = "wait" => req[r].tx <= mined,
           UNCHANGED <<result, sent, mined>>, RowTrue'
    PROVE  AllMined' /\ RowTrue' /\ \A s \in Requests : (SendsOpen(s) /\ WaitsLast(s))'
<1>1. req' = [req EXCEPT ![r] = Idle] /\ Idle.pc = "idle"
  BY DEF Answer, Idle
<1>2. \A s \in Requests : req'[s] = IF s = r THEN Idle ELSE req[s]
  BY <1>1 DEF SettlementInv, ReqType
<1>3. AllMined'
  <2>1. SUFFICES ASSUME mined < Len(sent) PROVE \E s \in Requests : req'[s].pc = "wait"
    BY DEF AllMined
  <2>2. PICK s \in Requests : req[s].pc = "wait"
    BY <2>1 DEF OneByOne, AllMined
  <2>3. req[s].tx = Len(sent)
    BY <2>2 DEF OneByOne, WaitsLast
  <2>4. s # r
    BY <2>1, <2>2, <2>3, Lengths
  <2>5. QED
    BY <1>2, <2>2, <2>4
<1>4. ASSUME NEW s \in Requests
      PROVE  (SendsOpen(s) /\ WaitsLast(s))'
  BY <1>1, <1>2 DEF OneByOne, SendsOpen, WaitsLast
<1>5. QED
  BY <1>3, <1>4

LEMMA ResolveSerial ==
    ASSUME SettlementInv, OneByOne, NEW r \in Requests, NEW route \in Routes, NEW v \in Payouts,
           Resolve(r, route, v)
    PROVE  AllMined' /\ RowTrue' /\ \A s \in Requests : (SendsOpen(s) /\ WaitsLast(s))'
<1>1. /\ req[r].pc = "idle" /\ UNCHANGED <<result, sent, mined, row>>
      /\ \A s \in Requests \ {r} : req'[s] = req[s]
      /\ req'[r].pc = "simulate"
  BY DEF Resolve, Idle, SettlementInv, ReqType
<1>2. AllMined'
  BY <1>1 DEF OneByOne, AllMined
<1>3. QED
  BY <1>1, <1>2 DEF OneByOne, RowTrue, SendsOpen, WaitsLast

LEMMA SimulateSerial ==
    ASSUME SettlementInv, OneByOne, NEW r \in Requests, Simulate(r)
    PROVE  AllMined' /\ RowTrue' /\ \A s \in Requests : (SendsOpen(s) /\ WaitsLast(s))'
<1>1. req[r].pc = "simulate" /\ UNCHANGED <<result, sent, mined, row>> /\ RowTrue'
  BY DEF Simulate, OneByOne, RowTrue
<1>2. CASE result = "open"
  <2>1. /\ req'[r].pc = "send" /\ \A s \in Requests \ {r} : req'[s] = req[s]
    BY <1>2 DEF Simulate, Goto, SettlementInv, ReqType
  <2>2. AllMined'
    BY <1>1, <2>1 DEF OneByOne, AllMined
  <2>3. QED
    BY <1>1, <1>2, <2>1, <2>2 DEF OneByOne, SendsOpen, WaitsLast
<1>3. CASE result # "open"
  BY <1>1, <1>3, AnswerSerial DEF Simulate
<1>4. QED
  BY <1>2, <1>3

LEMMA SendSerial ==
    ASSUME SettlementInv, OneByOne, NEW r \in Requests, Send(r)
    PROVE  AllMined' /\ RowTrue' /\ \A s \in Requests : (SendsOpen(s) /\ WaitsLast(s))'
<1> DEFINE t == [route |-> req[r].route, arg |-> req[r].arg]
<1>1. t \in Txs /\ t.arg = req[r].arg
  BY DEF SettlementInv, Send, ReqType, Carries, Txs
<1>2. sent' = Append(sent, t) /\ sent \in Seq(Txs)
  BY DEF Send, SettlementInv, LogType
<1>3. UNCHANGED <<result, mined, row>> /\ req[r].pc = "send"
  BY DEF Send
<1>4. \A s \in Requests \ {r} : req[s].pc = "idle"
  BY <1>3, OnlyOne DEF OneByOne
<1>5. mined = Len(sent)
  BY <1>3, <1>4, Lengths DEF OneByOne, AllMined
<1>6. req' = [req EXCEPT ![r].pc = "wait", ![r].tx = Len(sent) + 1]
  BY DEF Send
<1>7. /\ req'[r].pc = "wait" /\ req'[r].tx = Len(sent) + 1
      /\ req'[r].route = req[r].route /\ req'[r].arg = req[r].arg
      /\ \A s \in Requests \ {r} : req'[s] = req[s]
  BY <1>6 DEF SettlementInv, ReqType
<1> HIDE DEF t
<1>8. Len(sent') = Len(sent) + 1 /\ sent'[Len(sent) + 1] = t
  BY <1>1, <1>2
<1>9. WaitsLast(r)'
  <2>1. Len(sent) \in Nat
    BY Lengths
  <2>2. req[r].route # "redeem" => result = "open"
    BY <1>3 DEF OneByOne, SendsOpen
  <2>3. mined' < Len(sent') /\ mined' >= Len(sent') - 1
    BY <1>3, <1>5, <1>8, <2>1
  <2>4. QED
    BY <1>1, <1>3, <1>7, <1>8, <2>2, <2>3 DEF WaitsLast
<1>10. \A s \in Requests : (SendsOpen(s) /\ WaitsLast(s))'
  BY <1>4, <1>7, <1>9 DEF SendsOpen, WaitsLast
<1>11. AllMined' /\ RowTrue'
  BY <1>3, <1>7 DEF AllMined, OneByOne, RowTrue
<1>12. QED
  BY <1>10, <1>11

(* The vector that is stored is the one that was mined.                      *)
LEMMA WriteSerial ==
    ASSUME SettlementInv, OneByOne, NEW r \in Requests, Write(r)
    PROVE  AllMined' /\ RowTrue' /\ \A s \in Requests : (SendsOpen(s) /\ WaitsLast(s))'
<1>1. /\ req[r].pc = "wait" /\ req[r].route # "redeem" /\ req[r].tx <= mined
      /\ Answer(r) /\ UNCHANGED <<result, sent, mined>>
      /\ row'.data.payouts = req[r].arg
  BY DEF Write
<1>2. result = req[r].arg
  BY <1>1, Lengths DEF OneByOne, WaitsLast
<1>3. RowTrue'
  BY <1>1, <1>2 DEF RowTrue
<1>4. QED
  BY <1>1, <1>3, AnswerSerial

LEMMA RedeemSerial ==
    ASSUME SettlementInv, OneByOne, NEW r \in Requests, NEW w \in Owners, Redeem(r, w)
    PROVE  AllMined' /\ RowTrue' /\ \A s \in Requests : (SendsOpen(s) /\ WaitsLast(s))'
<1>1. req[r].pc = "idle" /\ UNCHANGED <<result, sent, mined, row>>
  BY DEF Redeem, Idle
<1>2. RowTrue'
  BY <1>1 DEF OneByOne, RowTrue
<1>3. CASE Answer(r)
  BY <1>1, <1>2, <1>3, AnswerSerial
<1>4. CASE req' = [req EXCEPT ![r] = [pc |-> "send", route |-> "redeem",
                                      arg |-> Winning, tx |-> 0]]
  <2>1. /\ req'[r].pc = "send" /\ req'[r].route = "redeem"
        /\ \A s \in Requests \ {r} : req'[s] = req[s]
    BY <1>4 DEF SettlementInv, ReqType
  <2>2. AllMined'
    BY <1>1, <2>1 DEF OneByOne, AllMined
  <2>3. QED
    BY <1>1, <1>2, <2>1, <2>2 DEF OneByOne, SendsOpen, WaitsLast
<1>5. QED
  BY <1>3, <1>4 DEF Redeem

LEMMA MineSerial ==
    ASSUME SettlementInv, OneByOne, Mine
    PROVE  AllMined' /\ RowTrue' /\ \A s \in Requests : (SendsOpen(s) /\ WaitsLast(s))'
<1>1. /\ mined < Len(sent) /\ mined' = mined + 1 /\ UNCHANGED <<sent, row, req>>
      /\ mined \in Nat /\ Len(sent) \in Nat
  BY Lengths DEF Mine
<1>2. PICK r \in Requests : req[r].pc = "wait"
  BY <1>1 DEF OneByOne, AllMined
<1>3. /\ req[r].tx = Len(sent) /\ mined + 1 = Len(sent)
      /\ sent[Len(sent)].arg = req[r].arg /\ sent[Len(sent)].route = req[r].route
      /\ req[r].route # "redeem" => result = "open"
  BY <1>1, <1>2 DEF OneByOne, WaitsLast, SettlementInv, Waits
<1>4. \A s \in Requests \ {r} : req[s].pc = "idle"
  BY <1>2, OnlyOne DEF OneByOne
<1>5. /\ req[r].route # "redeem" => result' = req[r].arg
      /\ req[r].route = "redeem" => result' = result
  BY <1>1, <1>3 DEF Mine
<1>6. WaitsLast(r)'
  BY <1>1, <1>3, <1>5 DEF WaitsLast
<1>7. \A s \in Requests : (SendsOpen(s) /\ WaitsLast(s))'
  BY <1>1, <1>2, <1>4, <1>6 DEF SendsOpen, WaitsLast
<1>8. RowTrue'
  <2>1. row.status = "resolved" => result # "open"
    BY DEF SettlementInv, ResolvedAfterReport
  <2>2. result # "open" => result' = result
    BY DEF Mine
  <2>3. QED
    BY <1>1, <2>1, <2>2 DEF OneByOne, RowTrue
<1>9. QED
  BY <1>1, <1>2, <1>7, <1>8 DEF AllMined

(* Requests and budget, after a step: a fault would show in the budget.      *)
LEMMA StepSerial ==
    ASSUME SerialInv, Step, serial, left'.faults = left.faults
    PROVE  AllMined' /\ RowTrue' /\ \A s \in Requests : (SendsOpen(s) /\ WaitsLast(s))'
<1>1. SettlementInv /\ OneByOne
  BY DEF SerialInv
<1>2. ~Spend("faults")
  BY DEF SerialInv, Budget, Spend
<1>3. ASSUME NEW r \in Requests, Progress(r) \/ Ask(r)
      PROVE  AllMined' /\ RowTrue' /\ \A s \in Requests : (SendsOpen(s) /\ WaitsLast(s))'
  <2>1. CASE Redeemed(r)
    <3>1. RowTrue'
      BY <1>1, <2>1 DEF Redeemed, OneByOne, RowTrue
    <3>2. QED
      BY <1>1, <2>1, <3>1, AnswerSerial DEF Redeemed
  <2>2. QED
    BY <1>1, <1>3, <2>1, SimulateSerial, SendSerial, WriteSerial, ResolveSerial
       DEF Progress, Ask
<1>4. ASSUME NEW r \in Requests, NEW w \in Owners, Redeem(r, w)
      PROVE  AllMined' /\ RowTrue' /\ \A s \in Requests : (SendsOpen(s) /\ WaitsLast(s))'
  BY <1>1, <1>4, RedeemSerial
<1>5. CASE Nuke \/ Restore
  <2>1. UNCHANGED <<result, sent, mined, req>> /\ row'.status # "resolved"
    BY <1>5 DEF Nuke, Restore, SerialInv, SettlementInv, RowType
  <2>2. QED
    BY <1>1, <2>1 DEF OneByOne, AllMined, RowTrue, SendsOpen, WaitsLast
<1>6. CASE Mine
  BY <1>1, <1>6, MineSerial
<1>7. QED
  BY <1>2, <1>3, <1>4, <1>5, <1>6 DEF Step, Fail, Crash

LEMMA SerialInductive == SerialInv /\ [Next]_vars => SerialInv'
<1>1. SUFFICES ASSUME SerialInv, [Next]_vars PROVE SerialInv'
  OBVIOUS
<1>2. SettlementInv'
  BY <1>1, SettlementInductive DEF SerialInv
<1>3. CASE UNCHANGED vars
  BY <1>1, <1>2, <1>3 DEF vars, SerialInv, Budget, OneByOne, Alone, AllMined, RowTrue,
     SendsOpen, WaitsLast
<1>4. CASE Next
  <2>1. Budget'
    <3>1. \A what \in {"redeems", "nukes", "faults"} : Spend(what) => Budget'
      BY <1>1 DEF SerialInv, Budget, Spend
    <3>2. UNCHANGED left \/ Spend("redeems") \/ Spend("nukes") \/ Spend("faults")
      BY <1>4 DEF Next, Step, Progress, Ask, Simulate, Send, Write, Redeemed, Resolve, Fail,
         Redeem, Mine, Nuke, Restore, Crash
    <3>3. QED
      BY <1>1, <3>1, <3>2 DEF SerialInv, Budget
  <2>2. ASSUME serial' PROVE OneByOne'
    <3>1. serial /\ left'.faults = left.faults /\ Step /\ Alone'
      BY <1>4, <2>2 DEF Next, Alone
    <3>2. QED
      BY <1>1, <3>1, StepSerial DEF OneByOne
  <2>3. QED
    BY <1>2, <2>1, <2>2 DEF SerialInv
<1>5. QED
  BY <1>1, <1>3, <1>4

LEMMA InitSerial == Init => SerialInv
<1> SUFFICES ASSUME Init PROVE SerialInv
  OBVIOUS
<1>1. Budget
  BY SettlementAssumption DEF Init, Budget
<1>2. OneByOne
  BY DEF Init, OneByOne, Alone, AllMined, RowTrue, SendsOpen, WaitsLast, Idle
<1>3. QED
  BY <1>1, <1>2, InitHolds DEF SerialInv

(* Served one at a time, whichever route they take and however often the     *)
(* market is nuked and restored, resolutions leave a row that says what was  *)
(* reported.                                                                 *)
THEOREM RowFollowsChain == Spec => []RowMatchesChain
<1>1. SerialInv => RowMatchesChain
  BY DEF SerialInv, OneByOne, RowTrue, RowMatchesChain
<1>2. QED
  BY <1>1, InitSerial, SerialInductive, PTL DEF Spec

-----------------------------------------------------------------------------
(* The curated tags (Tags). *)

TagAsks == Tagging!Asks
Tables == UNION {[D -> BOOLEAN] : D \in SUBSET Nat}
TagStages == {"idle", "verify", "markets", "existing", "create", "list", "listed",
              "act", "done", "failed"}
TagCalls == [at : TagStages, want : BOOLEAN, read : Tables, todo : SUBSET Labels, old : BOOLEAN]

\* What a request of each kind goes through.
Stages(kind) ==
    CASE kind = "list" -> {"idle", "verify", "list", "listed", "failed"}
      [] kind = "sync" -> {"idle", "markets", "existing", "create", "list", "listed", "failed"}
      [] OTHER -> {"idle", "act", "done", "failed"}
TagCall(a, c) ==
    /\ c \in TagCalls /\ c.at \in Stages(a.kind)
    /\ a.kind = "list" /\ c.at # "listed" => ~c.old

TagType ==
    /\ name \in Seq(Labels) /\ rows \in Tables /\ DOMAIN rows \subseteq 1..Len(name)
    /\ shown \in [Tabs -> Tables]
    /\ asks \in [TagAsks -> TagCalls] /\ \A a \in TagAsks : TagCall(a, asks[a])
    /\ calm \subseteq Tabs
OneRowEach == \A i, j \in DOMAIN rows : name[i] = name[j] => i = j

\* What a calm page shows while its only request is under way.
Fits(a, c, s, r) ==
    /\ a.kind \in {"list", "sync"} /\ c.at # "listed" /\ ~c.old => s = r
    /\ a.kind = "toggle" /\ (c.at = "act" \/ (c.at = "failed" /\ ~c.old)) =>
         a.id \in DOMAIN r /\ r[a.id] = ~c.want /\ s = [r EXCEPT ![a.id] = c.want]
    /\ a.kind = "toggle" /\ c.at = "done" => s = r
    /\ a.kind = "delete" /\ (c.at = "act" \/ (c.at = "failed" /\ ~c.old)) => s = r
    /\ a.kind = "delete" /\ c.at = "done" => r = [i \in DOMAIN s \ {a.id} |-> s[i]]
PageCalm(p, A, s, r) ==
    /\ \A a, b \in TagAsks : a.tab = p /\ b.tab = p /\ A[a].at # "idle" /\ A[b].at # "idle" => a = b
    /\ (\A a \in TagAsks : a.tab = p => A[a].at = "idle") => s = r
    /\ \A a \in TagAsks : a.tab = p /\ A[a].at # "idle" => Fits(a, A[a], s, r)
ReadNow == \A a \in TagAsks : asks[a].at = "listed" /\ ~asks[a].old => asks[a].read = rows

TagInv ==
    /\ TagType /\ OneRowEach /\ ReadNow
    /\ \A p \in calm : PageCalm(p, asks, shown[p], rows)

LEMMA TagRowsNat == MaxRows \in Nat
  BY CurationAssumption
LEMMA EmptyTable == <<>> \in Tables /\ DOMAIN <<>> = {}
  BY <<>> \in [{} -> BOOLEAN] DEF Tables
LEMMA TableIs == ASSUME NEW f \in Tables
                 PROVE  DOMAIN f \subseteq Nat /\ f \in [DOMAIN f -> BOOLEAN]
  BY DEF Tables
LEMMA TableSet == ASSUME NEW f \in Tables, NEW i, NEW v \in BOOLEAN
                  PROVE  [f EXCEPT ![i] = v] \in Tables
  BY DEF Tables
LEMMA TableCut == ASSUME NEW f \in Tables, NEW i
                  PROVE  /\ [j \in DOMAIN f \ {i} |-> f[j]] \in Tables
                         /\ Tagging!Restrict(f, DOMAIN f \ {i}) = [j \in DOMAIN f \ {i} |-> f[j]]
<1>1. [j \in DOMAIN f \ {i} |-> f[j]] \in [DOMAIN f \ {i} -> BOOLEAN]
  BY TableIs
<1>2. DOMAIN f \ {i} \in SUBSET Nat
  BY TableIs
<1>. QED BY <1>1, <1>2 DEF Tables, Tagging!Restrict

LEMMA CallGoes ==
    ASSUME NEW c \in TagCalls, NEW v \in TagStages
    PROVE  LET d == [c EXCEPT !.at = v] IN
           d \in TagCalls /\ d.at = v /\ d.want = c.want /\ d.read = c.read /\ d.old = c.old
  BY DEF TagCalls
LEMMA CallWants ==
    ASSUME NEW c \in TagCalls, NEW v \in TagStages, NEW w \in BOOLEAN
    PROVE  LET d == [c EXCEPT !.at = v, !.want = w] IN
           d \in TagCalls /\ d.at = v /\ d.want = w /\ d.read = c.read /\ d.old = c.old
  BY DEF TagCalls
LEMMA CallReads ==
    ASSUME NEW c \in TagCalls, NEW r \in Tables
    PROVE  LET d == [c EXCEPT !.at = "listed", !.read = r, !.old = FALSE] IN
           d \in TagCalls /\ d.at = "listed" /\ d.want = c.want /\ d.read = r
  BY DEF TagCalls, TagStages
LEMMA CallEnds ==
    ASSUME NEW c \in TagCalls, NEW v \in TagStages, NEW o \in BOOLEAN
    PROVE  LET d == [c EXCEPT !.at = v, !.old = o] IN
           d \in TagCalls /\ d.at = v /\ d.want = c.want /\ d.read = c.read /\ d.old = o
  BY DEF TagCalls
LEMMA CallTags ==
    ASSUME NEW c \in TagCalls, NEW v \in TagStages, NEW T \in SUBSET Labels
    PROVE  LET d == [c EXCEPT !.at = v, !.todo = T] IN
           d \in TagCalls /\ d.at = v /\ d.want = c.want /\ d.read = c.read /\ d.old = c.old
  BY DEF TagCalls
LEMMA CallMakes ==
    ASSUME NEW c \in TagCalls, NEW T \in SUBSET Labels
    PROVE  LET d == [c EXCEPT !.todo = T, !.old = TRUE] IN
           d \in TagCalls /\ d.at = c.at /\ d.want = c.want /\ d.read = c.read /\ d.old
  BY DEF TagCalls
LEMMA CallAges ==
    ASSUME NEW c \in TagCalls
    PROVE  LET d == [c EXCEPT !.old = @ \/ c.at = "listed"] IN
           /\ d \in TagCalls /\ d.at = c.at /\ d.want = c.want /\ d.read = c.read
           /\ c.at = "listed" => d.old
           /\ d.old => c.old \/ c.at = "listed"
  BY DEF TagCalls
LEMMA NoCall == LET c == Tagging!Idle IN c \in TagCalls /\ c.at = "idle" /\ ~c.old
  BY EmptyTable DEF TagCalls, TagStages, Tagging!Idle, Tagging!None

LEMMA TagsBegin == Tagging!Init => TagInv
<1> SUFFICES ASSUME Tagging!Init PROVE TagInv
  OBVIOUS
<1>0. Tagging!None \in Tables
  BY EmptyTable DEF Tagging!None
<1>1. name \in Seq(Labels) /\ rows \in Tables /\ DOMAIN rows \subseteq 1..Len(name) /\ OneRowEach
  <2>1. CASE name = <<>> /\ rows = Tagging!None
    BY <2>1, EmptyTable DEF Tagging!None, OneRowEach
  <2>2. ASSUME NEW t \in Labels, NEW v \in BOOLEAN, name = <<t>>, rows = [id \in {1} |-> v]
        PROVE  name \in Seq(Labels) /\ rows \in Tables /\ DOMAIN rows \subseteq 1..Len(name) /\ OneRowEach
    BY <2>2, rows \in [{1} -> BOOLEAN] DEF Tables, OneRowEach
  <2>. QED BY <2>1, <2>2 DEF Tagging!Init
<1>2. TagType
  BY <1>0, <1>1, NoCall DEF TagType, TagCall, Tagging!Init, TagAsks, Stages, Tagging!Asks
<1>. QED BY <1>1, <1>2, NoCall DEF TagInv, Tagging!Init, ReadNow, TagAsks

(* A calm page with one request under way, which goes on or ends.            *)
LEMMA RequestAlone ==
    ASSUME NEW a \in TagAsks, NEW A, NEW B, NEW s, NEW r, NEW t, NEW q,
           PageCalm(a.tab, A, s, r), A[a].at # "idle",
           \A b \in TagAsks : b.tab = a.tab /\ b # a => B[b].at = A[b].at,
           B[a].at = "idle" => t = q,
           B[a].at # "idle" => Fits(a, B[a], t, q)
    PROVE  PageCalm(a.tab, B, t, q)
<1>1. \A b \in TagAsks : b.tab = a.tab /\ b # a => B[b].at = "idle"
  BY DEF PageCalm
<1>. QED BY <1>1 DEF PageCalm

(* A step of request a that leaves the table alone.                          *)
LEMMA TableStays ==
    ASSUME TagInv, NEW a \in TagAsks, NEW c, TagCall(a, c), asks' = [asks EXCEPT ![a] = c],
           NEW s \in Tables, shown' = [shown EXCEPT ![a.tab] = s],
           calm' \subseteq calm \union {a.tab}, UNCHANGED <<name, rows>>,
           c.at = "listed" /\ ~c.old => c.read = rows,
           a.tab \in calm' => PageCalm(a.tab, asks', s, rows)
    PROVE  TagInv'
<1>0. a.tab \in Tabs
  BY DEF TagAsks, Tagging!Asks
<1>1. TagType' /\ OneRowEach'
  BY <1>0 DEF TagInv, TagType, TagCall, OneRowEach
<1>2. ReadNow'
  BY DEF TagInv, TagType, ReadNow
<1>3. ASSUME NEW p \in calm' PROVE PageCalm(p, asks', shown'[p], rows')
  <2>1. CASE p = a.tab
    BY <1>0, <1>3, <2>1 DEF TagInv, TagType
  <2>2. CASE p # a.tab
    <3>1. p \in calm /\ shown'[p] = shown[p] /\ PageCalm(p, asks, shown[p], rows)
      BY <1>3, <2>2 DEF TagInv, TagType
    <3>2. \A b \in TagAsks : b.tab = p => asks'[b] = asks[b]
      BY <2>2 DEF TagInv, TagType
    <3>. QED BY <3>1, <3>2 DEF PageCalm
  <2>. QED BY <2>1, <2>2
<1>. QED BY <1>1, <1>2, <1>3 DEF TagInv

(* A step of request a that changes the table.                               *)
LEMMA TableChanges ==
    ASSUME TagInv, NEW a \in TagAsks, NEW c, TagCall(a, c), c.at # "listed",
           Tagging!Changed(a, c), UNCHANGED shown,
           name' \in Seq(Labels), rows' \in Tables, DOMAIN rows' \subseteq 1..Len(name'), OneRowEach',
           a.tab \in calm => PageCalm(a.tab, asks', shown[a.tab], rows')
    PROVE  TagInv'
<1>. DEFINE Turned(b) == [asks[b] EXCEPT !.old = @ \/ asks[b].at = "listed"]
<1>1. asks' = [b \in TagAsks |-> IF b = a THEN c ELSE Turned(b)]
  BY DEF Tagging!Changed, TagAsks
<1>2. ASSUME NEW b \in TagAsks
      PROVE  /\ TagCall(b, Turned(b)) /\ Turned(b).at = asks[b].at
             /\ asks[b].at = "listed" => Turned(b).old
  <2>1. asks[b] \in TagCalls /\ TagCall(b, asks[b])
    BY DEF TagInv, TagType
  <2>2. /\ Turned(b) \in TagCalls /\ Turned(b).at = asks[b].at
        /\ asks[b].at = "listed" => Turned(b).old
        /\ Turned(b).old => asks[b].old \/ asks[b].at = "listed"
    BY <2>1, CallAges
  <2>. HIDE DEF Turned
  <2>. QED BY <2>1, <2>2 DEF TagCall
<1>3. TagType'
  BY <1>1, <1>2 DEF TagInv, TagType, TagCall, Tagging!Changed
<1>4. ReadNow'
  BY <1>1, <1>2 DEF TagInv, ReadNow
<1>5. \A p \in calm' : p = a.tab /\ p \in calm
  BY DEF Tagging!Changed
<1>. QED BY <1>3, <1>4, <1>5 DEF TagInv

LEMMA CallIs ==
    ASSUME TagInv, NEW a \in TagAsks
    PROVE  LET c == asks[a] IN
           /\ TagCall(a, c) /\ c \in TagCalls
           /\ a.tab \in Tabs /\ shown[a.tab] \in Tables /\ rows \in Tables
           /\ shown = [shown EXCEPT ![a.tab] = shown[a.tab]]
           /\ a.tab \in calm => PageCalm(a.tab, asks, shown[a.tab], rows)
           /\ a.tab \in calm /\ c.at # "idle" => Fits(a, c, shown[a.tab], rows)
<1>1. a.tab \in Tabs /\ TagCall(a, asks[a])
  BY DEF TagInv, TagType, TagAsks, Tagging!Asks, TagCall
<1>. QED BY <1>1 DEF TagInv, TagType, TagCall, PageCalm

(* A request that starts.                                                    *)
LEMMA ClickKeeps ==
    ASSUME TagInv, NEW a \in TagAsks, NEW c, TagCall(a, c), c.at \notin {"idle", "listed"},
           Tagging!Click(a, c), NEW s \in Tables, shown' = [shown EXCEPT ![a.tab] = s],
           shown[a.tab] = rows => Fits(a, c, s, rows)
    PROVE  TagInv'
<1>1. asks' = [asks EXCEPT ![a] = c] /\ UNCHANGED <<name, rows>>
      /\ calm' \subseteq calm
  BY DEF Tagging!Click
<1>2. ASSUME a.tab \in calm' PROVE PageCalm(a.tab, asks', s, rows)
  <2>1. a.tab \in calm /\ \A b \in TagAsks : b.tab = a.tab => asks[b].at = "idle"
    BY <1>2 DEF Tagging!Click, Tagging!Quiet, Tagging!Busy, TagAsks
  <2>2. shown[a.tab] = rows
    BY <2>1 DEF TagInv, PageCalm
  <2>3. asks'[a] = c /\ \A b \in TagAsks : b # a => asks'[b] = asks[b]
    BY <1>1 DEF TagInv, TagType
  <2>. QED BY <2>1, <2>2, <2>3 DEF PageCalm
<1>. QED BY <1>1, <1>2, TableStays

LEMMA UserKeeps == ASSUME TagInv, NEW p \in Tabs, Tagging!User(p) PROVE TagInv'
<1>. USE DEF TagAsks, Tagging!Asks
<1>1. shown[p] \in Tables /\ shown = [shown EXCEPT ![p] = shown[p]] /\ 0 \in 0..MaxRows
  BY TagRowsNat DEF TagInv, TagType
<1>2. CASE Tagging!Open(p)
  <2>. DEFINE a == [tab |-> p, kind |-> "list", id |-> 0]
              c == [Tagging!Idle EXCEPT !.at = "verify"]
  <2>a. c \in TagCalls /\ c.at = "verify" /\ ~c.old
    BY NoCall, CallGoes DEF TagStages
  <2>b. a \in TagAsks
    BY <1>1
  <2>c. TagCall(a, c)
    BY <2>a DEF TagCall, Stages
  <2>1. Tagging!Click(a, c) /\ UNCHANGED shown
    BY <1>2 DEF Tagging!Open
  <2>2. \A s, r : s = r => Fits(a, c, s, r)
    BY <2>a DEF Fits
  <2>. QED BY <1>1, <2>a, <2>b, <2>c, <2>1, <2>2, ClickKeeps
<1>3. CASE Tagging!Sync(p)
  <2>. DEFINE a == [tab |-> p, kind |-> "sync", id |-> 0]
              c == [Tagging!Idle EXCEPT !.at = "markets"]
  <2>a. c \in TagCalls /\ c.at = "markets" /\ ~c.old
    BY NoCall, CallGoes DEF TagStages
  <2>b. a \in TagAsks
    BY <1>1
  <2>c. TagCall(a, c)
    BY <2>a DEF TagCall, Stages
  <2>1. Tagging!Click(a, c) /\ UNCHANGED shown
    BY <1>3 DEF Tagging!Sync
  <2>2. \A s, r : s = r => Fits(a, c, s, r)
    BY <2>a DEF Fits
  <2>. QED BY <1>1, <2>a, <2>b, <2>c, <2>1, <2>2, ClickKeeps
<1>4. ASSUME NEW id \in Tagging!Ids, Tagging!Toggle(p, id) PROVE TagInv'
  <2>. DEFINE want == ~shown[p][id]
              a == [tab |-> p, kind |-> "toggle", id |-> id]
              c == [Tagging!Idle EXCEPT !.at = "act", !.want = want]
              s == [shown[p] EXCEPT ![id] = want]
  <2>1. id \in 0..MaxRows /\ id \in DOMAIN shown[p] /\ want \in BOOLEAN
    BY <1>4, TagRowsNat DEF Tagging!Ids, Tagging!Toggle
  <2>a. c \in TagCalls /\ c.at = "act" /\ ~c.old /\ c.want = want
    <3>1. ASSUME NEW w \in BOOLEAN
          PROVE  LET d == [Tagging!Idle EXCEPT !.at = "act", !.want = w] IN
                 d \in TagCalls /\ d.at = "act" /\ ~d.old /\ d.want = w
      <4>1. "act" \in TagStages
        BY DEF TagStages
      <4>. QED BY <4>1, NoCall DEF TagCalls
    <3>. QED BY <2>1, <3>1
  <2>b. a \in TagAsks
    BY <2>1
  <2>c. TagCall(a, c)
    BY <2>a DEF TagCall, Stages
  <2>2. Tagging!Click(a, c)
    BY <1>4 DEF Tagging!Toggle
  <2>3. s \in Tables /\ shown' = [shown EXCEPT ![p] = s]
    BY <1>1, <1>4, <2>1, TableSet DEF Tagging!Toggle
  <2>4. shown[p] = rows => Fits(a, c, s, rows)
    <3>1. shown[p] = rows => id \in DOMAIN rows /\ rows[id] = ~want /\ s = [rows EXCEPT ![id] = want]
      BY <1>1, <2>1, TableIs
    <3>. QED BY <2>a, <3>1 DEF Fits
  <2>. HIDE DEF a, c, s, want
  <2>5. a.tab = p
    BY DEF a
  <2>6. c.at = "act"
    BY <2>a
  <2>. QED BY <2>b, <2>c, <2>2, <2>3, <2>4, <2>5, <2>6, ClickKeeps
<1>5. ASSUME NEW id \in Tagging!Ids, Tagging!Delete(p, id) PROVE TagInv'
  <2>. DEFINE a == [tab |-> p, kind |-> "delete", id |-> id]
              c == [Tagging!Idle EXCEPT !.at = "act"]
  <2>1. id \in 0..MaxRows
    BY <1>5, TagRowsNat DEF Tagging!Ids
  <2>a. c \in TagCalls /\ c.at = "act" /\ ~c.old
    BY NoCall, CallGoes DEF TagStages
  <2>b. a \in TagAsks
    BY <1>1, <2>1
  <2>c. TagCall(a, c)
    BY <2>a DEF TagCall, Stages
  <2>2. Tagging!Click(a, c) /\ UNCHANGED shown
    BY <1>5 DEF Tagging!Delete
  <2>3. \A s, r : s = r => Fits(a, c, s, r)
    BY <2>a DEF Fits
  <2>. QED BY <1>1, <2>a, <2>b, <2>c, <2>2, <2>3, ClickKeeps
<1>. QED BY <1>2, <1>3, <1>4, <1>5 DEF Tagging!User

(* A request that goes on and leaves the table alone, and one that changes   *)
(* it: what its own page shows is all there is to look at.                   *)
LEMMA GoesOn ==
    ASSUME TagInv, NEW a \in TagAsks, asks[a].at # "idle",
           NEW c, TagCall(a, c), asks' = [asks EXCEPT ![a] = c],
           NEW s \in Tables, shown' = [shown EXCEPT ![a.tab] = s],
           calm' \subseteq calm, UNCHANGED <<name, rows>>,
           c.at = "listed" /\ ~c.old => c.read = rows,
           a.tab \in calm' /\ Fits(a, asks[a], shown[a.tab], rows) =>
               IF c.at = "idle" THEN s = rows ELSE Fits(a, c, s, rows)
    PROVE  TagInv'
<1>1. asks'[a] = c /\ \A b \in TagAsks : b # a => asks'[b] = asks[b]
  BY DEF TagInv, TagType
<1>2. ASSUME a.tab \in calm' PROVE PageCalm(a.tab, asks', s, rows)
  <2>1. /\ PageCalm(a.tab, asks, shown[a.tab], rows)
        /\ asks'[a].at = "idle" => s = rows
        /\ asks'[a].at # "idle" => Fits(a, asks'[a], s, rows)
    BY <1>1, <1>2, CallIs
  <2>2. \A b \in TagAsks : b.tab = a.tab /\ b # a => asks'[b].at = asks[b].at
    BY <1>1
  <2>. QED BY <2>1, <2>2, RequestAlone, ZenonT(40)
<1>. QED BY <1>2, TableStays

LEMMA Acts ==
    ASSUME TagInv, NEW a \in TagAsks, asks[a].at # "idle",
           NEW c, TagCall(a, c), c.at \notin {"idle", "listed"},
           Tagging!Changed(a, c), UNCHANGED shown,
           name' \in Seq(Labels), rows' \in Tables, DOMAIN rows' \subseteq 1..Len(name'), OneRowEach',
           a.tab \in calm /\ Fits(a, asks[a], shown[a.tab], rows) => Fits(a, c, shown[a.tab], rows')
    PROVE  TagInv'
<1>1. asks'[a] = c /\ \A b \in TagAsks : b # a => asks'[b].at = asks[b].at
  <2>1. asks' = [b \in TagAsks |-> IF b = a THEN c ELSE [asks[b] EXCEPT !.old = @ \/ asks[b].at = "listed"]]
    BY DEF Tagging!Changed, TagAsks
  <2>. QED BY <2>1, CallAges DEF TagInv, TagType
<1>2. ASSUME a.tab \in calm PROVE PageCalm(a.tab, asks', shown[a.tab], rows')
  <2>1. /\ PageCalm(a.tab, asks, shown[a.tab], rows)
        /\ asks'[a].at = "idle" => shown[a.tab] = rows'
        /\ asks'[a].at # "idle" => Fits(a, asks'[a], shown[a.tab], rows')
    BY <1>1, <1>2, CallIs
  <2>2. \A b \in TagAsks : b.tab = a.tab /\ b # a => asks'[b].at = asks[b].at
    BY <1>1
  <2>3. \A b \in TagAsks : b.tab = a.tab /\ b # a => asks'[b].at = "idle"
    BY <2>1, <2>2 DEF PageCalm
  <2>. QED BY <2>1, <2>3 DEF PageCalm
<1>. QED BY <1>2, TableChanges

LEMMA KindIs == ASSUME TagInv, NEW a \in TagAsks
                PROVE  /\ a.kind \in {"list", "sync", "toggle", "delete"}
                       /\ asks[a].at \in Stages(a.kind)
  BY CallIs DEF TagCall, TagAsks, Tagging!Asks

(* The next query of a list or of a sync.                                    *)
LEMMA NextQuery ==
    ASSUME TagInv, NEW a \in TagAsks, asks[a].at \notin {"idle", "listed"},
           a.kind \in {"list", "sync"},
           NEW c \in TagCalls, c.at \in Stages(a.kind), c.at \notin {"idle", "listed"},
           c.old = asks[a].old, asks' = [asks EXCEPT ![a] = c],
           UNCHANGED <<name, rows, shown, calm>>
    PROVE  TagInv'
<1>1. \A s, r : Fits(a, asks[a], s, r) => Fits(a, c, s, r)
  BY DEF Fits
<1>2. TagCall(a, c)
  BY CallIs DEF TagCall
<1>. QED BY <1>1, <1>2, CallIs, GoesOn

LEMMA Rests ==
    ASSUME TagInv, NEW a \in TagAsks, asks[a].at # "idle", asks' = [asks EXCEPT ![a] = Tagging!Idle],
           NEW s \in Tables, shown' = [shown EXCEPT ![a.tab] = s],
           calm' \subseteq calm, UNCHANGED <<name, rows>>,
           a.tab \in calm' /\ Fits(a, asks[a], shown[a.tab], rows) => s = rows
    PROVE  TagInv'
<1>1. TagCall(a, Tagging!Idle) /\ Tagging!Idle.at = "idle"
  BY NoCall, KindIs DEF TagCall, Stages
<1>. QED BY <1>1, GoesOn

LEMMA VerifiedKeeps == ASSUME TagInv, NEW a \in TagAsks, Tagging!Verified(a) PROVE TagInv'
<1>0. asks[a].at = "verify" /\ a.kind = "list" /\ UNCHANGED <<name, rows, shown, calm>>
  BY KindIs DEF Tagging!Verified, Stages
<1>1. ASSUME asks' = [asks EXCEPT ![a] = [asks[a] EXCEPT !.at = "list"]] PROVE TagInv'
  <2>. DEFINE c == [asks[a] EXCEPT !.at = "list"]
  <2>1. c \in TagCalls /\ c.at = "list" /\ c.old = asks[a].old
    BY CallIs, CallGoes DEF TagStages
  <2>. HIDE DEF c
  <2>2. c.at \in Stages(a.kind)
    BY <1>0, <2>1 DEF Stages
  <2>. QED BY <1>0, <1>1, <2>1, <2>2, NextQuery DEF c
<1>2. ASSUME asks' = [asks EXCEPT ![a] = Tagging!Idle] PROVE TagInv'
  <2>1. ASSUME Fits(a, asks[a], shown[a.tab], rows) PROVE shown[a.tab] = rows
    <3>1. ~asks[a].old
      BY <1>0, CallIs DEF TagCall
    <3>. QED BY <1>0, <2>1, <3>1 DEF Fits
  <2>. QED BY <1>0, <1>2, <2>1, CallIs, Rests
<1>. QED BY <1>1, <1>2 DEF Tagging!Verified, Tagging!Now

LEMMA ReadListKeeps == ASSUME TagInv, NEW a \in TagAsks, Tagging!ReadList(a) PROVE TagInv'
<1>0. asks[a].at = "list" /\ a.kind \in {"list", "sync"} /\ UNCHANGED <<name, rows, shown, calm>>
  BY KindIs DEF Tagging!ReadList, Stages
<1>1. ASSUME asks' = [asks EXCEPT ![a] = [asks[a] EXCEPT !.at = "listed", !.read = rows, !.old = FALSE]]
      PROVE  TagInv'
  <2>. DEFINE c == [asks[a] EXCEPT !.at = "listed", !.read = rows, !.old = FALSE]
  <2>1. c \in TagCalls /\ c.at = "listed" /\ c.read = rows
    BY CallIs, CallReads
  <2>. HIDE DEF c
  <2>2. TagCall(a, c) /\ \A s, r : Fits(a, c, s, r)
    BY <1>0, <2>1 DEF TagCall, Stages, Fits
  <2>. QED BY <1>0, <1>1, <2>1, <2>2, CallIs, GoesOn DEF c
<1>2. ASSUME asks' = [asks EXCEPT ![a] = [asks[a] EXCEPT !.at = "failed"]] PROVE TagInv'
  <2>. DEFINE c == [asks[a] EXCEPT !.at = "failed"]
  <2>1. c \in TagCalls /\ c.at = "failed" /\ c.old = asks[a].old
    BY CallIs, CallGoes DEF TagStages
  <2>. HIDE DEF c
  <2>2. c.at \in Stages(a.kind)
    BY <1>0, <2>1 DEF Stages
  <2>. QED BY <1>0, <1>2, <2>1, <2>2, NextQuery DEF c
<1>. QED BY <1>1, <1>2 DEF Tagging!ReadList, Tagging!Now

LEMMA SyncKeeps ==
    ASSUME TagInv, NEW a \in TagAsks,
           Tagging!ReadMarkets(a) \/ Tagging!ReadExisting(a) \/ Tagging!Synced(a), used \subseteq Labels
    PROVE  TagInv'
<1>0. a.kind = "sync" /\ asks[a].at \in {"markets", "existing", "create"}
      /\ UNCHANGED <<name, rows, shown, calm>>
  BY KindIs DEF Tagging!ReadMarkets, Tagging!ReadExisting, Tagging!Synced, Stages
<1>1. PICK c \in TagCalls : /\ c.at \in {"existing", "create", "list"} /\ c.old = asks[a].old
                            /\ asks' = [asks EXCEPT ![a] = c]
  <2>1. CASE Tagging!ReadMarkets(a)
    <3>. DEFINE c == [asks[a] EXCEPT !.at = "existing", !.todo = used]
    <3>1. c \in TagCalls /\ c.at = "existing" /\ c.old = asks[a].old
      BY CallIs DEF TagCalls, TagStages
    <3>. QED BY <2>1, <3>1 DEF Tagging!ReadMarkets, Tagging!Now
  <2>2. CASE Tagging!ReadExisting(a)
    <3>. DEFINE T == asks[a].todo \ Tagging!Existing
                c == [asks[a] EXCEPT !.at = "create", !.todo = T]
    <3>1. T \in SUBSET Labels
      BY CallIs DEF TagCalls
    <3>2. c \in TagCalls /\ c.at = "create" /\ c.old = asks[a].old
      BY <3>1, CallIs DEF TagCalls, TagStages
    <3>3. c = [asks[a] EXCEPT !.at = "create", !.todo = @ \ Tagging!Existing]
      OBVIOUS
    <3>. QED BY <2>2, <3>2, <3>3 DEF Tagging!ReadExisting, Tagging!Now
  <2>3. CASE Tagging!Synced(a)
    <3>. DEFINE c == [asks[a] EXCEPT !.at = "list"]
    <3>1. c \in TagCalls /\ c.at = "list" /\ c.old = asks[a].old
      BY CallIs, CallGoes, ZenonT(40) DEF TagStages
    <3>. QED BY <2>3, <3>1 DEF Tagging!Synced, Tagging!Now
  <2>. QED BY <2>1, <2>2, <2>3
<1>2. c.at \in Stages(a.kind)
  BY <1>0, <1>1 DEF Stages
<1>. QED BY <1>0, <1>1, <1>2, NextQuery

(* An act that failed before it had an effect.                               *)
LEMMA ActFails ==
    ASSUME TagInv, NEW a \in TagAsks, asks[a].at = "act", a.kind \in {"toggle", "delete"},
           asks' = [asks EXCEPT ![a] = [asks[a] EXCEPT !.at = "failed", !.old = FALSE]],
           UNCHANGED <<name, rows, shown, calm>>
    PROVE  TagInv'
<1>. DEFINE c == [asks[a] EXCEPT !.at = "failed", !.old = FALSE]
<1>1. c \in TagCalls /\ c.at = "failed" /\ ~c.old /\ c.want = asks[a].want
  BY CallIs, CallEnds DEF TagStages
<1>. HIDE DEF c
<1>2. TagCall(a, c)
  BY <1>1 DEF TagCall, Stages
<1>3. ASSUME NEW s, NEW r, Fits(a, asks[a], s, r) PROVE Fits(a, c, s, r)
  BY <1>1, <1>3 DEF Fits
<1>. QED BY <1>1, <1>2, <1>3, CallIs, GoesOn DEF c

LEMMA UpdateKeeps == ASSUME TagInv, NEW a \in TagAsks, Tagging!Update(a) PROVE TagInv'
<1>0. a.kind = "toggle" /\ asks[a].at = "act" /\ UNCHANGED <<name, shown>>
  BY DEF Tagging!Update
<1>1. ASSUME a.id \in DOMAIN rows, rows' = Tagging!Stored(a), NEW o \in BOOLEAN, NEW v \in {"done", "failed"},
             v = "failed" => o,
             NEW c \in TagCalls, c.at = v, c.old = o, Tagging!Changed(a, c)
      PROVE  TagInv'
  <2>1. rows' = [rows EXCEPT ![a.id] = asks[a].want] /\ rows' \in Tables /\ DOMAIN rows' = DOMAIN rows
    <3>1. asks[a].want \in BOOLEAN
      BY CallIs DEF TagCalls
    <3>. QED BY <1>1, <3>1, CallIs, TableSet DEF Tagging!Stored
  <2>2. OneRowEach' /\ name' \in Seq(Labels) /\ DOMAIN rows' \subseteq 1..Len(name')
    BY <1>0, <2>1 DEF TagInv, TagType, OneRowEach
  <2>3. TagCall(a, c)
    BY <1>0, <1>1 DEF TagCall, Stages
  <2>4. ASSUME Fits(a, asks[a], shown[a.tab], rows) PROVE Fits(a, c, shown[a.tab], rows')
    BY <1>0, <1>1, <2>1, <2>4 DEF Fits
  <2>. QED BY <1>0, <1>1, <2>1, <2>2, <2>3, <2>4, Acts
<1>2. ASSUME a.id \in DOMAIN rows, rows' = Tagging!Stored(a),
             Tagging!Changed(a, [asks[a] EXCEPT !.at = "done"])
      PROVE  TagInv'
  <2>. DEFINE c == [asks[a] EXCEPT !.at = "done"]
  <2>1. c \in TagCalls /\ c.at = "done" /\ c.old \in BOOLEAN
    BY CallIs, CallGoes DEF TagStages, TagCalls
  <2>. HIDE DEF c
  <2>. QED BY <1>1, <1>2, <2>1 DEF c
<1>3. ASSUME a.id \in DOMAIN rows, rows' = Tagging!Stored(a),
             Tagging!Changed(a, [asks[a] EXCEPT !.at = "failed", !.old = TRUE])
      PROVE  TagInv'
  <2>. DEFINE c == [asks[a] EXCEPT !.at = "failed", !.old = TRUE]
  <2>1. c \in TagCalls /\ c.at = "failed" /\ c.old = TRUE
    BY CallIs, CallEnds DEF TagStages
  <2>. HIDE DEF c
  <2>. QED BY <1>1, <1>3, <2>1 DEF c
<1>4. ASSUME asks' = [asks EXCEPT ![a] = [asks[a] EXCEPT !.at = "failed", !.old = FALSE]],
             UNCHANGED <<rows, calm>>
      PROVE  TagInv'
  BY <1>0, <1>4, ActFails
<1>. QED BY <1>2, <1>3, <1>4 DEF Tagging!Update, Tagging!Now

LEMMA RemoveKeeps == ASSUME TagInv, NEW a \in TagAsks, Tagging!Remove(a) PROVE TagInv'
<1>0. a.kind = "delete" /\ asks[a].at = "act" /\ UNCHANGED <<name, shown>>
  BY DEF Tagging!Remove
<1>1. ASSUME rows' = Tagging!Restrict(rows, DOMAIN rows \ {a.id}), NEW o \in BOOLEAN, NEW v \in {"done", "failed"},
             v = "failed" => o,
             NEW c \in TagCalls, c.at = v, c.old = o, Tagging!Changed(a, c)
      PROVE  TagInv'
  <2>1. rows' = [j \in DOMAIN rows \ {a.id} |-> rows[j]] /\ rows' \in Tables
    BY <1>1, CallIs, TableCut
  <2>2. OneRowEach' /\ name' \in Seq(Labels) /\ DOMAIN rows' \subseteq 1..Len(name')
    BY <1>0, <2>1 DEF TagInv, TagType, OneRowEach
  <2>3. TagCall(a, c)
    BY <1>0, <1>1 DEF TagCall, Stages
  <2>4. ASSUME Fits(a, asks[a], shown[a.tab], rows) PROVE Fits(a, c, shown[a.tab], rows')
    BY <1>0, <1>1, <2>1, <2>4, SMTT(20) DEF Fits
  <2>. QED BY <1>0, <1>1, <2>1, <2>2, <2>3, <2>4, Acts
<1>2. ASSUME rows' = Tagging!Restrict(rows, DOMAIN rows \ {a.id}),
             Tagging!Changed(a, [asks[a] EXCEPT !.at = "done"])
      PROVE  TagInv'
  <2>. DEFINE c == [asks[a] EXCEPT !.at = "done"]
  <2>1. c \in TagCalls /\ c.at = "done" /\ c.old \in BOOLEAN
    BY CallIs, CallGoes DEF TagStages, TagCalls
  <2>. HIDE DEF c
  <2>. QED BY <1>1, <1>2, <2>1 DEF c
<1>3. ASSUME rows' = Tagging!Restrict(rows, DOMAIN rows \ {a.id}),
             Tagging!Changed(a, [asks[a] EXCEPT !.at = "failed", !.old = TRUE])
      PROVE  TagInv'
  <2>. DEFINE c == [asks[a] EXCEPT !.at = "failed", !.old = TRUE]
  <2>1. c \in TagCalls /\ c.at = "failed" /\ c.old = TRUE
    BY CallIs, CallEnds DEF TagStages
  <2>. HIDE DEF c
  <2>. QED BY <1>1, <1>3, <2>1 DEF c
<1>4. ASSUME asks' = [asks EXCEPT ![a] = [asks[a] EXCEPT !.at = "failed", !.old = FALSE]],
             UNCHANGED <<rows, calm>>
      PROVE  TagInv'
  BY <1>0, <1>4, ActFails
<1>. QED BY <1>2, <1>3, <1>4 DEF Tagging!Remove, Tagging!Now

LEMMA CreateKeeps == ASSUME TagInv, NEW a \in TagAsks, Tagging!Create(a) PROVE TagInv'
<1>0. a.kind = "sync" /\ asks[a].at = "create" /\ UNCHANGED shown
  BY KindIs DEF Tagging!Create, Stages
<1>1. ASSUME NEW t \in asks[a].todo, ~Tagging!Listed(t), name' = Append(name, t),
             rows' = [id \in DOMAIN rows \cup {Len(name')} |->
                         IF id = Len(name') THEN TRUE ELSE rows[id]],
             Tagging!Changed(a, [asks[a] EXCEPT !.todo = @ \ {t}, !.old = TRUE])
      PROVE  TagInv'
  <2>. DEFINE T == asks[a].todo \ {t}
              c == [asks[a] EXCEPT !.todo = T, !.old = TRUE]
  <2>1. T \in SUBSET Labels /\ t \in Labels
    BY CallIs DEF TagCalls
  <2>2. c \in TagCalls /\ c.at = "create" /\ c.old
    <3>. HIDE DEF T
    <3>. QED BY <1>0, <2>1, CallIs, CallMakes
  <2>3. name \in Seq(Labels) /\ name' \in Seq(Labels) /\ Len(name') = Len(name) + 1 /\ Len(name) \in Nat
        /\ (\A i \in 1..Len(name) : name'[i] = name[i]) /\ name'[Len(name')] = t
    BY <1>1, <2>1 DEF TagInv, TagType
  <2>4. /\ DOMAIN rows' \subseteq 1..Len(name') /\ DOMAIN rows' \subseteq Nat
        /\ rows' \in [DOMAIN rows' -> BOOLEAN]
    <3>1. DOMAIN rows \subseteq 1..Len(name) /\ rows \in [DOMAIN rows -> BOOLEAN]
      BY CallIs, TableIs DEF TagInv, TagType
    <3>2. rows' \in [DOMAIN rows \cup {Len(name')} -> BOOLEAN]
      BY <1>1, <3>1
    <3>3. DOMAIN rows' = DOMAIN rows \cup {Len(name')}
      BY <1>1
    <3>4. DOMAIN rows' \subseteq 1..Len(name')
      BY <2>3, <3>1, <3>3
    <3>. QED BY <2>3, <3>2, <3>3, <3>4
  <2>5. rows' \in Tables
    BY <2>4 DEF Tables
  <2>6. OneRowEach'
    <3>1. \A i \in DOMAIN rows : i \in 1..Len(name) /\ i # Len(name') /\ name'[i] # t
      BY <1>1, <2>3 DEF TagInv, TagType, Tagging!Listed
    <3>. QED BY <1>1, <2>3, <3>1 DEF TagInv, OneRowEach
  <2>7. Tagging!Changed(a, c)
    BY <1>1
  <2>. HIDE DEF c
  <2>8. TagCall(a, c) /\ \A s, r : Fits(a, c, s, r)
    BY <1>0, <2>2 DEF TagCall, Stages, Fits
  <2>. QED BY <1>0, <2>2, <2>3, <2>4, <2>5, <2>6, <2>7, <2>8, Acts
<1>2. ASSUME asks' = [asks EXCEPT ![a] = [asks[a] EXCEPT !.at = "failed"]],
             UNCHANGED <<name, rows, calm>>
      PROVE  TagInv'
  <2>. DEFINE c == [asks[a] EXCEPT !.at = "failed"]
  <2>1. c \in TagCalls /\ c.at = "failed" /\ c.old = asks[a].old
    BY CallIs, CallGoes DEF TagStages
  <2>. HIDE DEF c
  <2>2. c.at \in Stages(a.kind)
    BY <1>0, <2>1 DEF Stages
  <2>. QED BY <1>0, <1>2, <2>1, <2>2, NextQuery DEF c
<1>. QED BY <1>1, <1>2 DEF Tagging!Create, Tagging!Now

LEMMA TakeListKeeps == ASSUME TagInv, NEW a \in TagAsks, Tagging!TakeList(a) PROVE TagInv'
<1>. DEFINE s == asks[a].read
<1>0. /\ asks[a].at = "listed" /\ shown' = [shown EXCEPT ![a.tab] = s] /\ UNCHANGED <<name, rows>>
      /\ asks' = [asks EXCEPT ![a] = Tagging!Idle] /\ calm' \subseteq calm \union {a.tab}
      /\ a.tab \in calm' => ~asks[a].old /\ Tagging!Busy(a.tab) = {a}
  BY DEF Tagging!TakeList, Tagging!Now
<1>1. s \in Tables /\ TagCall(a, Tagging!Idle) /\ Tagging!Idle.at = "idle"
  BY CallIs, KindIs, NoCall DEF TagCall, TagCalls, Stages
<1>2. ASSUME a.tab \in calm' PROVE PageCalm(a.tab, asks', s, rows)
  <2>1. s = rows
    BY <1>0, <1>2 DEF TagInv, ReadNow
  <2>2. \A b \in TagAsks : b.tab = a.tab => asks'[b].at = "idle"
    BY <1>0, <1>1, <1>2 DEF TagInv, TagType, Tagging!Busy, TagAsks
  <2>. QED BY <2>1, <2>2 DEF PageCalm
<1>. QED BY <1>0, <1>1, <1>2, TableStays

LEMMA TakeDoneKeeps == ASSUME TagInv, NEW a \in TagAsks, Tagging!TakeDone(a) PROVE TagInv'
<1>0. /\ asks[a].at = "done" /\ a.kind \in {"toggle", "delete"} /\ UNCHANGED <<name, rows, calm>>
      /\ asks' = [asks EXCEPT ![a] = Tagging!Idle]
  BY KindIs DEF Tagging!TakeDone, Tagging!Now, Stages
<1>1. CASE a.kind = "delete"
  <2>. DEFINE f == shown[a.tab]
              s == [j \in DOMAIN f \ {a.id} |-> f[j]]
  <2>1. s \in Tables /\ shown' = [shown EXCEPT ![a.tab] = s]
    BY <1>1, CallIs, TableCut, ZenonT(40) DEF Tagging!TakeDone
  <2>2. Fits(a, asks[a], f, rows) => s = rows
    BY <1>0, <1>1 DEF Fits
  <2>. QED BY <1>0, <2>1, <2>2, Rests
<1>2. CASE a.kind # "delete"
  <2>1. Fits(a, asks[a], shown[a.tab], rows) => shown[a.tab] = rows
    BY <1>0, <1>2 DEF Fits
  <2>2. shown' = shown
    BY <1>2 DEF Tagging!TakeDone
  <2>. QED BY <1>0, <2>1, <2>2, CallIs, Rests
<1>. QED BY <1>1, <1>2

LEMMA TakeFailureKeeps == ASSUME TagInv, NEW a \in TagAsks, Tagging!TakeFailure(a) PROVE TagInv'
<1>. DEFINE s == Tagging!Reverted(a.tab, a)
<1>0. /\ asks[a].at = "failed" /\ UNCHANGED <<name, rows>>
      /\ asks' = [asks EXCEPT ![a] = Tagging!Idle] /\ shown' = [shown EXCEPT ![a.tab] = s]
      /\ calm' \subseteq calm /\ (a.tab \in calm' => ~asks[a].old)
  BY DEF Tagging!TakeFailure, Tagging!Now
<1>1. asks[a].want \in BOOLEAN /\ shown[a.tab] \in Tables
  BY CallIs DEF TagCalls
<1>2. s \in Tables
  BY <1>1, TableSet DEF Tagging!Reverted
<1>3. ASSUME a.tab \in calm', Fits(a, asks[a], shown[a.tab], rows) PROVE s = rows
  <2>1. CASE a.kind = "toggle"
    <3>1. /\ a.id \in DOMAIN rows /\ rows[a.id] = ~asks[a].want
          /\ shown[a.tab] = [rows EXCEPT ![a.id] = asks[a].want]
      BY <1>0, <1>3, <2>1 DEF Fits
    <3>2. s = [shown[a.tab] EXCEPT ![a.id] = ~asks[a].want]
      BY <2>1, <3>1 DEF Tagging!Reverted
    <3>. QED BY <3>1, <3>2, <1>1, CallIs, TableIs
  <2>2. CASE a.kind # "toggle"
    BY <1>0, <1>3, <2>2, KindIs DEF Fits, Tagging!Reverted
  <2>. QED BY <2>1, <2>2
<1>. HIDE DEF s
<1>. QED BY <1>0, <1>2, <1>3, Rests

LEMMA TagsStill == ASSUME TagInv, UNCHANGED <<name, rows, shown, asks, calm>> PROVE TagInv'
<1>1. TagType' /\ OneRowEach' /\ ReadNow'
  BY DEF TagInv, TagType, OneRowEach, ReadNow
<1>2. \A p \in calm' : PageCalm(p, asks', shown'[p], rows')
  BY DEF TagInv
<1>. QED BY <1>1, <1>2 DEF TagInv

LEMMA TagsInductive ==
    ASSUME TagInv, used \subseteq Labels, [Tagging!Next]_tagVars
    PROVE  TagInv' /\ used' \subseteq Labels
<1>1. CASE UNCHANGED tagVars
  BY <1>1, TagsStill DEF tagVars
<1>2. ASSUME NEW p \in Tabs, Tagging!User(p) PROVE TagInv' /\ UNCHANGED used
  <2>1. UNCHANGED used
    BY <1>2 DEF Tagging!User, Tagging!Open, Tagging!Sync, Tagging!Toggle, Tagging!Delete, Tagging!Click
  <2>. QED BY <1>2, <2>1, UserKeeps
<1>3. ASSUME NEW a \in TagAsks, Tagging!Request(a) PROVE TagInv' /\ UNCHANGED used
  <2>1. UNCHANGED used
    BY <1>3 DEF Tagging!Request, Tagging!Verified, Tagging!ReadList, Tagging!Update, Tagging!Remove,
       Tagging!ReadMarkets, Tagging!ReadExisting, Tagging!Create, Tagging!Synced, Tagging!TakeList,
       Tagging!TakeDone, Tagging!TakeFailure
  <2>2. TagInv'
    BY <1>3, VerifiedKeeps, ReadListKeeps, UpdateKeeps, RemoveKeeps, SyncKeeps, CreateKeeps,
       TakeListKeeps, TakeDoneKeeps, TakeFailureKeeps DEF Tagging!Request
  <2>. QED BY <2>1, <2>2
<1>4. CASE Tagging!MarketTags
  BY <1>4, TagsStill DEF Tagging!MarketTags
<1>. QED BY <1>1, <1>2, <1>3, <1>4 DEF Tagging!Next, TagAsks

(* What a visitor is offered changes on request only.                        *)
TagsOffered ==
    /\ \A t \in Tagging!Offered' \ Tagging!Offered : t \notin Tagging!Existing \/ Tagging!Asked(t, TRUE)
    /\ \A t \in Tagging!Offered \ Tagging!Offered' : t \notin Tagging!Existing' \/ Tagging!Asked(t, FALSE)

LEMMA NothingOffered == ASSUME UNCHANGED <<name, rows>> PROVE TagsOffered
  BY DEF TagsOffered, Tagging!Offered

LEMMA OfferedOnRequest == ASSUME TagInv, [Tagging!Next]_tagVars PROVE TagsOffered
<1>1. ASSUME NEW a \in TagAsks, Tagging!Update(a) PROVE TagsOffered
  <2>1. CASE rows' = Tagging!Stored(a) /\ a.id \in DOMAIN rows
    <3>1. /\ rows' = [rows EXCEPT ![a.id] = asks[a].want] /\ name' = name
          /\ a.kind = "toggle" /\ asks[a].at = "act"
      BY <1>1, <2>1 DEF Tagging!Update, Tagging!Stored
    <3>2. asks[a].want \in BOOLEAN /\ rows \in [DOMAIN rows -> BOOLEAN]
      BY CallIs, TableIs DEF TagCalls
    <3>3. ASSUME NEW t \in Tagging!Offered', t \notin Tagging!Offered PROVE Tagging!Asked(t, TRUE)
      <4>1. PICK i \in DOMAIN rows' : rows'[i] /\ t = name'[i]
        BY <3>3 DEF Tagging!Offered
      <4>2. i = a.id /\ asks[a].want
        BY <2>1, <3>1, <3>2, <3>3, <4>1 DEF Tagging!Offered
      <4>. QED BY <2>1, <3>1, <3>2, <4>1, <4>2 DEF Tagging!Asked, TagAsks
    <3>4. ASSUME NEW t \in Tagging!Offered, t \notin Tagging!Offered' PROVE Tagging!Asked(t, FALSE)
      <4>1. PICK i \in DOMAIN rows : rows[i] /\ t = name[i]
        BY <3>4 DEF Tagging!Offered
      <4>2. i = a.id /\ ~asks[a].want
        BY <2>1, <3>1, <3>2, <3>4, <4>1 DEF Tagging!Offered
      <4>. QED BY <2>1, <3>1, <3>2, <4>1, <4>2 DEF Tagging!Asked, TagAsks
    <3>. QED BY <3>3, <3>4 DEF TagsOffered
  <2>2. CASE UNCHANGED rows
    BY <1>1, <2>2, NothingOffered DEF Tagging!Update
  <2>. QED BY <1>1, <2>1, <2>2 DEF Tagging!Update
<1>2. ASSUME NEW a \in TagAsks, Tagging!Remove(a) PROVE TagsOffered
  <2>1. CASE rows' = Tagging!Restrict(rows, DOMAIN rows \ {a.id})
    <3>1. rows' = [j \in DOMAIN rows \ {a.id} |-> rows[j]] /\ name' = name
      BY <1>2, <2>1, CallIs, TableCut DEF Tagging!Remove
    <3>2. Tagging!Offered' \subseteq Tagging!Offered
      BY <3>1 DEF Tagging!Offered
    <3>3. ASSUME NEW t \in Tagging!Offered, t \notin Tagging!Offered' PROVE t \notin Tagging!Existing'
      <4>1. PICK i \in DOMAIN rows : rows[i] /\ t = name[i]
        BY <3>3 DEF Tagging!Offered
      <4>2. i = a.id
        BY <3>1, <3>3, <4>1 DEF Tagging!Offered
      <4>3. \A j \in DOMAIN rows' : name'[j] # t
        BY <3>1, <4>1, <4>2 DEF TagInv, OneRowEach
      <4>. QED BY <4>3 DEF Tagging!Existing, Tagging!Listed
    <3>. QED BY <3>2, <3>3 DEF TagsOffered
  <2>2. CASE UNCHANGED rows
    BY <1>2, <2>2, NothingOffered DEF Tagging!Remove
  <2>. QED BY <1>2, <2>1, <2>2 DEF Tagging!Remove
<1>3. ASSUME NEW a \in TagAsks, Tagging!Create(a) PROVE TagsOffered
  <2>1. ASSUME NEW t \in asks[a].todo, ~Tagging!Listed(t), name' = Append(name, t),
               rows' = [id \in DOMAIN rows \cup {Len(name')} |->
                           IF id = Len(name') THEN TRUE ELSE rows[id]]
        PROVE  TagsOffered
    <3>1. t \in Labels
      BY CallIs DEF TagCalls
    <3>2. /\ Len(name') \notin DOMAIN rows /\ name'[Len(name')] = t
          /\ \A i \in DOMAIN rows : name'[i] = name[i] /\ rows'[i] = rows[i] /\ i \in DOMAIN rows'
          /\ \A i \in DOMAIN rows' : i \in DOMAIN rows \/ i = Len(name')
      <4>1. name \in Seq(Labels) /\ DOMAIN rows \subseteq 1..Len(name) /\ Len(name) \in Nat
        BY DEF TagInv, TagType
      <4>2. Len(name') = Len(name) + 1 /\ name'[Len(name')] = t
            /\ \A i \in 1..Len(name) : name'[i] = name[i]
        BY <2>1, <3>1, <4>1
      <4>3. /\ DOMAIN rows' = DOMAIN rows \cup {Len(name')}
            /\ \A i \in DOMAIN rows' : rows'[i] = IF i = Len(name') THEN TRUE ELSE rows[i]
        BY <2>1
      <4>4. Len(name') \notin DOMAIN rows /\ \A i \in DOMAIN rows : i # Len(name')
        BY <4>1, <4>2
      <4>5. \A i \in DOMAIN rows : name'[i] = name[i]
        BY <4>1, <4>2
      <4>. QED BY <4>2, <4>3, <4>4, <4>5
    <3>3. Tagging!Offered \subseteq Tagging!Offered' /\ Tagging!Offered' \subseteq Tagging!Offered \union {t}
      BY <3>2 DEF Tagging!Offered
    <3>4. t \notin Tagging!Existing
      BY <2>1 DEF Tagging!Existing
    <3>. QED BY <3>3, <3>4 DEF TagsOffered
  <2>2. CASE UNCHANGED <<name, rows>>
    BY <2>2, NothingOffered
  <2>. QED BY <1>3, <2>1, <2>2 DEF Tagging!Create
<1>4. ASSUME NEW a \in TagAsks, Tagging!Request(a) PROVE TagsOffered
  <2>1. CASE UNCHANGED <<name, rows>>
    BY <2>1, NothingOffered
  <2>. QED BY <1>1, <1>2, <1>3, <1>4, <2>1 DEF Tagging!Request, Tagging!Verified, Tagging!ReadList,
           Tagging!ReadMarkets, Tagging!ReadExisting, Tagging!Synced, Tagging!TakeList,
           Tagging!TakeDone, Tagging!TakeFailure
<1>5. ASSUME NEW p \in Tabs, Tagging!User(p) PROVE UNCHANGED <<name, rows>>
  BY <1>5 DEF Tagging!User, Tagging!Open, Tagging!Sync, Tagging!Toggle, Tagging!Delete, Tagging!Click
<1>. QED BY <1>4, <1>5, NothingOffered DEF Tagging!Next, tagVars, Tagging!MarketTags, TagAsks

-----------------------------------------------------------------------------
(* The pictures behind tiles (Backgrounds). *)

Pages == Picture!Queries
Rows == UNION {[L -> [id : Nat, image : Nat, time : Nat]] : L \in SUBSET Labels}
Entries == [tag : Labels \union {"nothing loaded yet"}, id : Nat, image : Nat, time : Nat]
PageQuery == [data : SUBSET Entries, fetch : {"none", "sent", "rows"}, read : Rows,
              kept : SUBSET Labels, stale : BOOLEAN, missed : BOOLEAN]
Saving == [tag : Labels, at : {"write", "upsert", "saved", "failed", "over"}, from : Pages]
Deleting == [id : Nat, at : {"sent", "gone", "failed", "over"}, from : Pages]

PictureType ==
    /\ saves \in Seq(Saving) /\ deletes \in Seq(Deleting)
    /\ files \in Seq(Nat) /\ \A i \in DOMAIN files : files[i] \in DOMAIN saves
    /\ pictures \in Rows /\ page \in Pages /\ query \in [Pages -> PageQuery]

\* A change that may have had its effect and has not been answered.
Unanswered ==
    \/ \E n \in DOMAIN saves : saves[n].at \in {"upsert", "saved", "failed"}
    \/ \E i \in DOMAIN deletes : deletes[i].at \in {"gone", "failed"}

Current(q) == IF q = "admin" THEN Picture!RowEntries(pictures) ELSE Picture!Listing(pictures)
\* What a query that missed nothing has read, and what its page has to show.
UpToDate(q) ==
    ~query[q].missed /\ ~Unanswered =>
        /\ query[q].fetch = "rows" => query[q].read = pictures
        /\ query[q].fetch = "none" /\ (q = page \/ (q = "public" /\ ~query[q].stale)) =>
             query[q].data = Current(q)
\* What a listing offers for the rows that have not changed since.
OffersKept(q) ==
    /\ q.fetch = "rows" => q.kept \subseteq DOMAIN q.read
    /\ q.fetch = "none" => \A t \in q.kept : Picture!Pick(q.data, t).image = q.read[t].image

PictureInv ==
    PictureType /\ (\A q \in Pages : UpToDate(q)) /\ OffersKept(query["public"])

LEMMA PagesAre == Pages = {"admin", "public"}
  BY DEF Pages, Picture!Queries
LEMMA RowsAre == ASSUME NEW r \in Rows
                 PROVE  DOMAIN r \subseteq Labels /\ r \in [DOMAIN r -> [id : Nat, image : Nat, time : Nat]]
  BY DEF Rows
LEMMA NoRows == <<>> \in Rows /\ DOMAIN <<>> = {}
  BY <<>> \in [{} -> [id : Nat, image : Nat, time : Nat]] DEF Rows

(* What a listing is made of.                                                *)
LEMMA ListingTyped ==
    ASSUME PictureType, NEW r \in Rows
    PROVE  Picture!RowEntries(r) \in SUBSET Entries /\ Picture!Listing(r) \in SUBSET Entries
<1>1. Picture!RowEntries(r) \subseteq Entries
  <2>1. ASSUME NEW t \in DOMAIN r PROVE Picture!Entry(t, r[t].id, r[t].image, r[t].time) \in Entries
    <3>1. t \in Labels /\ r[t] \in [id : Nat, image : Nat, time : Nat]
      BY RowsAre
    <3>. QED BY <3>1 DEF Picture!Entry, Entries
  <2>. QED BY <2>1 DEF Picture!RowEntries
<1>2. ASSUME NEW i \in DOMAIN files
      PROVE  Picture!Entry(FileTag[saves[files[i]].tag], 0, files[i], i) \in Entries
  <2>1. saves[files[i]] \in Saving /\ files[i] \in Nat /\ i \in Nat
    BY DEF PictureType
  <2>2. FileTag[saves[files[i]].tag] \in Labels
    BY <2>1, CurationAssumption DEF Saving, Picture!FileTagAssumption
  <2>. QED BY <2>1, <2>2 DEF Picture!Entry, Entries
<1>. QED BY <1>1, <1>2 DEF Picture!Listing, Picture!FileEntries, Picture!EveryFile

LEMMA PickOwn ==
    ASSUME NEW r \in Rows, NEW t \in DOMAIN r
    PROVE  Picture!Pick(Picture!Listing(r), t).image = r[t].image
<1>. DEFINE e == Picture!Entry(t, r[t].id, r[t].image, r[t].time)
            mine == {d \in Picture!Listing(r) : d.tag = t}
<1>1. mine = {e}
  BY DEF Picture!Listing, Picture!RowEntries, Picture!FileEntries, Picture!Entry
<1>2. \A d \in mine : d.time < e.time \/ (d.time = e.time /\ d.id <= e.id)
  BY <1>1, RowsAre DEF Picture!Entry
<1>3. Picture!Pick(Picture!Listing(r), t) = e
  BY <1>1, <1>2 DEF Picture!Pick
<1>. QED BY <1>3 DEF Picture!Entry

LEMMA PicturesBegin == Picture!Init => PictureInv
<1> SUFFICES ASSUME Picture!Init PROVE PictureInv
  OBVIOUS
<1>1. Picture!NoQuery \in PageQuery /\ [Picture!NoQuery EXCEPT !.fetch = "sent"] \in PageQuery
  <2>1. Picture!NoData \in SUBSET Entries
    BY DEF Picture!NoData, Picture!Entry, Entries
  <2>. QED BY <2>1, NoRows DEF Picture!NoQuery, PageQuery
<1>2. PictureType
  BY <1>1, NoRows, PagesAre DEF Picture!Init, PictureType, Pages
<1>3. /\ query["public"] = Picture!NoQuery /\ query["admin"].fetch = "sent"
      /\ page = "admin"
  BY <1>1 DEF Picture!Init, Picture!Queries, PageQuery
<1>4. Picture!NoQuery.fetch = "none" /\ Picture!NoQuery.kept = {} /\ Picture!NoQuery.stale
  BY DEF Picture!NoQuery
<1>. QED BY <1>2, <1>3, <1>4, PagesAre DEF PictureInv, UpToDate, OffersKept

(* What happens to a query without an answer.                                *)
LEMMA SentIs ==
    ASSUME NEW q \in PageQuery
    PROVE  LET d == Picture!Sent(q) IN
           d \in PageQuery /\ d.fetch = "sent"
  BY DEF Picture!Sent, PageQuery
LEMMA MissedIs ==
    ASSUME NEW q \in PageQuery
    PROVE  LET d == Picture!Missed(q) IN
           /\ d \in PageQuery /\ d.missed /\ d.fetch = q.fetch /\ d.data = q.data
           /\ d.kept = q.kept /\ d.read = q.read
  BY DEF Picture!Missed, PageQuery
LEMMA TouchedIs ==
    ASSUME NEW q \in PageQuery, NEW t
    PROVE  LET d == [q EXCEPT !.kept = @ \ {t}] IN
           /\ d \in PageQuery /\ d.fetch = q.fetch /\ d.data = q.data /\ d.missed = q.missed
           /\ d.kept \subseteq q.kept /\ d.read = q.read /\ d.stale = q.stale
  BY DEF PageQuery

\* A query as a reply leaves it: sent again, or known to be behind.
Answered(q, d) ==
    /\ d \in PageQuery
    /\ \/ d.fetch = "sent"
       \/ /\ d.fetch = query[q].fetch /\ d.data = query[q].data
          /\ d.kept = query[q].kept /\ d.read = query[q].read
          /\ d.missed \/ (d.fetch = "none" /\ q # page /\ (q = "public" => d.stale))

LEMMA InvalidatedIs ==
    ASSUME PictureType, NEW q \in Pages
    PROVE  Answered(q, Picture!Invalidated(q))
<1>1. query[q] \in PageQuery
  BY DEF PictureType
<1>2. [query[q] EXCEPT !.stale = TRUE] \in PageQuery /\ [query[q] EXCEPT !.stale = TRUE].stale
      /\ LET d == [query[q] EXCEPT !.stale = TRUE] IN
         /\ d.fetch = query[q].fetch /\ d.data = query[q].data
         /\ d.kept = query[q].kept /\ d.read = query[q].read
  BY <1>1 DEF PageQuery
<1>. QED BY <1>1, <1>2, SentIs, MissedIs DEF Answered, Picture!Invalidated

LEMMA SucceedsIs ==
    ASSUME PictureType, NEW from \in Pages, Picture!Succeeds(from)
    PROVE  query' \in [Pages -> PageQuery] /\ \A q \in Pages : Answered(q, query'[q])
<1>. DEFINE x == IF from = "admin" THEN Picture!Invalidated("admin")
                 ELSE IF page = "admin" \/ query["admin"].fetch # "none"
                      THEN Picture!Missed(query["admin"]) ELSE query["admin"]
<1>1. query["admin"] \in PageQuery /\ query \in [Pages -> PageQuery]
  BY PagesAre DEF PictureType
<1>2. Answered("admin", x) /\ Answered("public", Picture!Invalidated("public"))
  BY <1>1, PagesAre, InvalidatedIs, MissedIs DEF Answered
<1>3. query' = [query EXCEPT !["public"] = Picture!Invalidated("public"), !["admin"] = x]
  BY DEF Picture!Succeeds
<1>. HIDE DEF x
<1>. QED BY <1>1, <1>2, <1>3, PagesAre DEF Answered

LEMMA FailsIs ==
    ASSUME PictureType, Picture!Fails
    PROVE  query' \in [Pages -> PageQuery] /\ \A q \in Pages : Answered(q, query'[q])
  BY MissedIs DEF Picture!Fails, PictureType, Answered, Pages

(* A reply: whatever a query does not know now, it does not claim to know.   *)
LEMMA ReplyKeeps ==
    ASSUME PictureInv, query' \in [Pages -> PageQuery], \A q \in Pages : Answered(q, query'[q]),
           saves' \in Seq(Saving), DOMAIN saves' = DOMAIN saves, deletes' \in Seq(Deleting),
           UNCHANGED <<files, pictures, page>>
    PROVE  PictureInv'
<1>1. PictureType'
  BY DEF PictureInv, PictureType
<1>2. \A q \in Pages : UpToDate(q)'
  BY DEF Answered, UpToDate
<1>3. OffersKept(query["public"])'
  BY PagesAre DEF PictureInv, OffersKept, Answered
<1>. QED BY <1>1, <1>2, <1>3 DEF PictureInv

(* A change that is still to be answered: no page has to show it yet.        *)
LEMMA EffectKeeps ==
    ASSUME PictureInv, NEW t, query' = query \/ query' = Picture!Touched(t),
           saves' \in Seq(Saving), DOMAIN saves' = DOMAIN saves, deletes' \in Seq(Deleting),
           files' \in Seq(Nat), \A i \in DOMAIN files' : files'[i] \in DOMAIN saves',
           pictures' \in Rows, UNCHANGED page, Unanswered'
    PROVE  PictureInv'
<1>1. /\ query' \in [Pages -> PageQuery]
      /\ LET q == query["public"]
             d == query'["public"]
         IN d.fetch = q.fetch /\ d.data = q.data /\ d.kept \subseteq q.kept /\ d.read = q.read
  <2>1. query \in [Pages -> PageQuery]
    BY DEF PictureInv, PictureType
  <2>2. CASE query' = query
    BY <2>1, <2>2
  <2>3. CASE query' = Picture!Touched(t)
    <3>1. query' = [q \in Pages |-> [query[q] EXCEPT !.kept = @ \ {t}]]
      BY <2>3 DEF Picture!Touched, Pages
    <3>. QED BY <2>1, <3>1, TouchedIs, PagesAre
  <2>. QED BY <2>2, <2>3
<1>2. PictureType'
  BY <1>1 DEF PictureInv, PictureType
<1>3. OffersKept(query["public"])'
  BY <1>1 DEF PictureInv, OffersKept
<1>. QED BY <1>2, <1>3 DEF PictureInv, UpToDate

LEMMA SavingTurns ==
    ASSUME saves \in Seq(Saving), NEW n \in DOMAIN saves,
           NEW v \in {"write", "upsert", "saved", "failed", "over"}
    PROVE  LET s == [saves EXCEPT ![n].at = v] IN
           /\ s \in Seq(Saving) /\ DOMAIN s = DOMAIN saves /\ s[n].at = v
           /\ saves[n] \in Saving /\ n \in Nat
<1>. DEFINE x == [saves[n] EXCEPT !.at = v]
            s == [saves EXCEPT ![n] = x]
<1>1. saves[n] \in Saving /\ n \in 1..Len(saves) /\ Len(saves) \in Nat
      /\ saves \in [1..Len(saves) -> Saving] /\ DOMAIN saves = 1..Len(saves)
  OBVIOUS
<1>2. x \in Saving /\ x.at = v
  BY <1>1 DEF Saving
<1>. HIDE DEF x
<1>3. s \in [1..Len(saves) -> Saving] /\ s[n] = x
  BY <1>1, <1>2
<1>4. s \in Seq(Saving) /\ DOMAIN s = DOMAIN saves
  BY <1>1, <1>3, SeqDef
<1>. QED BY <1>1, <1>2, <1>3, <1>4 DEF x

LEMMA DeletingTurns ==
    ASSUME deletes \in Seq(Deleting), NEW i \in DOMAIN deletes,
           NEW v \in {"sent", "gone", "failed", "over"}
    PROVE  LET s == [deletes EXCEPT ![i].at = v] IN
           /\ s \in Seq(Deleting) /\ DOMAIN s = DOMAIN deletes /\ s[i].at = v
           /\ deletes[i] \in Deleting
<1>. DEFINE x == [deletes[i] EXCEPT !.at = v]
            s == [deletes EXCEPT ![i] = x]
<1>1. deletes[i] \in Deleting /\ i \in 1..Len(deletes) /\ Len(deletes) \in Nat
      /\ deletes \in [1..Len(deletes) -> Deleting] /\ DOMAIN deletes = 1..Len(deletes)
  OBVIOUS
<1>2. x \in Deleting /\ x.at = v
  BY <1>1 DEF Deleting
<1>. HIDE DEF x
<1>3. s \in [1..Len(deletes) -> Deleting] /\ s[i] = x
  BY <1>1, <1>2
<1>4. s \in Seq(Deleting) /\ DOMAIN s = DOMAIN deletes
  BY <1>1, <1>3, SeqDef
<1>. QED BY <1>1, <1>2, <1>3, <1>4 DEF x

LEMMA SaveKeeps == ASSUME PictureInv, NEW t \in Labels, Picture!Save(t) PROVE PictureInv'
<1>1. /\ saves' = Append(saves, [tag |-> t, at |-> "write", from |-> page])
      /\ UNCHANGED <<files, pictures, deletes, page, query>>
  BY DEF Picture!Save
<1>2. /\ saves' \in Seq(Saving) /\ Len(saves') = Len(saves) + 1
      /\ \A n \in DOMAIN saves : n \in DOMAIN saves' /\ saves'[n] = saves[n]
  <2>1. [tag |-> t, at |-> "write", from |-> page] \in Saving /\ saves \in Seq(Saving)
    BY SavingTurns DEF PictureInv, PictureType, Saving
  <2>. QED BY <1>1, <2>1
<1>3. PictureType'
  BY <1>1, <1>2 DEF PictureInv, PictureType
<1>5. Current("public")' = Current("public") /\ Current("admin")' = Current("admin")
  BY <1>1, <1>2 DEF Current, PictureInv, PictureType, Picture!Listing, Picture!FileEntries,
     Picture!EveryFile, Picture!RowEntries
<1>6. Unanswered => Unanswered'
  BY <1>1, <1>2 DEF Unanswered
<1>7. \A q \in Pages : UpToDate(q)'
  BY <1>1, <1>5, <1>6, PagesAre DEF PictureInv, UpToDate
<1>. QED BY <1>1, <1>3, <1>7 DEF PictureInv, OffersKept

LEMMA WriteFileKeeps ==
    ASSUME PictureInv, NEW n \in DOMAIN saves, Picture!WriteFile(n)
    PROVE  PictureInv'
<1>1. PICK v \in {"upsert", "failed"} : saves' = [saves EXCEPT ![n].at = v]
  BY DEF Picture!WriteFile
<1>2. saves \in Seq(Saving) /\ files \in Seq(Nat) /\ n \in Nat
      /\ \A i \in DOMAIN files : files[i] \in DOMAIN saves
  BY DEF PictureInv, PictureType
<1>3. saves' \in Seq(Saving) /\ DOMAIN saves' = DOMAIN saves /\ saves'[n].at = v
  BY <1>1, <1>2, SavingTurns
<1>4. files' = files \/ files' = Append(files, n)
  BY DEF Picture!WriteFile
<1>5. files' \in Seq(Nat) /\ \A i \in DOMAIN files' : files'[i] \in DOMAIN saves'
  <2>1. CASE files' = files
    BY <1>2, <1>3, <2>1
  <2>2. CASE files' = Append(files, n)
    <3>1. /\ files' \in Seq(Nat) /\ DOMAIN files' = 1..(Len(files) + 1) /\ Len(files) \in Nat
          /\ DOMAIN files = 1..Len(files) /\ files'[Len(files) + 1] = n
          /\ \A i \in 1..Len(files) : files'[i] = files[i]
      BY <1>2, <2>2
    <3>. QED BY <1>2, <1>3, <3>1
  <2>. QED BY <1>4, <2>1, <2>2
<1>6. Unanswered'
  BY <1>1, <1>3 DEF Unanswered
<1>. QED BY <1>3, <1>5, <1>6, EffectKeeps DEF Picture!WriteFile, PictureInv, PictureType

LEMMA RowAdded ==
    ASSUME NEW R, NEW D, NEW f \in [D -> R], NEW t, NEW x \in R
    PROVE  [u \in D \cup {t} |-> IF u # t THEN f[u] ELSE x] \in [D \cup {t} -> R]
  OBVIOUS

LEMMA UpsertKeeps ==
    ASSUME PictureInv, NEW n \in DOMAIN saves, Picture!Upsert(n)
    PROVE  PictureInv'
<1>. DEFINE t == saves[n].tag
<1>1. PICK v \in {"saved", "failed"} : saves' = [saves EXCEPT ![n].at = v]
  BY DEF Picture!Upsert
<1>2. saves \in Seq(Saving) /\ files \in Seq(Nat) /\ n \in Nat /\ pictures \in Rows /\ t \in Labels
      /\ \A i \in DOMAIN files : files[i] \in DOMAIN saves
  BY SavingTurns DEF PictureInv, PictureType, Saving
<1>3. saves' \in Seq(Saving) /\ DOMAIN saves' = DOMAIN saves /\ saves'[n].at = v
  BY <1>1, <1>2, SavingTurns
<1>4. Unanswered'
  BY <1>1, <1>3 DEF Unanswered
<1>5. pictures' \in Rows
  <2>1. CASE pictures' = pictures
    BY <1>2, <2>1
  <2>2. CASE pictures' = [u \in DOMAIN pictures \cup {t} |->
                            IF u # t THEN pictures[u]
                            ELSE [id |-> IF t \in DOMAIN pictures THEN pictures[t].id ELSE n,
                                  image |-> n, time |-> Len(files)]]
    <3>1. DOMAIN pictures \subseteq Labels
          /\ pictures \in [DOMAIN pictures -> [id : Nat, image : Nat, time : Nat]]
      BY <1>2, RowsAre
    <3>2. pictures' \in [DOMAIN pictures \cup {t} -> [id : Nat, image : Nat, time : Nat]]
      <4>1. Len(files) \in Nat
        BY <1>2
      <4>2. ASSUME NEW u \in DOMAIN pictures PROVE pictures[u] \in [id : Nat, image : Nat, time : Nat]
        BY <3>1
      <4>. DEFINE x == [id |-> IF t \in DOMAIN pictures THEN pictures[t].id ELSE n,
                        image |-> n, time |-> Len(files)]
      <4>3. x \in [id : Nat, image : Nat, time : Nat]
        BY <1>2, <4>1, <4>2
      <4>4. pictures' = [u \in DOMAIN pictures \cup {t} |-> IF u # t THEN pictures[u] ELSE x]
        BY <2>2
      <4>. HIDE DEF t, x
      <4>. QED BY <3>1, <4>3, <4>4, RowAdded
    <3>3. DOMAIN pictures \cup {t} \in SUBSET Labels
      BY <1>2, <3>1
    <3>. QED BY <3>2, <3>3 DEF Rows
  <2>. QED BY <2>1, <2>2 DEF Picture!Upsert
<1>6. query' = query \/ query' = Picture!Touched(t)
  BY DEF Picture!Upsert
<1>. QED BY <1>2, <1>3, <1>4, <1>5, <1>6, EffectKeeps DEF Picture!Upsert, PictureInv, PictureType

LEMMA SaveReplyKeeps ==
    ASSUME PictureInv, NEW n \in DOMAIN saves, Picture!SaveReply(n)
    PROVE  PictureInv'
<1>1. saves \in Seq(Saving) /\ saves' = [saves EXCEPT ![n].at = "over"] /\ saves[n].from \in Pages
      /\ UNCHANGED <<files, pictures, deletes, page>>
  BY SavingTurns DEF Picture!SaveReply, PictureInv, PictureType, Saving
<1>2. saves' \in Seq(Saving) /\ DOMAIN saves' = DOMAIN saves
  BY <1>1, SavingTurns
<1>3. query' \in [Pages -> PageQuery] /\ \A q \in Pages : Answered(q, query'[q])
  BY <1>1, SucceedsIs, FailsIs DEF Picture!SaveReply, PictureInv
<1>. QED BY <1>1, <1>2, <1>3, ReplyKeeps DEF PictureInv, PictureType

LEMMA DeleteKeeps ==
    ASSUME PictureInv, NEW e \in query[page].data, Picture!Delete(e)
    PROVE  PictureInv'
<1>1. /\ deletes' = Append(deletes, [id |-> e.id, at |-> "sent", from |-> page])
      /\ UNCHANGED <<saves, files, pictures, page, query>>
  BY DEF Picture!Delete
<1>2. /\ deletes' \in Seq(Deleting)
      /\ \A i \in DOMAIN deletes : i \in DOMAIN deletes' /\ deletes'[i] = deletes[i]
  <2>1. e.id \in Nat /\ page \in Pages /\ deletes \in Seq(Deleting)
    <3>1. query[page] \in PageQuery /\ page \in Pages /\ deletes \in Seq(Deleting)
      BY DEF PictureInv, PictureType
    <3>2. e \in Entries
      BY <3>1 DEF PageQuery
    <3>. QED BY <3>1, <3>2 DEF Entries
  <2>2. [id |-> e.id, at |-> "sent", from |-> page] \in Deleting
    BY <2>1 DEF Deleting
  <2>. QED BY <1>1, <2>1, <2>2
<1>3. PictureType'
  BY <1>1, <1>2 DEF PictureInv, PictureType
<1>4. Current("public")' = Current("public") /\ Current("admin")' = Current("admin")
  BY <1>1 DEF Current, Picture!Listing, Picture!FileEntries, Picture!EveryFile, Picture!RowEntries
<1>5. Unanswered => Unanswered'
  BY <1>1, <1>2 DEF Unanswered
<1>6. \A q \in Pages : UpToDate(q)'
  BY <1>1, <1>4, <1>5, PagesAre DEF PictureInv, UpToDate
<1>. QED BY <1>1, <1>3, <1>6 DEF PictureInv, OffersKept

LEMMA DeleteRowKeeps ==
    ASSUME PictureInv, NEW i \in DOMAIN deletes, Picture!DeleteRow(i)
    PROVE  PictureInv'
<1>1. PICK v \in {"gone", "failed"} : deletes' = [deletes EXCEPT ![i].at = v]
  BY DEF Picture!DeleteRow
<1>2. deletes \in Seq(Deleting) /\ pictures \in Rows
  BY DEF PictureInv, PictureType
<1>3. deletes' \in Seq(Deleting) /\ DOMAIN deletes' = DOMAIN deletes /\ deletes'[i].at = v
  BY <1>1, <1>2, DeletingTurns
<1>4. Unanswered'
  BY <1>1, <1>3 DEF Unanswered
<1>5. PICK t : /\ query' = query \/ query' = Picture!Touched(t)
               /\ pictures' = pictures \/ pictures' = Picture!Restrict(pictures, DOMAIN pictures \ {t})
  BY DEF Picture!DeleteRow
<1>6. pictures' \in Rows
  <2>1. DOMAIN pictures \subseteq Labels
        /\ pictures \in [DOMAIN pictures -> [id : Nat, image : Nat, time : Nat]]
    BY <1>2, RowsAre
  <2>2. CASE pictures' = Picture!Restrict(pictures, DOMAIN pictures \ {t})
    <3>1. pictures' \in [DOMAIN pictures \ {t} -> [id : Nat, image : Nat, time : Nat]]
      BY <2>1, <2>2 DEF Picture!Restrict
    <3>2. DOMAIN pictures \ {t} \in SUBSET Labels
      BY <2>1
    <3>. QED BY <3>1, <3>2 DEF Rows
  <2>. QED BY <1>2, <1>5, <2>2
<1>. QED BY <1>3, <1>4, <1>5, <1>6, EffectKeeps DEF Picture!DeleteRow, PictureInv, PictureType

LEMMA DeleteReplyKeeps ==
    ASSUME PictureInv, NEW i \in DOMAIN deletes, Picture!DeleteReply(i)
    PROVE  PictureInv'
<1>1. deletes \in Seq(Deleting) /\ deletes' = [deletes EXCEPT ![i].at = "over"]
      /\ deletes[i].from \in Pages /\ UNCHANGED <<saves, files, pictures, page>>
  BY DeletingTurns DEF Picture!DeleteReply, PictureInv, PictureType, Deleting
<1>2. deletes' \in Seq(Deleting)
  BY <1>1, DeletingTurns
<1>3. query' \in [Pages -> PageQuery] /\ \A q \in Pages : Answered(q, query'[q])
  BY <1>1, SucceedsIs, FailsIs DEF Picture!DeleteReply, PictureInv
<1>. QED BY <1>1, <1>2, <1>3, ReplyKeeps DEF PictureInv, PictureType

LEMMA OpenKeeps == ASSUME PictureInv, NEW q \in Pages, Picture!Open(q) PROVE PictureInv'
<1>1. /\ q # page /\ page' = q /\ UNCHANGED <<saves, files, pictures, deletes>>
      /\ query' = query \/ query' = [query EXCEPT ![q] = Picture!Sent(@)]
      /\ query' = query => query[q].fetch # "none" \/ (q # "admin" /\ ~query[q].stale)
  <2>1. CASE Picture!Opens(q) /\ query[q].fetch = "none"
    <3>1. Picture!Sent(query[q]).fetch = "sent" /\ query' = [query EXCEPT ![q] = Picture!Sent(@)]
          /\ query'[q] = Picture!Sent(query[q])
      BY <2>1, SentIs DEF Picture!Open, PictureInv, PictureType
    <3>. QED BY <2>1, <3>1 DEF Picture!Open
  <2>2. CASE ~(Picture!Opens(q) /\ query[q].fetch = "none")
    BY <2>2 DEF Picture!Open, Picture!Opens
  <2>. QED BY <2>1, <2>2
<1>2. /\ query \in [Pages -> PageQuery] /\ query' \in [Pages -> PageQuery]
      /\ \A p \in Pages : query'[p] = query[p] \/ query'[p].fetch = "sent"
      /\ query'[q] = query[q] => query' = query
  BY <1>1, SentIs DEF PictureInv, PictureType
<1>3. PictureType'
  BY <1>1, <1>2 DEF PictureInv, PictureType
<1>4. Current("public")' = Current("public") /\ Current("admin")' = Current("admin")
      /\ Unanswered' = Unanswered
  BY <1>1 DEF Current, Picture!Listing, Picture!FileEntries, Picture!EveryFile, Picture!RowEntries,
     Unanswered
<1>5. ASSUME NEW p \in Pages PROVE UpToDate(p)'
  <2>1. CASE query'[p].fetch = "sent"
    BY <2>1 DEF UpToDate
  <2>2. CASE query'[p] = query[p] /\ p = q
    BY <1>1, <1>2, <1>4, <2>2, PagesAre DEF UpToDate, PictureInv
  <2>3. CASE query'[p] = query[p] /\ p # q
    BY <1>1, <1>4, <2>3, PagesAre DEF UpToDate, PictureInv
  <2>. QED BY <1>2, <2>1, <2>2, <2>3
<1>6. OffersKept(query["public"])'
  BY <1>2, PagesAre DEF OffersKept, PictureInv
<1>. QED BY <1>3, <1>5, <1>6 DEF PictureInv

(* A step of one query, its page and the tables being left alone.            *)
LEMMA FetchKeeps ==
    ASSUME PictureInv, NEW q \in Pages, NEW d \in PageQuery, query' = [query EXCEPT ![q] = d],
           UNCHANGED <<saves, files, pictures, deletes, page>>,
           ~d.missed => /\ d.fetch = "rows" => d.read = pictures
                        /\ d.fetch = "none" => query[q].read = pictures \/ Unanswered
                        /\ d.fetch = "none" => d.data = IF q = "admin" THEN Picture!RowEntries(query[q].read)
                                                        ELSE Picture!Listing(query[q].read),
           q = "public" => OffersKept(d)
    PROVE  PictureInv'
<1>1. /\ query \in [Pages -> PageQuery] /\ query' \in [Pages -> PageQuery]
      /\ query'[q] = d /\ \A p \in Pages \ {q} : query'[p] = query[p]
  BY DEF PictureInv, PictureType
<1>2. PictureType'
  BY <1>1 DEF PictureInv, PictureType
<1>3. Current("public")' = Current("public") /\ Current("admin")' = Current("admin")
      /\ Unanswered' = Unanswered
  BY DEF Current, Picture!Listing, Picture!FileEntries, Picture!EveryFile, Picture!RowEntries, Unanswered
<1>4. ASSUME NEW p \in Pages PROVE UpToDate(p)'
  <2>1. CASE p = q
    BY <1>1, <1>3, <2>1, PagesAre DEF UpToDate, Current
  <2>2. CASE p # q
    BY <1>1, <1>3, <2>2, PagesAre DEF UpToDate, PictureInv
  <2>. QED BY <2>1, <2>2
<1>5. OffersKept(query["public"])'
  <2>1. CASE q = "public"
    BY <1>1, <2>1 DEF OffersKept
  <2>2. CASE q # "public"
    BY <1>1, <2>2, PagesAre DEF OffersKept, PictureInv
  <2>. QED BY <2>1, <2>2
<1>. QED BY <1>2, <1>4, <1>5 DEF PictureInv

LEMMA ReadRowsKeeps == ASSUME PictureInv, NEW q \in Pages, Picture!ReadRows(q) PROVE PictureInv'
<1>. DEFINE L == DOMAIN pictures
            d == [query[q] EXCEPT !.fetch = "rows", !.read = pictures, !.kept = L]
<1>1. query[q] \in PageQuery /\ pictures \in Rows /\ L \in SUBSET Labels
  BY RowsAre DEF PictureInv, PictureType
<1>2. d \in PageQuery /\ d.fetch = "rows" /\ d.read = pictures /\ d.kept = L
  <2>. HIDE DEF L
  <2>. QED BY <1>1 DEF PageQuery
<1>3. query' = [query EXCEPT ![q] = d]
  BY DEF Picture!ReadRows
<1>. HIDE DEF d
<1>4. OffersKept(d)
  BY <1>2 DEF OffersKept
<1>. QED BY <1>2, <1>3, <1>4, FetchKeeps DEF Picture!ReadRows

LEMMA ListingKeeps == ASSUME PictureInv, NEW q \in Pages, Picture!Answer(q) PROVE PictureInv'
<1>. DEFINE D == IF q = "admin" THEN Picture!RowEntries(query[q].read) ELSE Picture!Listing(query[q].read)
            d == [query[q] EXCEPT !.fetch = "none", !.stale = FALSE, !.data = D]
<1>1. query[q] \in PageQuery /\ query[q].read \in Rows /\ query[q].fetch = "rows"
  BY DEF PictureInv, PictureType, PageQuery, Picture!Answer
<1>2. D \in SUBSET Entries
  BY <1>1, ListingTyped DEF PictureInv
<1>3. d \in PageQuery /\ d.fetch = "none" /\ d.data = D /\ d.missed = query[q].missed
      /\ d.read = query[q].read /\ d.kept = query[q].kept
  <2>. HIDE DEF D
  <2>. QED BY <1>1, <1>2 DEF PageQuery
<1>4. query' = [query EXCEPT ![q] = d]
  BY DEF Picture!Answer
<1>. HIDE DEF d
<1>5. ASSUME q = "public" PROVE OffersKept(d)
  <2>1. query[q].kept \subseteq DOMAIN query[q].read
    BY <1>1, <1>5 DEF PictureInv, OffersKept
  <2>. QED BY <1>1, <1>3, <1>5, <2>1, PickOwn DEF OffersKept
<1>6. ~query[q].missed => query[q].read = pictures \/ Unanswered
  BY <1>1 DEF PictureInv, UpToDate
<1>. QED BY <1>3, <1>4, <1>5, <1>6, FetchKeeps DEF Picture!Answer

LEMMA FetchFailsKeeps == ASSUME PictureInv, NEW q \in Pages, Picture!FetchFails(q) PROVE PictureInv'
<1>. DEFINE d == [query[q] EXCEPT !.fetch = "none", !.kept = {}, !.missed = TRUE]
<1>1. query[q] \in PageQuery
  BY DEF PictureInv, PictureType
<1>2. d \in PageQuery /\ d.fetch = "none" /\ d.missed /\ d.kept = {}
  BY <1>1 DEF PageQuery
<1>3. query' = [query EXCEPT ![q] = d]
  BY DEF Picture!FetchFails
<1>. HIDE DEF d
<1>4. OffersKept(d)
  BY <1>2 DEF OffersKept
<1>. QED BY <1>2, <1>3, <1>4, FetchKeeps DEF Picture!FetchFails

LEMMA PicturesInductive ==
    ASSUME PictureInv, [Picture!Next]_pictureVars
    PROVE  PictureInv'
<1>1. CASE UNCHANGED pictureVars
  <2>1. PictureType' /\ OffersKept(query["public"])'
    BY <1>1 DEF pictureVars, PictureInv, PictureType, OffersKept
  <2>2. \A q \in Pages : UpToDate(q)'
    BY <1>1 DEF pictureVars, PictureInv, UpToDate, Unanswered, Current, Picture!Listing,
       Picture!FileEntries, Picture!EveryFile, Picture!RowEntries
  <2>. QED BY <2>1, <2>2 DEF PictureInv
<1>2. CASE Picture!Next
  BY <1>2, SaveKeeps, WriteFileKeeps, UpsertKeeps, SaveReplyKeeps, DeleteKeeps, DeleteRowKeeps,
     DeleteReplyKeeps, OpenKeeps, ReadRowsKeeps, ListingKeeps, FetchFailsKeeps
     DEF Picture!Next, Pages
<1>. QED BY <1>1, <1>2

LEMMA BackgroundsShown == ASSUME PictureInv PROVE Picture!BackgroundsTrue
<1>1. ASSUME Picture!AtRest, ~query[page].missed
      PROVE  query[page].data = Current(page)
  <2>1. ~Unanswered
    BY <1>1 DEF Picture!AtRest, Unanswered
  <2>. QED BY <1>1, <2>1 DEF PictureInv, PictureType, UpToDate, Picture!AtRest
<1>. QED BY <1>1, PagesAre DEF Picture!BackgroundsTrue, Picture!PageShowsBackgrounds,
         Picture!TileShowsSaved, Current, PictureInv, OffersKept

-----------------------------------------------------------------------------
(* For any number of pages, tags, pictures and failures: a page at rest      *)
(* shows the table, and visitors are offered what administrators asked for,  *)
(* no older file and no hidden tag.                                          *)
THEOREM CurationStaysTrue == AdminSpec => CurationTrue
<1>. DEFINE Inv == TagInv /\ used \subseteq Labels /\ PictureInv
<1>1. AdminInit => Inv
  BY TagsBegin, PicturesBegin DEF AdminInit, Tagging!Init
<1>2. [AdminNext]_admin => [Tagging!Next]_tagVars /\ [Picture!Next]_pictureVars
  BY DEF AdminNext, Settling, TagStep, PictureStep, admin
<1>3. Inv /\ [AdminNext]_admin => Inv'
  BY <1>2, TagsInductive, PicturesInductive
<1>4. Inv /\ [AdminNext]_admin => [TagsOffered]_(Tagging!vars)
  BY <1>2, OfferedOnRequest
<1>5. Inv => Tagging!PageShowsRows /\ Picture!BackgroundsTrue
  <2>1. ASSUME Inv, NEW p \in calm, Tagging!Quiet(p) PROVE shown[p] = rows
    BY <2>1 DEF TagInv, PageCalm, Tagging!Quiet, Tagging!Busy, TagAsks
  <2>. QED BY <2>1, BackgroundsShown DEF Tagging!PageShowsRows
<1>. HIDE DEF Inv
<1>6. AdminSpec => []Inv
  BY <1>1, <1>3, PTL DEF AdminSpec
<1>7. AdminSpec => []Tagging!PageShowsRows /\ []Picture!BackgroundsTrue
  BY <1>5, <1>6, PTL
<1>8. AdminSpec => [][TagsOffered]_(Tagging!vars)
  BY <1>4, <1>6, PTL DEF AdminSpec
<1>. QED BY <1>7, <1>8, PTL DEF CurationTrue, Tagging!TagsTrue, Tagging!HiddenStays, TagsOffered
=============================================================================
