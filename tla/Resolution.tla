------------------------------ MODULE Resolution ------------------------------
(***************************************************************************)
(* What the resolution contracts promise together: a condition is prepared *)
(* once, receives one result, and keeps it.                                *)
(***************************************************************************)
CONSTANTS Conditions,  \* condition ids
          Results      \* payout vectors that a report may set

VARIABLE status  \* condition -> "unprepared", "open" or its result

Init == status = [c \in Conditions |-> "unprepared"]

Prepare(c) ==
    /\ status[c] = "unprepared"
    /\ status' = [status EXCEPT ![c] = "open"]

Report(c, r) ==
    /\ status[c] = "open"
    /\ status' = [status EXCEPT ![c] = r]

Next == \E c \in Conditions : Prepare(c) \/ \E r \in Results : Report(c, r)

Spec == Init /\ [][Next]_status
=============================================================================
