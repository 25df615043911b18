------------------------------ MODULE RpcLimiter ------------------------------
(***************************************************************************)
(* withRpcLimiter (apps/api/src/lib/rpcLimiter.ts): the token bucket that  *)
(* the indexer's calls to the node pass, and the backoff they share.  Time *)
(* is counted in ticks, Second of which make a second; a timer fires when  *)
(* it is due or later.                                                     *)
(***************************************************************************)
EXTENDS Integers

CONSTANTS Callers,      \* slots of calls at one time
          Second,       \* ticks in a second
          maxQps, burst, backoffBase, backoffMax,
          MaxTime       \* bound on the clock

LimiterAssumption ==
    /\ {Second, maxQps, burst, backoffBase} \subseteq Nat \ {0}
    /\ backoffMax \in Nat /\ backoffMax >= backoffBase
    /\ MaxTime \in Nat

VARIABLES now, tokens, lastRefill, currentBackoff,
          call,   \* what each call does, and when its timer is due
          sent    \* history: calls sent up to each time

bucket == <<tokens, lastRefill>>
vars == <<now, bucket, currentBackoff, call, sent>>

Smaller(a, b) == IF a < b THEN a ELSE b
Larger(a, b) == IF a > b THEN a ELSE b
Idle == [pc |-> "idle", due |-> 0]

Init ==
    /\ now = 0
    /\ tokens = burst /\ lastRefill = 0 /\ currentBackoff = backoffBase
    /\ call = [c \in Callers |-> Idle]
    /\ sent = [t \in 0..MaxTime |-> 0]

Tick == /\ now < MaxTime /\ now' = now + 1
        /\ sent' = [sent EXCEPT ![now + 1] = sent[now]]
        /\ UNCHANGED <<bucket, currentBackoff, call>>

Due(c) == call[c].due <= now

Begin(c) == /\ call[c].pc = "idle"
            /\ call' = [call EXCEPT ![c] = [pc |-> "acquire", due |-> now]]
            /\ UNCHANGED <<now, bucket, currentBackoff, sent>>

Gained == ((now - lastRefill) * maxQps) \div Second

\* Mutant of Refilled: the bucket has no rim.
RefilledOver == tokens + Gained

\* refillTokens: what is more than the bucket holds is lost, and so is the part
\* of a token that has gathered when the clock of the bucket is moved.
Refilled == Smaller(burst, tokens + Gained)

\* acquireToken and the call itself, without an await in between.
Send(c) ==
    /\ call[c].pc = "acquire" /\ Due(c) /\ Refilled > 0
    /\ tokens' = Refilled - 1
    /\ lastRefill' = IF Gained > 0 THEN now ELSE lastRefill
    /\ call' = [call EXCEPT ![c] = [pc |-> "sent", due |-> now]]
    /\ sent' = [sent EXCEPT ![now] = @ + 1]
    /\ UNCHANGED <<now, currentBackoff>>

Wait(c) ==
    /\ call[c].pc = "acquire" /\ Due(c) /\ Refilled = 0
    /\ call' = [call EXCEPT ![c].due = now + Larger(1, Second \div maxQps)]
    /\ UNCHANGED <<now, bucket, currentBackoff, sent>>

\* recordSuccess ends the backoff of all.
Succeed(c) ==
    /\ call[c].pc = "sent"
    /\ call' = [call EXCEPT ![c] = Idle]
    /\ currentBackoff' = backoffBase
    /\ UNCHANGED <<now, bucket, sent>>

\* An error that is not about the rate is the caller's.
Fail(c) ==
    /\ call[c].pc = "sent"
    /\ call' = [call EXCEPT ![c] = Idle]
    /\ UNCHANGED <<now, bucket, currentBackoff, sent>>

\* applyBackoff, then the call is tried again with a token of its own.
Limited(c) ==
    /\ call[c].pc = "sent"
    /\ call' = [call EXCEPT ![c] = [pc |-> "acquire", due |-> now + currentBackoff]]
    /\ currentBackoff' = Smaller(backoffMax, currentBackoff * 2)
    /\ UNCHANGED <<now, bucket, sent>>

Next ==
    \/ Tick
    \/ \E c \in Callers :
         \/ Begin(c) \/ Send(c) \/ Wait(c)
         \/ Succeed(c) \/ Fail(c) \/ Limited(c)

Spec == Init /\ [][Next]_vars

-----------------------------------------------------------------------------
(* Properties. *)

\* ceil(n / d)
CeilDiv(n, d) == (n + d - 1) \div d

SentBefore(t) == IF t = 0 THEN 0 ELSE sent[t - 1]

(* In any stretch of time the node is sent no more calls than the bucket     *)
(* holds and what the rate adds meanwhile, rounded up: callers that wait,    *)
(* time out of their backoff and are tried again together do not exceed it,  *)
(* and time without calls saves up no more than a bucket.                    *)
RateKept ==
    \A from \in 0..now :
        sent[now] - SentBefore(from)
            <= burst + CeilDiv((now - from) * maxQps, Second)
===============================================================================
