----------------------------- MODULE LiveUpdates -----------------------------
(***************************************************************************)
(* The sockets that carry events to the pages, at both ends: the hook of a  *)
(* page with its reconnecting client (frontend/src/hooks/useOnchainEvents.ts, *)
(* lib/ws.ts), and the server's handler with one Redis connection per socket *)
(* and its heartbeat (apps/api/src/websocket.ts, lib/wsHealth.ts).           *)
(***************************************************************************)
EXTENDS Integers, FiniteSets

CONSTANTS Sockets,     \* sockets the page can open, one after the other
          IdleCycles,  \* WS_IDLE_DROP_MS in ping cycles, 3
          MaxToggles,  \* bound on mounting and unmounting
          MaxFaults    \* bound on broken connections and failed calls

VARIABLES hook,     \* the page: [mounted, ws, timer]
          sock,     \* socket -> state at both ends
          tracked,  \* updatesSockets
          count,    \* wsHealth: connections
          toggles, faults \* counters of the bounds

vars == <<hook, sock, tracked, count, toggles, faults>>

NoSocket == "none"
SocketsAssumption ==
    /\ NoSocket \notin Sockets /\ IdleCycles \in Nat
    /\ MaxToggles \in Nat /\ MaxFaults \in Nat

Unused == [at |-> "free",      \* where the handler stands
           open |-> FALSE,     \* readyState at the server
           event |-> FALSE,    \* a close event waits to be emitted
           client |-> "none",  \* "on", "cut" (it does not know yet) or "off"
           alive |-> TRUE, idle |-> 0,
           redis |-> "none",   \* the subscriber: "none", "on" or "off"
           kept |-> FALSE]     \* history: its Redis connection is not given back

Init ==
    /\ hook = [mounted |-> FALSE, ws |-> NoSocket, timer |-> FALSE]
    /\ sock = [s \in Sockets |-> Unused]
    /\ tracked = {} /\ count = 0
    /\ toggles = 0 /\ faults = 0

Fault == faults < MaxFaults /\ faults' = faults + 1
Put(s, r) == sock' = [sock EXCEPT ![s] = r]

-----------------------------------------------------------------------------
(* The page. *)

\* connect(): a socket is made, or making it throws and a timer tries again.
Connect ==
    \/ \E s \in Sockets :
         /\ sock[s].at = "free"
         /\ Put(s, [Unused EXCEPT !.at = "dialing", !.client = "on"])
         /\ hook' = [mounted |-> TRUE, ws |-> s, timer |-> FALSE]
         /\ UNCHANGED faults
    \/ Fault /\ hook' = [mounted |-> TRUE, ws |-> NoSocket, timer |-> TRUE] /\ UNCHANGED sock

Mount ==
    /\ ~hook.mounted /\ toggles < MaxToggles /\ toggles' = toggles + 1
    /\ Connect
    /\ UNCHANGED <<tracked, count>>

TimerFires ==
    /\ hook.timer
    /\ Connect
    /\ UNCHANGED <<tracked, count, toggles>>

\* The server end of a socket is gone: its close event is emitted later.
Ended(r) == [r EXCEPT !.open = FALSE, !.event = r.event \/ r.open]

\* The cleanup of the effect: close().
Unmount ==
    /\ hook.mounted
    /\ hook' = [mounted |-> FALSE, ws |-> NoSocket, timer |-> FALSE]
    /\ IF hook.ws = NoSocket THEN UNCHANGED sock
       ELSE LET r == sock[hook.ws]
            IN  Put(hook.ws, IF r.at = "dialing" THEN [r EXCEPT !.at = "done", !.client = "off"]
                             ELSE IF r.client = "on" THEN [Ended(r) EXCEPT !.client = "off"]
                             ELSE r)
    /\ UNCHANGED <<tracked, count, toggles, faults>>

\* onclose: unless the page has closed it, try again in three seconds.
OnClose(s) ==
    hook' = IF hook.ws = s THEN [hook EXCEPT !.ws = NoSocket, !.timer = TRUE] ELSE hook

\* The connection cannot be made.
DialFails(s) ==
    /\ sock[s].at = "dialing" /\ Fault
    /\ OnClose(s)
    /\ Put(s, [sock[s] EXCEPT !.at = "done", !.client = "off"])
    /\ UNCHANGED <<tracked, count, toggles>>

\* The network breaks without a word; neither end knows.
Cut(s) ==
    /\ sock[s].client = "on" /\ sock[s].open /\ Fault
    /\ Put(s, [sock[s] EXCEPT !.client = "cut"])
    /\ UNCHANGED <<hook, tracked, count, toggles>>

\* The page learns that its socket is gone.
Learns(s) ==
    /\ sock[s].client = "cut" \/ (sock[s].client = "on" /\ sock[s].at # "dialing" /\ ~sock[s].open)
    /\ OnClose(s)
    /\ Put(s, [sock[s] EXCEPT !.client = "off"])
    /\ UNCHANGED <<tracked, count, toggles, faults>>

-----------------------------------------------------------------------------
(* The server.  A close event finds its handler only after both             *)
(* subscriptions have been awaited.                                         *)

Accept(s) ==
    /\ sock[s].at = "dialing"
    /\ Put(s, [sock[s] EXCEPT !.at = "subscribe", !.open = TRUE, !.redis = "on"])
    /\ tracked' = tracked \union {s}
    /\ count' = count + 1
    /\ UNCHANGED <<hook, toggles, faults>>

Subscribed(s) ==
    /\ sock[s].at \in {"subscribe", "psubscribe"}
    /\ Put(s, [sock[s] EXCEPT !.at = IF @ = "subscribe" THEN "psubscribe" ELSE "live"])
    /\ UNCHANGED <<hook, tracked, count, toggles, faults>>

\* The catch block: the socket is terminated, the subscriber is left.
SubscribeFails(s) ==
    /\ sock[s].at \in {"subscribe", "psubscribe"} /\ Fault
    /\ Put(s, [Ended(sock[s]) EXCEPT !.at = "failed", !.kept = TRUE])
    /\ UNCHANGED <<hook, tracked, count, toggles>>

Less(n) == IF n > 0 THEN n - 1 ELSE 0

\* Mutant of Closed: the subscriber is left to the garbage collector.
ClosedKeeping(s) ==
    IF sock[s].at = "live"
    THEN /\ tracked' = tracked \ {s}
         /\ count' = Less(count)
         /\ Put(s, [sock[s] EXCEPT !.event = FALSE])
    ELSE /\ Put(s, [sock[s] EXCEPT !.event = FALSE, !.kept = TRUE])
         /\ UNCHANGED <<tracked, count>>

\* The close event: unsubscribe, punsubscribe, quit. An event that comes before
\* its handler does nothing.
Closed(s) ==
    IF sock[s].at = "live"
    THEN /\ tracked' = tracked \ {s}
         /\ count' = Less(count)
         /\ Put(s, [sock[s] EXCEPT !.event = FALSE, !.redis = "off"])
    ELSE /\ Put(s, [sock[s] EXCEPT !.event = FALSE, !.kept = TRUE])
         /\ UNCHANGED <<tracked, count>>

CloseEvent(s) ==
    /\ sock[s].event
    /\ Closed(s)
    /\ UNCHANGED <<hook, toggles, faults>>

\* A quit that fails is logged, and its connection may stay.
QuitFails(s) ==
    /\ sock[s].event /\ sock[s].at = "live" /\ Fault
    /\ tracked' = tracked \ {s}
    /\ count' = Less(count)
    /\ Put(s, [sock[s] EXCEPT !.event = FALSE, !.kept = TRUE])
    /\ UNCHANGED <<hook, toggles>>

\* An error event comes before the close event and is counted as one too.
SocketError(s) ==
    /\ sock[s].at = "live" /\ sock[s].open /\ Fault
    /\ tracked' = tracked \ {s}
    /\ count' = Less(count)
    /\ Put(s, Ended(sock[s]))
    /\ UNCHANGED <<hook, toggles>>

RedisError(s) ==
    /\ sock[s].at = "live" /\ sock[s].open /\ Fault
    /\ Put(s, Ended(sock[s]))
    /\ UNCHANGED <<hook, tracked, count, toggles>>

Silent(r) == r.idle >= IdleCycles \/ ~r.alive

\* One ping cycle over all sockets.
Heartbeat ==
    LET beating == {s \in tracked : sock[s].open}
        drops   == {s \in beating : Silent(sock[s])}
    IN  /\ beating # {}
        /\ sock' = [s \in Sockets |->
                      IF s \in drops THEN Ended(sock[s])
                      ELSE IF s \in beating
                           THEN [sock[s] EXCEPT !.alive = FALSE, !.idle = @ + 1]
                           ELSE sock[s]]
        /\ tracked' = tracked \ drops
        /\ UNCHANGED <<hook, count, toggles, faults>>

Pong(s) ==
    /\ sock[s].open /\ sock[s].client = "on" /\ ~sock[s].alive
    /\ Put(s, [sock[s] EXCEPT !.alive = TRUE, !.idle = 0])
    /\ UNCHANGED <<hook, tracked, count, toggles, faults>>

-----------------------------------------------------------------------------
PageStep == \/ TimerFires
            \/ \E s \in Sockets : Learns(s)
ServerStep(s) == Accept(s) \/ Subscribed(s) \/ CloseEvent(s)
Broken(s) == \/ DialFails(s) \/ Cut(s) \/ SubscribeFails(s)
             \/ QuitFails(s) \/ SocketError(s) \/ RedisError(s)

Next == \/ PageStep \/ Mount \/ Unmount \/ Heartbeat
        \/ \E s \in Sockets : ServerStep(s) \/ Pong(s) \/ Broken(s)

Spec == Init /\ [][Next]_vars

\* Callbacks and timers run: the handler goes on, the heartbeat beats.
Fairness == (\A s \in Sockets : WF_vars(ServerStep(s))) /\ WF_vars(Heartbeat)

FairSpec == Spec /\ Fairness

-----------------------------------------------------------------------------
(* Properties. *)

(* A mounted page has a socket or a timer that will make one, never both, so *)
(* never two sockets of one page; an unmounted page has neither, whatever    *)
(* its connections did before.                                               *)
HookTidy ==
    /\ hook.mounted => (hook.ws # NoSocket) # hook.timer
    /\ hook.mounted \/ (hook.ws = NoSocket /\ ~hook.timer)
    /\ \A s \in Sockets : sock[s].client = "on" => hook.ws = s

(* A client that has left, or vanished without a word, is dropped, and its   *)
(* Redis connection is given back.  Exempt is a socket that ended before the *)
(* handler listened for its end, which keeps both, and one whose quit failed, *)
(* which keeps its connection.                                               *)
LeaverReleased ==
    \A s \in Sockets :
        (sock[s].redis = "on" /\ sock[s].client # "on")
            ~> (sock[s].redis = "off" /\ s \notin tracked) \/ sock[s].kept
=============================================================================
