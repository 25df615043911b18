----------------------------- MODULE MC_Reconcile -----------------------------
(* What runs beside the requests, for TLC: each behaviour is about one of the *)
(* reconciliation worker (Reconcile: a pool that is funded in block 1 and     *)
(* traded on in block 2), the sockets (LiveUpdates) and the watchlist of      *)
(* pools (LiveIngest).                                                        *)
EXTENDS Reconcile

\* Of LiveUpdates and of LiveIngest.
CONSTANTS Sockets, IdleCycles, MaxToggles, MaxDrops, Announced, Refreshes, MaxMissed

VARIABLES about,   \* what this behaviour is about
          faults   \* calls that failed, of the last two
VARIABLES hook, sock, tracked, count, toggles
VARIABLES pools, watchers, refresh, stage

Socket == INSTANCE LiveUpdates WITH MaxFaults <- MaxDrops
Ingest == INSTANCE LiveIngest WITH Pools <- Announced, MaxFaults <- MaxMissed

ASSUME SocketAssumption == Socket!SocketsAssumption

workerVars == vars
socketVars == <<hook, sock, tracked, count, toggles>>
ingestVars == <<pools, watchers, refresh, stage>>
background == <<about, faults, workerVars, socketVars, ingestVars>>

BackgroundInit ==
    /\ about \in {"worker", "sockets", "watchlist"}
    /\ Init /\ Socket!Init /\ Ingest!Init

Worker == /\ about = "worker" /\ Next
          /\ UNCHANGED <<about, faults, socketVars, ingestVars>>
SocketStep == /\ about = "sockets" /\ Socket!Next
              /\ UNCHANGED <<about, workerVars, ingestVars>>
Watchlist == /\ about = "watchlist" /\ Ingest!Next
             /\ UNCHANGED <<about, workerVars, socketVars>>
BackgroundNext == Worker \/ SocketStep \/ Watchlist

TwoBlocks == <<1, 2>>
OnePool == [e \in Events |-> CHOOSE p \in Pools : TRUE]

\* Reconcile's fairness, in the behaviours about it; the others have not begun
\* in those, and none of their steps is due.
WorkerFairness ==
    /\ WF_work(about = "worker" /\ Start) /\ WF_work(about = "worker" /\ Mine)
    /\ \A c \in Cycles : WF_work(about = "worker" /\ CycleStep(c))

BackgroundSpec ==
    /\ BackgroundInit /\ [][BackgroundNext]_background
    /\ WorkerFairness /\ Socket!Fairness /\ Ingest!Fairness

(* The cursor of the reconciliation worker reaches the safe head and stays.   *)
WorkerCatchesUp == about = "worker" => CatchesUp

(* Sockets are subscribed, counted and released as they come and go.          *)
SocketsTidy == []Socket!HookTidy /\ Socket!LeaverReleased

(* A pool that was created gets its watcher.                                  *)
PoolWatched == Ingest!PoolWatched
=============================================================================
