----------------------------- MODULE Lifecycle ------------------------------
(* Start and stop of a daemon (bridge.py: _start, _spawn_bg, shutdown, run)    *)
(* and of the Agent SDK that drives one from another thread (agent.py: run,    *)
(* stop, _drain_and_close_loop), with the latch of the message store's open    *)
(* and close (store.py).                                                       *)
EXTENDS Naturals, Sequences

CONSTANTS
    Loop,        \* the tracked background loops
    MaxSignals,  \* bound: SIGINT or SIGTERM
    MaxStarts    \* bound: starts of one instance

VARIABLES
    mode,        \* "daemon" (foreground) or "agent"
    loop,        \* the event loop: "none", "running", "closed"
    bg,          \* each background loop: "run", "cancelled", "done"
    up,          \* what shutdown takes down one after the other
    latch,       \* _shutting_down
    pc,          \* the shutdown coroutine: "none", "gather", "teardown", "done"
    stopper,     \* Agent.stop: "none", "waiting", "stopped"
    store,       \* "open" or "closed"
    opened,      \* MessageStore._opened
    signals, starts

lifeVars == <<mode, loop, bg, up, latch, pc, stopper, store, opened, signals, starts>>

Resources == <<"gui", "peers", "lxmf", "reticulum", "mdns", "server">>

TypeOK ==
    /\ mode \in {"daemon", "agent"} /\ loop \in {"none", "running", "closed"}
    /\ bg \in [Loop -> {"run", "cancelled", "done"}]
    /\ up \in {SubSeq(Resources, i, Len(Resources)) : i \in 1..Len(Resources) + 1}
    /\ latch \in BOOLEAN /\ opened \in BOOLEAN
    /\ pc \in {"none", "gather", "teardown", "done"}
    /\ stopper \in {"none", "waiting", "stopped"} /\ store \in {"open", "closed"}
    /\ signals \in 0..MaxSignals /\ starts \in 0..MaxStarts

Init ==
    /\ mode \in {"daemon", "agent"}
    /\ loop = "none" /\ bg = [t \in Loop |-> "done"] /\ up = << >>
    /\ latch = FALSE /\ pc = "none" /\ stopper = "none"
    /\ store = "closed" /\ opened = FALSE
    /\ signals = 0 /\ starts = 0

(* MessageStore.open returns at once when it has been open before.             *)
OpenStore ==
    /\ opened' = TRUE
    /\ store' = IF opened THEN store ELSE "open"

(* _start, run to completion before a signal handler is installed.             *)
Start ==
    /\ loop # "running" /\ starts < MaxStarts
    /\ OpenStore
    /\ loop' = "running" /\ starts' = starts + 1
    /\ bg' = [t \in Loop |-> "run"] /\ up' = Resources
    /\ latch' = FALSE /\ pc' = "none" /\ stopper' = "none"
    /\ UNCHANGED <<mode, signals>>

(* A background loop returns, by itself (a switched-off watchdog, the end of   *)
(* "while self._running") or because it was cancelled.                         *)
LoopEnds(t) ==
    /\ loop = "running" /\ bg[t] # "done"
    /\ bg' = [bg EXCEPT ![t] = "done"]
    /\ UNCHANGED <<mode, loop, up, latch, pc, stopper, store, opened, signals, starts>>

----------------------------------------------------------------------------
(* shutdown: the latch, then cancel, up to the gather.                         *)
Begin ==
    /\ latch' = TRUE /\ pc' = "gather"
    /\ bg' = [t \in Loop |-> IF bg[t] = "done" THEN "done" ELSE "cancelled"]

GatheredAtOnce ==
    /\ loop = "running" /\ pc = "gather"
    /\ pc' = "teardown"
    /\ UNCHANGED <<mode, loop, bg, up, latch, stopper, store, opened, signals, starts>>

Gathered ==
    /\ loop = "running" /\ pc = "gather"
    /\ \A t \in Loop : bg[t] = "done"
    /\ pc' = "teardown"
    /\ UNCHANGED <<mode, loop, bg, up, latch, stopper, store, opened, signals, starts>>

(* Every wait on the way is bounded and every failure passed over.             *)
TakeDown ==
    /\ loop = "running" /\ pc = "teardown" /\ up # << >>
    /\ up' = Tail(up)
    /\ UNCHANGED <<mode, loop, bg, latch, pc, stopper, store, opened, signals, starts>>

CloseStore ==
    /\ loop = "running" /\ pc = "teardown" /\ up = << >>
    /\ store' = "closed" /\ pc' = "done"
    /\ UNCHANGED <<mode, loop, bg, up, latch, stopper, opened, signals, starts>>

(* run: a signal schedules _shutdown_and_stop, whose finally stops the loop;   *)
(* run_forever returns and the loop is closed with whatever is pending on it.  *)
Signal ==
    /\ mode = "daemon" /\ loop = "running" /\ signals < MaxSignals
    /\ signals' = signals + 1
    /\ IF latch
       THEN loop' = "closed" /\ UNCHANGED <<bg, latch, pc>>
       ELSE Begin /\ UNCHANGED loop
    /\ UNCHANGED <<mode, up, stopper, store, opened, starts>>

StopLoop ==
    /\ mode = "daemon" /\ loop = "running" /\ pc = "done"
    /\ loop' = "closed"
    /\ UNCHANGED <<mode, bg, up, latch, pc, stopper, store, opened, signals, starts>>

----------------------------------------------------------------------------
(* Agent.stop, in the caller's thread: shutdown is given five seconds, then    *)
(* the loop is stopped either way ...                                          *)
AgentStop ==
    /\ mode = "agent" /\ loop = "running" /\ stopper = "none"
    /\ stopper' = "waiting"
    /\ Begin
    /\ UNCHANGED <<mode, loop, up, store, opened, signals, starts>>

(* ... and drained: what is still pending, the shutdown included, is           *)
(* cancelled, and the store is closed in its stead.                            *)
Drain ==
    /\ mode = "agent" /\ loop = "running" /\ stopper = "waiting"
    /\ stopper' = "stopped" /\ loop' = "closed"
    /\ bg' = [t \in Loop |-> "done"]
    /\ store' = "closed"
    /\ UNCHANGED <<mode, up, latch, pc, opened, signals, starts>>

Next ==
    \/ Start \/ Gathered \/ TakeDown \/ CloseStore
    \/ Signal \/ StopLoop \/ AgentStop \/ Drain
    \/ \E t \in Loop : LoopEnds(t)

ShutdownStep == Gathered \/ TakeDown \/ CloseStore \/ StopLoop

(* Tasks are resumed as long as the loop runs; Agent.stop's waits are bounded. *)
Fairness ==
    /\ WF_lifeVars(ShutdownStep)
    /\ WF_lifeVars(Drain)
    /\ \A t \in Loop : WF_lifeVars(bg[t] = "cancelled" /\ LoopEnds(t))

Spec == Init /\ [][Next]_lifeVars /\ Fairness

----------------------------------------------------------------------------
(* "Cancel the long-lived background loops BEFORE tearing down the DB /        *)
(* transports they touch": none is alive once the store is closed or a         *)
(* transport is down, and the event loop ends only with the store closed,      *)
(* whose worker thread would otherwise keep the process from exiting.          *)
CleanExit ==
    /\ pc # "none" /\ (store = "closed" \/ up # Resources) =>
           \A t \in Loop : bg[t] = "done"
    /\ loop = "closed" => store = "closed"

(* A stop that was asked for ends.                                             *)
StopEnds == pc # "none" ~> loop = "closed"

(* "so an instance that is started again after a prior shutdown (start ->      *)
(* shutdown -> start)" works (bridge.py:1054): a daemon that serves has an     *)
(* open store.                                                                 *)
ServesFromStore == loop = "running" /\ pc = "none" => store = "open"
============================================================================
