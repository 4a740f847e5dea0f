----------------------------- MODULE Heartbeat ------------------------------
(* The heartbeat of one Reticulum peer (bridge.py: _heartbeat_loop; the PING   *)
(* and PONG handlers of routing.py), and the long-drop watchdog that watches   *)
(* the same peer state (bridge.py: _long_drop_watchdog; protocol.py:           *)
(* PeerState.transition).  Time is counted in heartbeat intervals since the    *)
(* host booted, as time.monotonic does; the Link's no_data_for counts traffic  *)
(* in both directions.                                                         *)
EXTENDS Naturals

CONSTANTS
    Cadence,     \* rns_interval_multiplier
    Silence,     \* intervals without traffic a Link survives
    RoundTrip,   \* intervals within which a PING is normally answered
    DropAfter,   \* long_drop_threshold_seconds, in intervals
    Uptime,      \* the host's uptime when the peer connects first
    MaxClock     \* bound: intervals

VARIABLES
    clock,
    status,      \* "online", "handshaking", or why not: "silent", "closed"
    lastData,    \* when the Link last carried anything
    pingAt,      \* _pending_pings[peer], 0 if absent
    path,        \* the PING or PONG under way: {} or {<<kind, when the PING left>>}
    offlineSince, alerted,  \* of PeerState; 0 is None
    lastPing,    \* history: when the last PING left
    lost,        \* history: a PING or PONG was lost or late
    alerts       \* history: long-drop alerts since the peer was last online

beatVars == <<clock, status, lastData, pingAt, path, offlineSince, alerted,
              lastPing, lost, alerts>>
dropVars == <<offlineSince, alerted, alerts>>

TypeOK ==
    /\ clock \in Uptime..MaxClock /\ lastData \in Uptime..clock
    /\ status \in {"online", "handshaking", "silent", "closed"}
    /\ {pingAt, lastPing, offlineSince} \subseteq 0..clock
    /\ path \subseteq {"ping", "pong"} \X (Uptime..clock)
    /\ alerted \in BOOLEAN /\ lost \in BOOLEAN /\ alerts \in Nat

Init ==
    /\ clock = Uptime /\ lastData = Uptime
    /\ status = "online" /\ pingAt = 0 /\ path = {}
    /\ offlineSince = 0 /\ alerted = FALSE
    /\ lastPing = 0 /\ lost = FALSE /\ alerts = 0

(* transition(OFFLINE): the time of a drop is stamped once.                     *)
Drop(why, now) ==
    /\ status' = why
    /\ offlineSince' = IF offlineSince = 0 THEN now ELSE offlineSince
    /\ UNCHANGED <<alerted, alerts>>

Overdue(now) == \E m \in path : now - m[2] > RoundTrip

(* One round of the loop, an interval after the last.                           *)
SkipsPing(now) == now - pingAt < Cadence

Beat ==
    /\ clock < MaxClock
    /\ clock' = clock + 1
    /\ lost' = (lost \/ Overdue(clock'))
    /\ \/ /\ status # "online"
          /\ UNCHANGED <<status, lastData, pingAt, path, lastPing, dropVars>>
       \/ /\ status = "online" /\ clock' - lastData > Silence
          /\ Drop("silent", clock')
          /\ pingAt' = 0 /\ path' = {}
          /\ UNCHANGED <<lastData, lastPing>>
       \/ /\ status = "online" /\ clock' - lastData <= Silence
          /\ SkipsPing(clock')
          /\ UNCHANGED <<status, lastData, pingAt, path, lastPing, dropVars>>
       \/ /\ status = "online" /\ clock' - lastData <= Silence
          /\ ~SkipsPing(clock')
          /\ pingAt' = clock' /\ lastPing' = clock' /\ lastData' = clock'
          /\ path' = {<<"ping", clock'>>}
          /\ UNCHANGED <<status, dropVars>>

(* The peer answers a PING; the PONG comes in.  A Link does not reorder.        *)
Answer ==
    /\ \E m \in path : m[1] = "ping" /\ path' = {<<"pong", m[2]>>}
    /\ UNCHANGED <<clock, status, lastData, pingAt, dropVars, lastPing, lost>>

PongKeepsPing ==
    /\ status = "online"
    /\ \E m \in path : m[1] = "pong"
    /\ path' = {} /\ lastData' = clock
    /\ UNCHANGED <<clock, status, pingAt, dropVars, lastPing, lost>>

Pong ==
    /\ status = "online"
    /\ \E m \in path : m[1] = "pong"
    /\ path' = {} /\ pingAt' = 0 /\ lastData' = clock
    /\ UNCHANGED <<clock, status, dropVars, lastPing, lost>>

Lose ==
    /\ path # {}
    /\ path' = {} /\ lost' = TRUE
    /\ UNCHANGED <<clock, status, lastData, pingAt, dropVars, lastPing>>

(* A rekey forgets the PING it overtakes (handshake.py:199, 236).               *)
Rekey ==
    /\ status = "online" /\ pingAt # 0
    /\ pingAt' = 0 /\ lastData' = clock
    /\ UNCHANGED <<clock, status, path, dropVars, lastPing, lost>>

(* The Link closes; a PING it took along stays in _pending_pings.               *)
Close ==
    /\ status \in {"online", "handshaking"}
    /\ Drop("closed", clock)
    /\ path' = {} /\ lost' = (lost \/ path # {})
    /\ UNCHANGED <<clock, lastData, pingAt, lastPing>>

(* The peer is back: a handshake begins, and ends well or in Close.             *)
Reconnect ==
    /\ status \in {"silent", "closed"}
    /\ status' = "handshaking" /\ lastData' = clock
    /\ UNCHANGED <<clock, pingAt, path, dropVars, lastPing, lost>>

Established ==
    /\ status = "handshaking"
    /\ status' = "online" /\ lastData' = clock
    /\ offlineSince' = 0 /\ alerted' = FALSE /\ alerts' = 0
    /\ UNCHANGED <<clock, pingAt, path, lastPing, lost>>

(* _long_drop_watchdog                                                          *)
Watchdog ==
    /\ status # "online" /\ offlineSince # 0 /\ ~alerted
    /\ clock - offlineSince >= DropAfter
    /\ alerted' = TRUE /\ alerts' = alerts + 1
    /\ UNCHANGED <<clock, status, lastData, pingAt, path, offlineSince, lastPing, lost>>

Next ==
    \/ Beat \/ Answer \/ Pong \/ Lose \/ Rekey
    \/ Close \/ Reconnect \/ Established \/ Watchdog

Spec == Init /\ [][Next]_beatVars

(* A Link that nothing disturbs, with a peer that answers.                      *)
QuietSpec == Init /\ [][Beat \/ Answer \/ Pong]_beatVars

----------------------------------------------------------------------------
(* While every PING is answered in time, quiet Links are kept: a peer is        *)
(* declared silent only after a PING or PONG was lost or late.  The PING comes *)
(* round often enough only because the PONG handler forgets the last one: at   *)
(* the five intervals of the comment a quiet Link would never reach its second *)
(* PING.                                                                       *)
LiveKept == status = "silent" => lost

(* "Emits EVENT_PEER_DROPPED_LONG exactly once per drop": failed attempts to    *)
(* reconnect are not drops of their own.                                       *)
AlertedOnce == alerts <= 1

(* "PINGs at a 5x cadence to save LoRa bandwidth" (docs/RETICULUM.md:26; the    *)
(* comment of _heartbeat_loop, bridge.py:2189).                                *)
PingCadence == [][lastPing' # lastPing /\ lastPing # 0 => lastPing' - lastPing >= Cadence]_beatVars
============================================================================
