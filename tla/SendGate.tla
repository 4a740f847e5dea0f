------------------------------ MODULE SendGate ------------------------------
(* The way of a message from send_message to one peer's socket (routing.py:    *)
(* _send_message_inner, _send_frame; ratelimit.py: _gate_peer_bandwidth;       *)
(* protocol.py: TokenBucket, ReplayGuard.check).  A frame takes its sequence   *)
(* number and its socket first, may then sleep in the bandwidth gate while the *)
(* bucket refills, and is sent on the socket it started with.  Bytes are       *)
(* counted in units of the bucket, time in ticks; a sent frame arrives at once *)
(* and in order, since one WebSocket carries them all.                         *)
EXTENDS Integers, FiniteSets

CONSTANTS
    Msg,
    Size,        \* bytes of the serialized frame of each message
    Rate, Burst, \* tokens per tick, capacity
    MaxWait,     \* longest sleep in the gate
    OneSender,   \* TRUE: the application awaits each send before the next
    Faulty,      \* TRUE: sockets may die, stall and be replaced
    Routed,      \* TRUE: the mesh router knows another next hop to the peer
    MaxClock,    \* bound: ticks
    MaxSession   \* bound: connections

VARIABLES
    clock,
    tokens, refilled,  \* TokenBucket._tokens, ._last_refill
    link,        \* the session in ws_clients, 0 if there is none
    latest,      \* the last session established
    alive,       \* its socket still works
    nextSeq,     \* the peer state's sequence counter
    task,        \* the send_message call of each message, see NewTask
    highest,     \* the receiver's last_seq in the latest session
    fate,        \* history: what became of each message
    spent        \* history: the bytes put on the wire, each frame clamped to Burst

gateVars == <<clock, tokens, refilled, link, latest, alive, nextSeq, task, highest, fate, spent>>
bucketVars == <<tokens, refilled>>

NewTask == [pc |-> "new", session |-> 0, seq |-> 0, until |-> 0]
Fates == {"none", "received", "refused", "dropped", "failed", "routed", "queued"}

TypeOK ==
    /\ clock \in 0..MaxClock /\ tokens \in 0..Burst /\ refilled \in 0..clock
    /\ latest \in 1..MaxSession /\ link \in {0, latest} /\ alive \in BOOLEAN
    /\ nextSeq \in Nat /\ highest \in Nat /\ spent \in Nat
    /\ task \in [Msg -> [pc : {"new", "asleep", "stuck", "done"}, session : 0..MaxSession,
                         seq : Nat, until : Nat]]
    /\ fate \in [Msg -> Fates]

Init ==
    /\ clock = 0 /\ tokens = Burst /\ refilled = 0
    /\ link = 1 /\ latest = 1 /\ alive = TRUE
    /\ nextSeq = 1 /\ highest = 0 /\ spent = 0
    /\ task = [m \in Msg |-> NewTask]
    /\ fate = [m \in Msg |-> "none"]

AtMost(a, b) == IF a < b THEN a ELSE b

(* TokenBucket.wait_time, in whole ticks; it changes nothing.                  *)
Available == AtMost(Burst, tokens + (clock - refilled) * Rate)
WaitTime(cost) == IF Available >= cost THEN 0 ELSE (cost - Available + Rate - 1) \div Rate

(* TokenBucket.consume; the gate ignores whether there were enough tokens.     *)
ConsumeRefillsTwice(cost) ==
    /\ refilled' = refilled
    /\ tokens' = IF Available >= cost THEN Available - cost ELSE Available

Consume(cost) ==
    /\ refilled' = clock
    /\ tokens' = IF Available >= cost THEN Available - cost ELSE Available

(* "clamp to burst so we don't deadlock waiting for an impossible refill"      *)
Cost(m) == AtMost(Size[m], Burst)

----------------------------------------------------------------------------
(* The peer's replay guard: strictly increasing within a session.              *)
Arrive(m, seq) ==
    /\ highest' = IF seq > highest THEN seq ELSE highest
    /\ fate' = [fate EXCEPT ![m] = IF seq > highest THEN "received" ELSE "refused"]

(* The gate is passed: ws.send on the socket the frame started with puts it on *)
(* the wire, or fails or stalls, which SendFails reports.                      *)
Works(t) == t.session = latest /\ alive

Transmit(m, t) ==
    /\ Consume(Cost(m))
    /\ \/ /\ Works(t)
          /\ Arrive(m, t.seq)
          /\ spent' = spent + Cost(m)
          /\ task' = [task EXCEPT ![m] = [t EXCEPT !.pc = "done"]]
       \/ /\ Faulty
          /\ task' = [task EXCEPT ![m] = [t EXCEPT !.pc = "stuck"]]
          /\ UNCHANGED <<highest, fate, spent>>

Awaited(m) == OneSender => \A o \in Msg \ {m} : task[o].pc \in {"new", "done"}

(* send_message up to its first suspension: direct if there is a session.      *)
SendDirect(m) ==
    /\ task[m].pc = "new" /\ Awaited(m)
    /\ link # 0
    /\ nextSeq' = nextSeq + 1
    /\ LET wait == WaitTime(Cost(m))
           t == [pc |-> "asleep", session |-> link, seq |-> nextSeq, until |-> clock + wait]
       IN \/ /\ wait > MaxWait
             /\ task' = [task EXCEPT ![m].pc = "done"]
             /\ fate' = [fate EXCEPT ![m] = "dropped"]
             /\ UNCHANGED <<bucketVars, highest, spent>>
          \/ /\ wait \in 1..MaxWait
             /\ task' = [task EXCEPT ![m] = t]
             /\ UNCHANGED <<bucketVars, highest, fate, spent>>
          \/ /\ wait = 0
             /\ Transmit(m, t)
    /\ UNCHANGED <<clock, link, latest, alive>>

(* ... else over another hop, else into the offline queue.                     *)
SendElse(m) ==
    /\ task[m].pc = "new" /\ Awaited(m)
    /\ link = 0
    /\ task' = [task EXCEPT ![m].pc = "done"]
    /\ fate' = [fate EXCEPT ![m] = IF Routed THEN "routed" ELSE "queued"]
    /\ UNCHANGED <<clock, bucketVars, link, latest, alive, nextSeq, highest, spent>>

Wake(m) ==
    /\ task[m].pc = "asleep" /\ clock >= task[m].until
    /\ Transmit(m, task[m])
    /\ UNCHANGED <<clock, link, latest, alive, nextSeq>>

(* ConnectionClosed, any other error, or 5 seconds without progress: the       *)
(* connection that is registered NOW is dropped, and send_message returns as   *)
(* if the message had gone out.                                                *)
SendFails(m) ==
    /\ task[m].pc = "stuck"
    /\ task' = [task EXCEPT ![m].pc = "done"]
    /\ fate' = [fate EXCEPT ![m] = "failed"]
    /\ link' = 0
    /\ UNCHANGED <<clock, bucketVars, latest, alive, nextSeq, highest, spent>>

----------------------------------------------------------------------------
SocketDies ==
    /\ Faulty /\ alive
    /\ alive' = FALSE
    /\ UNCHANGED <<clock, bucketVars, link, latest, nextSeq, task, highest, fate, spent>>

(* The receive loop ends and unregisters its connection.                       *)
LinkLost ==
    /\ ~alive /\ link = latest
    /\ link' = 0
    /\ UNCHANGED <<clock, bucketVars, latest, alive, nextSeq, task, highest, fate, spent>>

(* A handshake: a fresh session and fresh counters, over the same bucket.      *)
Reconnect ==
    /\ link = 0 /\ latest < MaxSession
    /\ latest' = latest + 1 /\ link' = latest' /\ alive' = TRUE
    /\ nextSeq' = 1 /\ highest' = 0
    /\ UNCHANGED <<clock, bucketVars, task, fate, spent>>

Tick ==
    /\ clock < MaxClock
    /\ clock' = clock + 1
    /\ UNCHANGED <<bucketVars, link, latest, alive, nextSeq, task, highest, fate, spent>>

SendStep(m) == SendDirect(m) \/ SendElse(m) \/ Wake(m) \/ SendFails(m)

Next ==
    \/ \E m \in Msg : SendStep(m)
    \/ SocketDies \/ LinkLost \/ Reconnect \/ Tick

Spec == Init /\ [][Next]_gateVars

----------------------------------------------------------------------------
(* The throttle holds: whatever sleeps, drops and reconnects came between, the *)
(* peer was sent no more than a full bucket and what has refilled since.  With *)
(* several senders asleep at once each pays from tokens the others count on as *)
(* well, so it takes an application that awaits its sends.                     *)
RateKept == spent <= Burst + Rate * clock

(* A frame that overtakes a sleeping one makes the peer refuse it as a replay;  *)
(* it too takes two concurrent senders.                                        *)
NoneOvertaken == \A m \in Msg : fate[m] # "refused"

(* send_message: "Direct -> routed -> queued, in that order"                   *)
(* (routing.py:862), with "Direct send failed to %s, trying mesh" in between   *)
(* (routing.py:1042): a message it has returned for is with the peer, with     *)
(* another hop or in the queue.                                                *)
SomewhereKept ==
    \A m \in Msg : task[m].pc = "done" => fate[m] \in {"received", "refused", "routed", "queued"}
============================================================================
