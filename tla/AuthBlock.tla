----------------------------- MODULE AuthBlock -----------------------------
(* The limits an incoming connection meets before its handshake: the token    *)
(* buckets of _handle_connection and the per-address lockout of ratelimit.py. *)
(* One source address; Conn are the connections it may have open at once.     *)
(* The lockout is consulted when a connection opens and fed when its proof    *)
(* fails, and the whole exchange of the handshake lies between the two.       *)
EXTENDS Naturals, Sequences, FiniteSets

CONSTANTS
    Conn,           \* connections of one address that can be open together
    Burst,          \* TokenBucket burst; one token refills per tick
    MaxFailures,    \* _auth_max_failures
    Window,         \* _auth_failure_window, in ticks
    BlockDuration,  \* _auth_block_duration, in ticks
    MaxClock        \* bound on time

VARIABLES
    clock,
    tokens,         \* tokens in the address's bucket
    failures,       \* _auth_failures[ip]: the times of its failures, oldest first
    right,          \* the peer's passphrase is the mesh's
    conn            \* conn[c]: "idle", "proving" or "refused" (blocked at the door)

authVars == <<clock, tokens, failures, right, conn>>

Init ==
    /\ clock = 0 /\ tokens = Burst /\ failures = << >>
    /\ right \in BOOLEAN
    /\ conn = [c \in Conn |-> "idle"]

(* The failures _is_ip_blocked keeps (they are in the order of their times, so *)
(* the old ones come first), and its verdict over them.                        *)
Stale == {i \in DOMAIN failures : clock - failures[i] >= Window}
Recent == SubSeq(failures, Cardinality(Stale) + 1, Len(failures))

BlockedLate(recent) ==
    /\ Len(recent) > MaxFailures
    /\ clock - recent[Len(recent)] < BlockDuration

Blocked(recent) ==
    /\ Len(recent) >= MaxFailures
    /\ clock - recent[Len(recent)] < BlockDuration

(* _handle_connection up to the challenge.  A connection without a token is    *)
(* closed before the lockout is looked at.                                     *)
Connect(c) ==
    /\ conn[c] = "idle"
    /\ tokens > 0
    /\ tokens' = tokens - 1
    /\ failures' = Recent
    /\ conn' = [conn EXCEPT ![c] = IF Blocked(Recent) THEN "refused" ELSE "proving"]
    /\ UNCHANGED <<clock, right>>

(* A wrong proof: _record_auth_failure.                                         *)
Fail(c) ==
    /\ conn[c] = "proving" /\ ~right
    /\ failures' = Append(failures, clock)
    /\ conn' = [conn EXCEPT ![c] = "idle"]
    /\ UNCHANGED <<clock, tokens, right>>

(* The handshake completes: _clear_ip_auth_history after the TOFU check.        *)
Succeed(c) ==
    /\ conn[c] = "proving" /\ right
    /\ failures' = << >>
    /\ conn' = [conn EXCEPT ![c] = "idle"]
    /\ UNCHANGED <<clock, tokens, right>>

(* The connection ends without a verdict (timeout, cut), or was refused.        *)
Leave(c) ==
    /\ conn[c] # "idle"
    /\ conn' = [conn EXCEPT ![c] = "idle"]
    /\ UNCHANGED <<clock, tokens, failures, right>>

(* The operator corrects the peer's passphrase.                                 *)
Correct ==
    /\ ~right
    /\ right' = TRUE
    /\ UNCHANGED <<clock, tokens, failures, conn>>

Tick ==
    /\ clock < MaxClock
    /\ clock' = clock + 1
    /\ tokens' = IF tokens < Burst THEN tokens + 1 ELSE Burst
    /\ UNCHANGED <<failures, right, conn>>

Next ==
    \/ \E c \in Conn : Connect(c) \/ Fail(c) \/ Succeed(c) \/ Leave(c)
    \/ Correct
    \/ Tick

Spec == Init /\ [][Next]_authVars

----------------------------------------------------------------------------
(* An address gets at most MaxFailures - 1 wrong guesses plus one per          *)
(* connection it holds open within any window: connections that were let in    *)
(* before the limit was reached may still fail after it, but no new one is let *)
(* in until the window has moved on.                                           *)
GuessesBounded ==
    Len(Recent) + Cardinality({c \in Conn : conn[c] = "proving"})
        <= MaxFailures - 1 + Cardinality(Conn)

(* "3 failed auth attempts from an IP in 5 minutes trigger a 5-minute block"   *)
(* (README.md:80): while fewer than BlockDuration ticks have passed since a    *)
(* failure that was the third within the window, the address is refused.       *)
TriggersBlock(i) ==
    \E j \in 1..i : i - j + 1 = MaxFailures /\ failures[i] - failures[j] < Window
BlockLasts ==
    \A i \in DOMAIN failures :
       TriggersBlock(i) /\ clock - failures[i] < BlockDuration => Blocked(Recent)

(* "a peer that briefly mismatched passphrases and corrected itself no longer  *)
(* stays blocked on the same source IP" (docs/RELEASE_NOTES_v0.9.4.md:257): no *)
(* connection made with the right passphrase is refused at the door.           *)
CorrectedAdmitted ==
    [][\A c \in Conn : conn[c] = "idle" /\ conn'[c] = "refused" => ~right]_authVars
============================================================================
