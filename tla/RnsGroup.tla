------------------------------ MODULE RnsGroup ------------------------------
(***************************************************************************)
(* Mesh-wide broadcast in two phases (bridge.py, reticulum_transport.py):  *)
(* one packet to the shared GROUP destination, which the listeners of the  *)
(* sender's segment hear, and one GROUP_BROADCAST frame to every online    *)
(* peer that is thought to take part.  A receiver hears a payload along    *)
(* both ways, and copies are lost, repeated and reordered; the cache of    *)
(* digests is what keeps it from handling one twice.                       *)
(***************************************************************************)
EXTENDS Integers, Sequences, FiniteSets

CONSTANTS
    Node,
    Payload,
    Online,       \* the peers each node has online
    Segment,      \* the nodes that hear each other's GROUP packets, the sender too
    DedupMax,     \* _GROUP_DEDUP_MAX
    DedupTTL,     \* _GROUP_DEDUP_TTL
    MaxClock      \* bound on time

VARIABLES
    discovered,   \* _rns_discovered: node -> other node -> what it announced
    air,          \* copies on their way: [to, p]
    seen,         \* _group_seen: digests with the time of their first copy
    clock,
    handledAt,    \* history: when a node last handled a payload, -1 for never
    heardSince    \* history: other payloads heard since the last copy of one

groupVars == <<discovered, air, seen, clock, handledAt, heardSince>>

Init ==
    /\ discovered = [n \in Node |-> [m \in Node |-> "nothing"]]
    /\ air = {}
    /\ seen = [n \in Node |-> <<>>]
    /\ clock = 0
    /\ handledAt = [n \in Node |-> [p \in Payload |-> -1]]
    /\ heardSince = [n \in Node |-> [p \in Payload |-> {}]]

\* received_announce and _on_rns_peer_announced; a node skips its own.
Announced(n, m, features) ==
    /\ n # m
    /\ discovered[n][m] # features
    /\ discovered' = [discovered EXCEPT ![n][m] = features]
    /\ UNCHANGED <<air, seen, clock, handledAt, heardSince>>

\* The second phase goes to the announced participants, or to every online peer
\* while none has been heard of.
FanOut(n) ==
    LET group == {m \in Node : discovered[n][m] = "group"} IN
    IF group = {} THEN Online[n] ELSE Online[n] \cap group

\* broadcast_via_rns_group, with or without a working GROUP destination.  The
\* sender's own digest is not recorded: an echo counts as a first copy.
Broadcast(n, p, destination) ==
    /\ LET heard == FanOut(n) \cup (IF destination /\ n \in Segment THEN Segment ELSE {}) IN
       air' = air \cup {[to |-> m, p |-> p] : m \in heard}
    /\ air' # air
    /\ UNCHANGED <<discovered, seen, clock, handledAt, heardSince>>

-----------------------------------------------------------------------------
Stale(e) == clock - e.at > DedupTTL

\* The oldest entries go while they are stale; the first fresh one stops it.
Leading(s) == {i \in 1 .. Len(s) : \A j \in 1 .. i : Stale(s[j])}
Expired(s) == SubSeq(s, Cardinality(Leading(s)) + 1, Len(s))

\* A repeated digest moves to the end with the time it had.
TouchedInPlace(s, p) == s
Touched(s, p) ==
    LET i == CHOOSE i \in 1 .. Len(s) : s[i].p = p
    IN  [j \in 1 .. Len(s) |-> s[IF j < i THEN j ELSE IF j < Len(s) THEN j + 1 ELSE i]]

\* A new digest, and the size cap.
Added(s, p) ==
    LET t == Append(s, [p |-> p, at |-> clock])
    IN  IF Len(t) > DedupMax THEN Tail(t) ELSE t

\* _on_rns_group_message for a copy of either phase.  The copy may come again,
\* or never.
Receive(c) ==
    LET n == c.to
        s == Expired(seen[n])
        dup == \E i \in 1..Len(s) : s[i].p = c.p
    IN  /\ c \in air
        /\ seen' = [seen EXCEPT ![n] = IF dup THEN Touched(s, c.p) ELSE Added(s, c.p)]
        /\ handledAt' = IF dup THEN handledAt ELSE [handledAt EXCEPT ![n][c.p] = clock]
        /\ heardSince' = [heardSince EXCEPT ![n] =
                            [q \in Payload |-> IF q = c.p THEN {} ELSE heardSince[n][q] \cup {c.p}]]
        /\ UNCHANGED <<discovered, air, clock>>

Tick ==
    /\ clock < MaxClock
    /\ clock' = clock + 1
    /\ UNCHANGED <<discovered, air, seen, handledAt, heardSince>>

Next ==
    \/ \E n, m \in Node, f \in {"group", "other"} : Announced(n, m, f)
    \/ \E n \in Node, p \in Payload, d \in BOOLEAN : Broadcast(n, p, d)
    \/ \E c \in air : Receive(c)
    \/ Tick

Spec == Init /\ [][Next]_groupVars

-----------------------------------------------------------------------------
\* "A peer that hears the same payload via BOTH phases handles it exactly once":
\* a payload is handled again only when the window has passed since it was
\* handled, or when _GROUP_DEDUP_MAX other payloads came after its last copy.
HandledNow ==
    \A n \in Node, p \in Payload :
        handledAt'[n][p] # handledAt[n][p] /\ handledAt[n][p] # -1 =>
            \/ clock - handledAt[n][p] > DedupTTL
            \/ Cardinality(heardSince[n][p]) >= DedupMax
HandledOnce == [][HandledNow]_groupVars
=============================================================================
