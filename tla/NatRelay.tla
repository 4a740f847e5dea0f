------------------------------ MODULE NatRelay ------------------------------
(***************************************************************************)
(* The rendezvous relay (nat_relay.py): a table from node id to socket,    *)
(* kept by one handler per socket.  The handlers interleave at every frame *)
(* they await, and a handler ends only when it gets to its finally, which  *)
(* may be long after its peer has come back on another socket.             *)
(***************************************************************************)
EXTENDS Naturals, FiniteSets

CONSTANTS
    Socket,
    NodeId,
    MaxRegistered,   \* MAX_REGISTERED_PEERS
    MaxForwards      \* MAX_FORWARDS_PER_MINUTE

VARIABLES
    handler,      \* socket -> "new", "open", "dropped" or "ended"
    claimed,      \* registered_node of each handler, NoNode before REGISTER
    sockets,      \* RelayRegistry._sockets
    forwards,     \* RelayRegistry._forward_counts
    answer,       \* what a FORWARD came to last, by socket
    claims,       \* history: the ids each socket was acknowledged for
    overlapped    \* history: ids registered anew while an older handler held them

natVars == <<handler, claimed, sockets, forwards, answer, claims, overlapped>>

NoNode == "none"
NoSocket == "none"

Init ==
    /\ handler = [s \in Socket |-> "new"]
    /\ claimed = [s \in Socket |-> NoNode]
    /\ sockets = [n \in NodeId |-> NoSocket]
    /\ forwards = [n \in NodeId |-> 0]
    /\ answer = [s \in Socket |-> "none"]
    /\ claims = [s \in Socket |-> {}]
    /\ overlapped = {}

Connect(s) ==
    /\ handler[s] = "new"
    /\ handler' = [handler EXCEPT ![s] = "open"]
    /\ UNCHANGED <<claimed, sockets, forwards, answer, claims, overlapped>>

\* The peer or the network drops the connection; the handler does not know yet.
Drop(s) ==
    /\ handler[s] = "open"
    /\ handler' = [handler EXCEPT ![s] = "dropped"]
    /\ UNCHANGED <<claimed, sockets, forwards, answer, claims, overlapped>>

\* RelayRegistry.deregister
Deregistered(n) ==
    /\ sockets' = [sockets EXCEPT ![n] = NoSocket]
    /\ forwards' = [forwards EXCEPT ![n] = 0]

\* The handler's finally: after a drop, or after _reject has closed the socket
\* for a malformed, oversized or unknown frame.
Finish(s) ==
    /\ handler[s] \in {"open", "dropped"}
    /\ handler' = [handler EXCEPT ![s] = "ended"]
    /\ IF claimed[s] = NoNode THEN UNCHANGED <<sockets, forwards>>
                              ELSE Deregistered(claimed[s])
    /\ UNCHANGED <<claimed, answer, claims, overlapped>>

RegistryFull(n) ==
    /\ Cardinality({m \in NodeId : sockets[m] # NoSocket}) >= MaxRegistered
    /\ sockets[n] = NoSocket

\* A REGISTER frame; the same socket may send it again, for another id too.
RegisterFirstWins(s, n) ==
    /\ handler[s] = "open" /\ ~RegistryFull(n)
    /\ sockets' = [sockets EXCEPT ![n] = IF @ = NoSocket THEN s ELSE @]
    /\ claimed' = [claimed EXCEPT ![s] = n]
    /\ claims' = [claims EXCEPT ![s] = @ \cup {n}]
    /\ overlapped' = IF \E t \in Socket \ {s} : n \in claims[t] /\ handler[t] # "ended"
                       THEN overlapped \cup {n} ELSE overlapped
    /\ UNCHANGED <<handler, forwards, answer>>

Register(s, n) ==
    /\ handler[s] = "open" /\ ~RegistryFull(n)
    /\ sockets' = [sockets EXCEPT ![n] = s]
    /\ claimed' = [claimed EXCEPT ![s] = n]
    /\ claims' = [claims EXCEPT ![s] = @ \cup {n}]
    /\ overlapped' = IF \E t \in Socket \ {s} : n \in claims[t] /\ handler[t] # "ended"
                       THEN overlapped \cup {n} ELSE overlapped
    /\ UNCHANGED <<handler, forwards, answer>>

\* A full table refuses a new id and ends the handler.
RefuseRegister(s, n) == RegistryFull(n) /\ handler[s] = "open" /\ Finish(s)

\* A FORWARD frame: the count first, then the lookup.  Before REGISTER it is
\* refused with the connection (Finish).
Forward(s, to) ==
    LET n == claimed[s]
        limited == forwards[n] + 1 > MaxForwards IN
    /\ handler[s] = "open" /\ n # NoNode
    /\ forwards' = IF limited THEN forwards ELSE [forwards EXCEPT ![n] = @ + 1]
    /\ answer' = [answer EXCEPT ![s] =
                    IF limited THEN "limited"
                    ELSE IF sockets[to] = NoSocket THEN "unreachable"
                    ELSE IF handler[sockets[to]] = "open" THEN "sent" ELSE "failed"]
    /\ UNCHANGED <<handler, claimed, sockets, claims, overlapped>>

\* The 60 seconds are over; the next note_forward clears every count.
NewMinute ==
    /\ \E n \in NodeId : forwards[n] # 0
    /\ forwards' = [n \in NodeId |-> 0]
    /\ UNCHANGED <<handler, claimed, sockets, answer, claims, overlapped>>

Next ==
    \/ \E s \in Socket :
         \/ Connect(s) \/ Drop(s) \/ Finish(s)
         \/ \E n \in NodeId : Register(s, n) \/ RefuseRegister(s, n) \/ Forward(s, n)
    \/ NewMinute

Spec == Init /\ [][Next]_natVars

-----------------------------------------------------------------------------
\* The sockets that answer for id n: open and acknowledged for it last.
Holders(n) == {s \in Socket : handler[s] = "open" /\ claimed[s] = n}

\* A peer that came back only after its old handler had ended is reachable for
\* as long as its socket is open; and whatever happens, the table never sends to
\* a socket that has not registered for the id.
ReachableWhenSpaced ==
    /\ \A n \in NodeId \ overlapped, s \in Socket : s \in Holders(n) => sockets[n] = s
    /\ \A n \in NodeId : sockets[n] = NoSocket \/ n \in claims[sockets[n]]

\* RelayRegistry.register: "Replace any stale registration - a reconnecting peer
\* from the same node_id is the common case": one that came back is reachable.
ReconnectReachable ==
    \A n \in NodeId : Cardinality(Holders(n)) = 1 => sockets[n] \in Holders(n)
=============================================================================
