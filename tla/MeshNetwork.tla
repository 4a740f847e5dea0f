---------------------------- MODULE MeshNetwork ----------------------------
(***************************************************************************)
(* The mesh layer as a whole: the relays of MeshRelay choosing their next  *)
(* hop from the tables that MeshRouting maintains, over connections that   *)
(* come and go.                                                            *)
(***************************************************************************)
EXTENDS Naturals, Sequences, FiniteSets

CONSTANTS Node, Dst, Link, Mode, Infinity, Timely, MaxFlaps, MaxRestarts,
          Msg, Source, Dest, MaxHops, SourcesMax, PerSourceMax, MaxResends, Forgetful

VARIABLES up, table, saved, heard, announced, suspected, outrun, flaps, restarts
VARIABLES sent, wire, seen, published, forwards, noticed, forgot, resends
VARIABLE promised   \* history: messages sent since the tables agree with the topology

Routing == INSTANCE MeshRouting WITH Instant <- TRUE
Relay == INSTANCE MeshRelay

routeVars == <<up, table, saved, heard, announced, suspected, outrun, flaps, restarts>>
relayVars == <<sent, wire, seen, published, forwards, noticed, forgot, resends>>
vars == <<routeVars, relayVars, promised>>

Init == Routing!Init /\ Relay!Init /\ promised = {}

NextHop(n, d) == Routing!GetRoute(n, d)

-----------------------------------------------------------------------------
\* max_hops relays are max_hops + 1 connections.
WithinHops(m) ==
    Routing!Reachable(up, Source[m], Dest[m])
      /\ Routing!Distance(up, Source[m], Dest[m]) <= MaxHops + 1

\* send_message when a next hop is known (else it queues, see OfflineQueue).
SendRouted(m) ==
    /\ NextHop(Source[m], Dest[m]) # Relay!None
    /\ Relay!Send(m, NextHop(Source[m], Dest[m]))
    /\ promised' = IF Routing!Converged /\ WithinHops(m) THEN promised \cup {m} ELSE promised
    /\ UNCHANGED routeVars

\* The routes back to a source are not followed: a notice takes any connection.
HandleFrame(c) ==
    LET next == NextHop(c.to, Dest[c.msg]) IN
    /\ \/ Relay!DeliverTerminal(c, FALSE) \/ Relay!PublishUnmeshed(c, FALSE)
       \/ Relay!RefuseRelay(c, FALSE)
       \/ Relay!DropRelay(c, FALSE)
       \/ next # Relay!None /\ Relay!RelayForward(c, next, FALSE)
       \/ next = Relay!None /\ \E back \in Routing!Neighbours(c.to) \cup {Relay!None} :
                                     Relay!RelayNoRoute(c, back, FALSE)
       \/ Relay!ReceiveNotice(c)
    /\ UNCHANGED <<routeVars, promised>>

\* What was in flight when a connection went is lost with it (any subset: the
\* model does not say which connection carries a frame).
Topology ==
    /\ \E l \in Link : Routing!LinkDown(l) \/ Routing!LinkUp(l)
    /\ wire' \in SUBSET wire
    /\ promised' = {}
    /\ UNCHANGED <<sent, seen, published, forwards, noticed, forgot, resends>>

Tables ==
    /\ \/ \E n, m \in Node : Routing!Announce(n, m)
       \/ \E n \in Node : Routing!AgeRoutes(n) \/ Routing!CleanupRoutes(n)
    /\ UNCHANGED <<relayVars, promised>>

Next ==
    \/ \E m \in Msg : SendRouted(m)
    \/ \E c \in wire : HandleFrame(c)
    \/ Topology
    \/ Tables

Fairness ==
    /\ \A n \in Node, m \in Msg : WF_vars(\E c \in wire : c.to = n /\ c.msg = m /\ HandleFrame(c))

Spec == Init /\ [][Next]_vars
FairSpec == Spec /\ Fairness

-----------------------------------------------------------------------------
\* Every message sent once the tables have settled, to a destination that
\* max_hops can reach, is delivered unless the topology changes again: the
\* tables lead to it, and neither the TTL, the hop list nor the duplicate
\* checks stop it on the way.
PromiseKept ==
    \A m \in Msg : m \in promised ~> (published[Dest[m]][m] = 1 \/ m \notin promised)
=============================================================================
