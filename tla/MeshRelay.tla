----------------------------- MODULE MeshRelay -----------------------------
(***************************************************************************)
(* Routed messages on their way through the mesh: send_message's routed    *)
(* path, the relay decision of _dispatch_message, MeshRouter.relay_message *)
(* with its duplicate, TTL and hop-list checks, _send_unreachable, and the *)
(* terminal delivery with its own duplicate check.                         *)
(*                                                                         *)
(* Nothing is assumed of the routing tables: a relay may pick any node as  *)
(* next hop, or none, every time (MeshNetwork puts the real tables in).    *)
(* Copies of a frame may be re-sent by a peer or lost.                     *)
(***************************************************************************)
EXTENDS Dedup, FiniteSets

CONSTANTS
    Node, Msg,
    Source, Dest,   \* the ends of each message
    MaxHops,        \* config.max_hops
    Mode,           \* mesh_routing of each node
    MaxResends,     \* bound: copies a peer sends again
    Forgetful       \* TRUE: cache entries age out, daemons restart

ASSUME RelayAssumption ==
    /\ Source \in [Msg -> Node] /\ Dest \in [Msg -> Node]
    /\ \A m \in Msg : Source[m] # Dest[m]
    /\ Mode \in [Node -> {"off", "passive", "relay"}]
    /\ MaxHops \in Nat /\ MaxResends \in Nat /\ Forgetful \in BOOLEAN

VARIABLES
    sent,           \* messages handed to the mesh
    wire,           \* copies in flight to "to"
    seen,           \* each node's dedup cache
    published,      \* how often each node's bus saw each message
    forwards,       \* how often each node forwarded each message, up to twice
    noticed,        \* (node, message): ROUTE_UNREACHABLE consumed there
    forgot,         \* history: nodes whose cache lost an entry to its age
    resends

relayVars == <<sent, wire, seen, published, forwards, noticed, forgot, resends>>

None == "none"
Kinds == {"MSG", "ROUTE_UNREACHABLE"}
Copy == [kind : Kinds, msg : Msg, to : Node, ttl : Nat, hops : Seq(Node)]

Init ==
    /\ sent = {}
    /\ wire = {}
    /\ seen = [n \in Node |-> EmptyCache]
    /\ published = [n \in Node |-> [m \in Msg |-> 0]]
    /\ forwards = [n \in Node |-> [m \in Msg |-> 0]]
    /\ noticed = {}
    /\ forgot = {}
    /\ resends = 0

\* mesh_routing "off": the daemon has no router, hence no routes, no relaying
\* and no duplicate cache ("mesh-off nodes rely on the per-peer sequence guard").
Meshed(n) == Mode[n] # "off"

\* _send_message_inner: frame.ttl = max_hops, frame.hops = []; without a router
\* only a direct connection will do.
Send(m, next) ==
    /\ m \notin sent
    /\ next # Source[m]
    /\ Meshed(Source[m]) \/ next = Dest[m]
    /\ sent' = sent \cup {m}
    /\ wire' = wire \cup {[kind |-> "MSG", msg |-> m, to |-> next, ttl |-> MaxHops, hops |-> <<>>]}
    /\ UNCHANGED <<seen, published, forwards, noticed, forgot, resends>>

-----------------------------------------------------------------------------
\* c is read from the connection; "again": the peer had sent it twice.
Taken(c, again) ==
    /\ c \in wire
    /\ again => resends < MaxResends
    /\ resends' = IF again THEN resends + 1 ELSE resends

Left(c, again) == IF again THEN wire ELSE wire \ {c}

ForMe(c) == c.to = Dest[c.msg]
IsSeen(c) == IsDuplicate(seen[c.to], Source[c.msg], c.msg)

Remember(c) == seen' = [seen EXCEPT ![c.to] = CheckAndAdd(@, Source[c.msg], c.msg)]

\* _dispatch_message for the destination: "Deliver each (source, msg_id)
\* exactly once".
RepublishDuplicate(c) == [published EXCEPT ![c.to][c.msg] = @ + 1]
Publish(c) == IF IsSeen(c) THEN published ELSE [published EXCEPT ![c.to][c.msg] = @ + 1]

DeliverTerminal(c, again) ==
    /\ c.kind = "MSG" /\ ForMe(c) /\ Meshed(c.to)
    /\ Taken(c, again)
    /\ wire' = Left(c, again)
    /\ Remember(c)
    /\ published' = Publish(c)
    /\ UNCHANGED <<sent, forwards, noticed, forgot>>

\* Without a router every frame that can be read falls through to the bus,
\* another node's as well, and again when it is re-sent.
PublishUnmeshed(c, again) ==
    /\ c.kind = "MSG" /\ ~Meshed(c.to)
    /\ Taken(c, again)
    /\ wire' = Left(c, again)
    /\ published' = [published EXCEPT ![c.to][c.msg] = @ + 1]
    /\ UNCHANGED <<sent, seen, forwards, noticed, forgot>>

\* relay_message in passive mode, or of a frame older than a day: the cache does
\* not learn of it.
RefuseRelay(c, stale) ==
    /\ c.kind = "MSG" /\ ~ForMe(c)
    /\ Mode[c.to] = "passive" \/ (stale /\ Mode[c.to] = "relay")
    /\ Taken(c, FALSE)
    /\ wire' = wire \ {c}
    /\ UNCHANGED <<sent, seen, published, forwards, noticed, forgot>>

\* The three checks, in the code's order; the second and third come after the
\* pair was recorded.
TtlSpentEarly(c) == c.ttl <= 1
TtlSpent(c) == c.ttl <= 0
LoopMissed(c) == FALSE
Looped(c) == \E i \in 1 .. Len(c.hops) : c.hops[i] = c.to

Relays(c) == c.kind = "MSG" /\ ~ForMe(c) /\ Mode[c.to] = "relay"

DropRelay(c, again) ==
    /\ Relays(c)
    /\ IsSeen(c) \/ TtlSpent(c) \/ Looped(c)
    /\ Taken(c, again)
    /\ wire' = Left(c, again)
    /\ Remember(c)
    /\ UNCHANGED <<sent, published, forwards, noticed, forgot>>

\* "Decrement and append hop"
HoppedAsNew(c, next) ==
    [c EXCEPT !.to = next, !.ttl = MaxHops, !.hops = <<>>]
Hopped(c, next) ==
    [kind |-> "MSG", msg |-> c.msg, to |-> next, ttl |-> c.ttl - 1, hops |-> Append(c.hops, c.to)]

RelayForward(c, next, again) ==
    /\ Relays(c)
    /\ ~IsSeen(c) /\ ~TtlSpent(c) /\ ~Looped(c)
    /\ next # c.to
    /\ Taken(c, again)
    /\ wire' = Left(c, again) \cup {Hopped(c, next)}
    /\ Remember(c)
    /\ forwards' = [forwards EXCEPT ![c.to][c.msg] = IF @ < 2 THEN @ + 1 ELSE @]
    /\ UNCHANGED <<sent, published, noticed, forgot>>

\* No route: a ROUTE_UNREACHABLE goes towards the source if there is a route
\* back (it has the frame defaults, which nothing reads).
Notice(c, back) == [kind |-> "ROUTE_UNREACHABLE", msg |-> c.msg, to |-> back, ttl |-> 0, hops |-> <<>>]
Notices(c, back) == IF back = None THEN {} ELSE {Notice(c, back)}

RelayNoRoute(c, back, again) ==
    /\ Relays(c)
    /\ ~IsSeen(c) /\ ~TtlSpent(c) /\ ~Looped(c)
    /\ back # c.to
    /\ Taken(c, again)
    /\ wire' = Left(c, again) \cup Notices(c, back)
    /\ Remember(c)
    /\ UNCHANGED <<sent, published, forwards, noticed, forgot>>

\* _dispatch_message handles ROUTE_UNREACHABLE before its relay decision.
ReceiveNotice(c) ==
    /\ c.kind = "ROUTE_UNREACHABLE"
    /\ Taken(c, FALSE)
    /\ wire' = wire \ {c}
    /\ noticed' = noticed \cup {<<c.to, c.msg>>}
    /\ UNCHANGED <<sent, seen, published, forwards, forgot>>

-----------------------------------------------------------------------------
\* The connection went away, or _send_frame dropped the frame.
Lose(c) ==
    /\ c \in wire
    /\ wire' = wire \ {c}
    /\ UNCHANGED <<sent, seen, published, forwards, noticed, forgot, resends>>

\* DedupCache.cleanup_expired, for any set of entries; a restart forgets all.
Forget(n, old) ==
    /\ Forgetful
    /\ CleanupExpired(seen[n], old) # seen[n]
    /\ seen' = [seen EXCEPT ![n] = CleanupExpired(@, old)]
    /\ forgot' = forgot \cup {n}
    /\ UNCHANGED <<sent, wire, published, forwards, noticed, resends>>

-----------------------------------------------------------------------------
Handle(c) ==
    \/ \E again \in BOOLEAN :
         \/ DeliverTerminal(c, again) \/ PublishUnmeshed(c, again)
         \/ DropRelay(c, again)
         \/ \E next \in Node : RelayForward(c, next, again)
         \/ \E back \in Node \cup {None} : RelayNoRoute(c, back, again)
    \/ \E stale \in BOOLEAN : RefuseRelay(c, stale)
    \/ ReceiveNotice(c)

Next ==
    \/ \E m \in Msg, next \in Node : Send(m, next)
    \/ \E c \in wire : Handle(c) \/ Lose(c)
    \/ \E n \in Node : \E old \in SUBSET {<<Source[m], m>> : m \in Msg} : Forget(n, old)

Spec == Init /\ [][Next]_relayVars

-----------------------------------------------------------------------------
\* Every variable keeps its type.
TypeOK ==
    /\ sent \subseteq Msg
    /\ wire \subseteq Copy
    /\ published \in [Node -> [Msg -> Nat]]
    /\ forwards \in [Node -> [Msg -> 0 .. 2]]
    /\ noticed \subseteq Node \X Msg
    /\ forgot \subseteq Node
    /\ resends \in 0 .. MaxResends

\* Every hop is paid for: the relays a copy went through are all different,
\* and each took one from its TTL.  It holds whatever the caches forget, and
\* is what stops a copy in a routing loop.
HopBudget ==
    \A c \in wire : c.kind = "MSG" =>
        /\ c.ttl + Len(c.hops) = MaxHops
        /\ \A i, j \in 1 .. Len(c.hops) : c.hops[i] = c.hops[j] => i = j

\* While a node's cache remembers, the node forwards a message at most once,
\* however many copies of it arrive over whatever routes.
ForwardOnce == \A n \in Node \ forgot, m \in Msg : forwards[n][m] <= 1
=============================================================================
