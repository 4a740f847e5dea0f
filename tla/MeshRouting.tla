---------------------------- MODULE MeshRouting ----------------------------
(***************************************************************************)
(* The distance-vector routing of mesh.py: RoutingTable.add_route,         *)
(* to_announcement (split horizon with poisoned reverse) and expire_old,   *)
(* and the MeshRouter tasks around them: announce_loop,                    *)
(* handle_route_announce, cleanup_loop (expiry, partition check, save) and *)
(* load_persisted_routes after a restart.                                  *)
(*                                                                         *)
(* Destinations do not influence one another, so a run may follow the      *)
(* routes to some of the nodes only.  next_hop and learned_from are always *)
(* the announcing neighbour, "via".  Time is counted per route in          *)
(* intervals of route_ttl.                                                 *)
(***************************************************************************)
EXTENDS Naturals, FiniteSets

CONSTANTS
    Node,
    Dst,            \* the destinations followed
    Link,           \* the connections that can exist, as sets of two nodes
    Mode,           \* mesh_routing of each node
    Infinity,       \* INFINITY_COST
    Instant,        \* TRUE: an announcement is handled the moment it is sent
    Timely,         \* TRUE: live neighbours are heard within every route_ttl
    MaxFlaps,       \* bound: connections lost or made
    MaxRestarts     \* bound: daemon restarts

ASSUME NetAssumption ==
    /\ Dst \subseteq Node
    /\ Link \subseteq {{n, m} : n, m \in Node}
    /\ \A l \in Link : Cardinality(l) = 2
ASSUME ModeAssumption == Mode \in [Node -> {"off", "passive", "relay"}]
ASSUME CostAssumption == Infinity \in Nat /\ Infinity > 1
ASSUME RouteBounds ==
    Instant \in BOOLEAN /\ Timely \in BOOLEAN /\ MaxFlaps \in Nat /\ MaxRestarts \in Nat

VARIABLES
    up,             \* the connections that are established
    table,          \* RoutingTable._routes of each node
    saved,          \* the routes file of each node
    heard,          \* neighbours that announced since the routes last aged
    announced,      \* ROUTE_ANNOUNCE frames in flight
    suspected,      \* EVENT_MESH_PARTITION_SUSPECTED emitted: (node, destination)
    outrun,         \* history: an announcement was handled that its sender's
                    \* table had changed under while it was in flight
    flaps, restarts

routeVars == <<up, table, saved, heard, announced, suspected, outrun, flaps, restarts>>

\* Ages in units of route_ttl: expire_old removes a route once it is older than
\* one; the partition check looks for one older than two.
Ttl == 1
AgeCap == 2 * Ttl + 1
NoRoute == [via |-> "none", cost |-> 0, age |-> 0]
IsRoute(r) == r.cost > 0

Neighbours(n) == {m \in Node : {n, m} \in up}
NoTable == [d \in Dst |-> NoRoute]

Init ==
    /\ up = Link
    /\ table = [n \in Node |-> NoTable]
    /\ saved = [n \in Node |-> NoTable]
    /\ heard = [n \in Node |-> {}]
    /\ announced = {}
    /\ suspected = {}
    /\ outrun = FALSE
    /\ flaps = 0
    /\ restarts = 0

-----------------------------------------------------------------------------
\* add_route: the entry for a destination after neighbour p offered "cost".
AddRoute(old, p, cost) ==
    IF cost <= 0 \/ cost >= Infinity
      THEN IF IsRoute(old) /\ old.via = p THEN NoRoute ELSE old
      ELSE IF ~IsRoute(old) \/ old.via = p \/ cost < old.cost
             THEN [via |-> p, cost |-> cost, age |-> 0]
             ELSE old

\* to_announcement(exclude_peer = m): itself at cost 0, every route except to m;
\* what was learned from m is poisoned.
AnnouncementNoPoison(n, m) ==
    [d \in {d \in Dst : d = n \/ (IsRoute(table[n][d]) /\ d # m)} |->
        IF d = n THEN 0 ELSE table[n][d].cost]
Announcement(n, m) ==
    [d \in {d \in Dst : d = n \/ (IsRoute(table[n][d]) /\ d # m)} |->
        IF d = n THEN 0
        ELSE IF table[n][d].via = m THEN Infinity
        ELSE table[n][d].cost]

\* "Routes via this neighbor cost +1"
OfferedFirstHop(a, d) == IF a.costs[d] = 0 THEN 1 ELSE a.costs[d]
Offered(a, d) == a.costs[d] + 1

HandleRouteAnnounce(a) ==
    /\ heard' = [heard EXCEPT ![a.to] = @ \cup {a.from}]
    /\ IF Mode[a.to] = "off" THEN UNCHANGED table
       ELSE table' = [table EXCEPT ![a.to] =
                        [d \in Dst |-> IF d \in DOMAIN a.costs /\ d # a.to
                                         THEN AddRoute(@[d], a.from, Offered(a, d))
                                         ELSE @[d]]]
    /\ UNCHANGED <<up, saved, suspected, flaps, restarts>>

\* send_announcement, for one neighbour of announce_loop.  Bound: one
\* announcement per direction in flight (they are 30 seconds apart).
Announce(n, m) ==
    LET a == [from |-> n, to |-> m, costs |-> Announcement(n, m)] IN
    /\ Mode[n] # "off"
    /\ m \in Neighbours(n)
    /\ ~\E b \in announced : b.from = n /\ b.to = m
    /\ \/ /\ Instant
          /\ HandleRouteAnnounce(a)
          /\ UNCHANGED <<announced, outrun>>
       \/ /\ ~Instant
          /\ announced' = announced \cup {a}
          /\ UNCHANGED <<up, table, saved, heard, suspected, outrun, flaps, restarts>>

ReceiveAnnouncement(a) ==
    /\ announced' = announced \ {a}
    /\ outrun' = (outrun \/ a.costs # Announcement(a.from, a.to))
    /\ HandleRouteAnnounce(a)

-----------------------------------------------------------------------------
(***************************************************************************)
(* Time: another route_ttl has passed at n.  A neighbour announces every   *)
(* route_announce_interval, a third of route_ttl.                          *)
(***************************************************************************)
Older(r) == IF IsRoute(r) /\ r.age < AgeCap THEN [r EXCEPT !.age = @ + 1] ELSE r

AgeRoutes(n) ==
    /\ Timely => Neighbours(n) \subseteq heard[n]
    /\ \E d \in Dst : Older(table[n][d]) # table[n][d]
    /\ table' = [table EXCEPT ![n] = [d \in Dst |-> Older(@[d])]]
    /\ heard' = [heard EXCEPT ![n] = {}]
    /\ UNCHANGED <<up, saved, announced, suspected, outrun, flaps, restarts>>

\* expire_old
KeptAlways(r) == r
Kept(r) == IF IsRoute(r) /\ r.age > Ttl THEN NoRoute ELSE r

\* One pass of cleanup_loop: expire, look for partitions among what is left,
\* save.  Every change of the table sets _save_pending, so the file afterwards
\* holds the table.  (The file is followed only while a restart may read it.)
CleanupRoutes(n) ==
    LET rest == [d \in Dst |-> Kept(table[n][d])]
        file == IF restarts < MaxRestarts THEN rest ELSE saved[n] IN
    /\ rest # table[n] \/ file # saved[n]
    /\ table' = [table EXCEPT ![n] = rest]
    /\ saved' = [saved EXCEPT ![n] = file]
    /\ suspected' = suspected \cup
           {<<n, d>> : d \in {d \in Dst : IsRoute(rest[d]) /\ rest[d].age > 2 * Ttl}}
    /\ UNCHANGED <<up, heard, announced, outrun, flaps, restarts>>

-----------------------------------------------------------------------------
(***************************************************************************)
(* Connections come and go; the table is not touched.  A restart reads the *)
(* routes file and ages what it holds ("Stamp with shortened TTL").        *)
(***************************************************************************)
OnLink(l, a) == {a.from, a.to} = l

LinkDown(l) ==
    /\ flaps < MaxFlaps
    /\ l \in up
    /\ up' = up \ {l}
    /\ announced' = {a \in announced : ~OnLink(l, a)}
    /\ flaps' = flaps + 1
    /\ UNCHANGED <<table, saved, heard, suspected, outrun, restarts>>

LinkUp(l) ==
    /\ flaps < MaxFlaps
    /\ l \in Link \ up
    /\ up' = up \cup {l}
    /\ flaps' = flaps + 1
    /\ UNCHANGED <<table, saved, heard, announced, suspected, outrun, restarts>>

Reloaded(r) == IF IsRoute(r) THEN [r EXCEPT !.age = Ttl] ELSE r

Restart(n) ==
    /\ restarts < MaxRestarts
    /\ restarts' = restarts + 1
    /\ table' = [table EXCEPT ![n] = [d \in Dst |-> Reloaded(saved[n][d])]]
    /\ heard' = [heard EXCEPT ![n] = {}]
    /\ announced' = {a \in announced : n \notin {a.from, a.to}}
    /\ up' = {l \in up : n \notin l}
    /\ UNCHANGED <<saved, suspected, outrun, flaps>>

-----------------------------------------------------------------------------
RouteNext ==
    \/ \E n, m \in Node : Announce(n, m)
    \/ \E a \in announced : ReceiveAnnouncement(a)
    \/ \E n \in Node : AgeRoutes(n) \/ CleanupRoutes(n) \/ Restart(n)
    \/ \E l \in Link : LinkDown(l) \/ LinkUp(l)

Spec == Init /\ [][RouteNext]_routeVars

-----------------------------------------------------------------------------
(***************************************************************************)
(* MeshRouter.get_route (no circuit breaker ever opens: _send_frame does   *)
(* not raise).                                                             *)
(***************************************************************************)
GetRoute(n, d) ==
    IF d \in Neighbours(n) THEN d
    ELSE IF IsRoute(table[n][d]) /\ table[n][d].via \in Neighbours(n) THEN table[n][d].via
    ELSE "none"

\* The nodes at most k connections of "net" away from d.
Ball(net, d) ==
    LET b[k \in 0 .. Cardinality(Node)] ==
            IF k = 0 THEN {d}
            ELSE LET near == b[k - 1]
                 IN  near \cup {n \in Node : \E m \in near : {n, m} \in net}
    IN  b

Reachable(net, n, d) == n \in Ball(net, d)[Cardinality(Node)]
Distance(net, n, d) ==
    CHOOSE k \in 0 .. Cardinality(Node) :
        n \in Ball(net, d)[k] /\ \A j \in 0 .. k - 1 : n \notin Ball(net, d)[j]

-----------------------------------------------------------------------------
Route == [via : Node, cost : 1 .. Infinity - 1, age : 0 .. AgeCap] \cup {NoRoute}

IsAnnouncement(a) ==
    /\ a.from \in Node /\ a.to \in Node
    /\ {a.from, a.to} \in Link
    /\ a.costs \in [DOMAIN a.costs -> 0 .. Infinity]

\* Every route has a neighbour as next hop and a cost below infinity.
TypeOK ==
    /\ up \subseteq Link
    /\ table \in [Node -> [Dst -> Route]]
    /\ saved \in [Node -> [Dst -> Route]]
    /\ heard \in [Node -> SUBSET Node]
    /\ \A a \in announced : IsAnnouncement(a)
    /\ suspected \subseteq Node \X Dst
    /\ outrun \in BOOLEAN
    /\ flaps \in Nat /\ restarts \in Nat

\* A walk of k connections from n to d.
Walk(net, n, d, k) ==
    \E p \in [0 .. k -> Node] :
        p[0] = n /\ p[k] = d /\ \A i \in 1 .. k : {p[i - 1], p[i]} \in net

\* The lengths of the walks there are with every connection up.
WalkLengths ==
    [n \in Node |-> [d \in Dst |-> {k \in 1 .. Infinity - 1 : Walk(Link, n, d, k)}]]

\* The cost of a route is the length of some walk to its destination: no table
\* ever promises a shorter path than the network could have, whatever
\* announcements crossed, expired or were read back from a routes file.
NeverOptimistic ==
    \A n \in Node, d \in Dst : IsRoute(table[n][d]) => table[n][d].cost \in WalkLengths[n][d]

\* docs/SECURITY.md: "Split horizon + poisoned reverse prevent two-hop loops".
\* They do, however connections flap and routes expire, until an announcement is
\* outrun by a change of its sender's table or a node restarts from its file.
NoTwoHopLoop ==
    ~outrun /\ restarts = 0 => \A n, m \in Node, d \in Dst :
        IsRoute(table[n][d]) /\ IsRoute(table[m][d]) =>
            ~(table[n][d].via = m /\ table[m][d].via = n)

Converged ==
    \A n \in Node : \A d \in Dst \ {n} :
        IF Reachable(up, n, d) /\ Distance(up, n, d) < Infinity
          THEN IsRoute(table[n][d]) /\ table[n][d].cost = Distance(up, n, d)
                 /\ table[n][d].via \in Neighbours(n)
          ELSE ~IsRoute(table[n][d])

\* Once connections stop changing every table comes to hold exactly the
\* shortest routes: what is gone is forgotten, whatever loops it left behind.
Converges == <>[]Converged
=============================================================================
