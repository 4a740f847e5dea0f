------------------------- MODULE MeshRoutingProofs -------------------------
(***************************************************************************)
(* Proofs about MeshRouting: its type invariant; that split horizon with   *)
(* poisoned reverse keeps two neighbours from routing a destination        *)
(* through each other, for every network, cost bound and history of        *)
(* connections, until an announcement is outrun by a change of its         *)
(* sender's table or a node restarts from its routes file; and that every  *)
(* cost is the length of a walk over links that existed.                   *)
(***************************************************************************)
EXTENDS MeshRouting, FiniteSetTheorems, TLAPS

\* A connection has two different ends.
LEMMA LinkEnds ==
    ASSUME NEW n \in Node, NEW m \in Node, {n, m} \in Link
    PROVE  n # m
<1>1. Cardinality({n, m}) = 2
  BY NetAssumption
<1>2. Cardinality({n}) = 1
  BY FS_Singleton
<1> SUFFICES ASSUME n = m PROVE FALSE
  OBVIOUS
<1>3. {n, m} = {n}
  OBVIOUS
<1> QED
  BY <1>1, <1>2, <1>3

\* A neighbour is another node at the end of a connection.
LEMMA TwoEnds ==
    ASSUME up \subseteq Link, NEW n \in Node, NEW m \in Neighbours(n)
    PROVE  m \in Node /\ n # m /\ {n, m} \in Link
<1>1. {n, m} \in Link /\ m \in Node
  BY DEF Neighbours
<1> QED
  BY <1>1, LinkEnds

\* An entry is a route exactly when it has a next hop, a cost below infinity
\* and an age.
LEMMA RouteFields ==
    ASSUME NEW r \in Route
    PROVE  IsRoute(r) => /\ r.via \in Node
                         /\ r.cost \in 1 .. Infinity - 1
                         /\ r.age \in 0 .. AgeCap
BY CostAssumption DEF Route, IsRoute, NoRoute

\* add_route keeps the type of an entry, whatever cost is offered.
LEMMA AddRouteType ==
    ASSUME NEW r \in Route, NEW p \in Node, NEW k \in Nat
    PROVE  AddRoute(r, p, k) \in Route
BY CostAssumption DEF AddRoute, Route, NoRoute, IsRoute, AgeCap, Ttl

\* Ageing, expiry and reloading keep the type of an entry.
LEMMA EntryType ==
    ASSUME NEW r \in Route
    PROVE  Older(r) \in Route /\ Kept(r) \in Route /\ Reloaded(r) \in Route
BY CostAssumption DEF Older, Kept, Reloaded, Route, NoRoute, IsRoute, AgeCap, Ttl

\* to_announcement offers every destination it names at a cost up to infinity.
LEMMA AnnouncementType ==
    ASSUME table \in [Node -> [Dst -> Route]], NEW n \in Node, NEW m \in Node
    PROVE  Announcement(n, m) \in [DOMAIN Announcement(n, m) -> 0 .. Infinity]
<1>1. \A d \in Dst : IsRoute(table[n][d]) => table[n][d].cost \in 0 .. Infinity
  <2> SUFFICES ASSUME NEW d \in Dst, IsRoute(table[n][d])
               PROVE  table[n][d].cost \in 0 .. Infinity
    OBVIOUS
  <2>1. table[n][d] \in Route
    OBVIOUS
  <2> QED
    BY <2>1, RouteFields, CostAssumption
<1> QED
  BY <1>1, CostAssumption DEF Announcement

\* handle_route_announce keeps the types, of the tables in particular.
LEMMA HandleType ==
    ASSUME TypeOK, NEW a, a.from \in Node, a.to \in Node,
           a.costs \in [DOMAIN a.costs -> 0 .. Infinity],
           HandleRouteAnnounce(a)
    PROVE  /\ table' \in [Node -> [Dst -> Route]]
           /\ heard' \in [Node -> SUBSET Node]
<1>1. heard' \in [Node -> SUBSET Node]
  BY DEF TypeOK, HandleRouteAnnounce
<1>2. CASE Mode[a.to] = "off"
  BY <1>1, <1>2 DEF TypeOK, HandleRouteAnnounce
<1>3. CASE Mode[a.to] # "off"
  <2> DEFINE E == [d \in Dst |-> IF d \in DOMAIN a.costs /\ d # a.to
                                   THEN AddRoute(table[a.to][d], a.from, Offered(a, d))
                                   ELSE table[a.to][d]]
  <2>1. \A d \in Dst : E[d] \in Route
    <3> SUFFICES ASSUME NEW d \in Dst PROVE E[d] \in Route
      OBVIOUS
    <3>1. table[a.to][d] \in Route
      BY DEF TypeOK
    <3>2. ASSUME d \in DOMAIN a.costs PROVE AddRoute(table[a.to][d], a.from, Offered(a, d)) \in Route
      <4>1. Offered(a, d) \in Nat
        BY <3>2, CostAssumption DEF Offered
      <4> QED
        BY <3>1, <4>1, AddRouteType
    <3> QED
      BY <3>1, <3>2
  <2>2. E \in [Dst -> Route]
    BY <2>1
  <2>3. table' = [table EXCEPT ![a.to] = E]
    BY <1>3 DEF HandleRouteAnnounce
  <2> QED
    BY <1>1, <2>2, <2>3 DEF TypeOK
<1> QED
  BY <1>2, <1>3

-----------------------------------------------------------------------------
\* Every action keeps every variable's type.
LEMMA TypeStep ==
    ASSUME TypeOK, [RouteNext]_routeVars
    PROVE  TypeOK'
<1> USE RouteBounds
<1>1. ASSUME NEW n \in Node, NEW m \in Node, Announce(n, m)
      PROVE  TypeOK'
  <2> DEFINE a == [from |-> n, to |-> m, costs |-> Announcement(n, m)]
  <2>1. m \in Neighbours(n) /\ up \subseteq Link
    BY <1>1 DEF Announce, TypeOK
  <2>2. {n, m} \in Link
    BY <2>1, TwoEnds
  <2>3. a.costs \in [DOMAIN a.costs -> 0 .. Infinity]
    BY AnnouncementType DEF TypeOK
  <2>4. CASE Instant /\ HandleRouteAnnounce(a) /\ UNCHANGED <<announced, outrun>>
    <3>1. table' \in [Node -> [Dst -> Route]] /\ heard' \in [Node -> SUBSET Node]
      BY <2>3, <2>4, HandleType
    <3>2. \A b \in announced' : IsAnnouncement(b)'
      BY <2>4 DEF TypeOK, IsAnnouncement
    <3> QED
      BY <2>4, <3>1, <3>2 DEF TypeOK, HandleRouteAnnounce
  <2>5. CASE ~Instant /\ announced' = announced \cup {a}
               /\ UNCHANGED <<up, table, saved, heard, suspected, outrun, flaps, restarts>>
    <3>1. IsAnnouncement(a)
      BY <2>2, <2>3 DEF IsAnnouncement
    <3>2. announced' = announced \cup {a}
      BY <2>5
    <3> HIDE DEF a
    <3>3. \A b \in announced' : IsAnnouncement(b)
      BY <3>1, <3>2 DEF TypeOK
    <3> QED
      BY <2>5, <3>3 DEF TypeOK, IsAnnouncement
  <2> QED
    BY <1>1, <2>4, <2>5 DEF Announce
<1>2. ASSUME NEW a \in announced, ReceiveAnnouncement(a)
      PROVE  TypeOK'
  <2>1. a.from \in Node /\ a.to \in Node
    BY DEF TypeOK, IsAnnouncement
  <2>2. a.costs \in [DOMAIN a.costs -> 0 .. Infinity]
    BY DEF TypeOK, IsAnnouncement
  <2>3. table' \in [Node -> [Dst -> Route]] /\ heard' \in [Node -> SUBSET Node]
    BY <1>2, <2>1, <2>2, HandleType DEF ReceiveAnnouncement
  <2> QED
    BY <1>2, <2>3 DEF TypeOK, ReceiveAnnouncement, HandleRouteAnnounce
<1>3. ASSUME NEW n \in Node, AgeRoutes(n)
      PROVE  TypeOK'
  <2>1. [d \in Dst |-> Older(table[n][d])] \in [Dst -> Route]
    BY EntryType DEF TypeOK
  <2> QED
    BY <1>3, <2>1 DEF TypeOK, AgeRoutes
<1>4. ASSUME NEW n \in Node, CleanupRoutes(n)
      PROVE  TypeOK'
  <2> DEFINE rest == [d \in Dst |-> Kept(table[n][d])]
             file == IF restarts < MaxRestarts THEN rest ELSE saved[n]
  <2>1. rest \in [Dst -> Route]
    BY EntryType DEF TypeOK
  <2>2. file \in [Dst -> Route]
    BY <2>1 DEF TypeOK
  <2>3. table' = [table EXCEPT ![n] = rest] /\ saved' = [saved EXCEPT ![n] = file]
    BY <1>4 DEF CleanupRoutes
  <2>4. suspected' \subseteq Node \X Dst
    BY <1>4 DEF CleanupRoutes, TypeOK
  <2> HIDE DEF rest, file
  <2> QED
    BY <1>4, <2>1, <2>2, <2>3, <2>4 DEF TypeOK, CleanupRoutes
<1>5. ASSUME NEW n \in Node, Restart(n)
      PROVE  TypeOK'
  <2>1. [d \in Dst |-> Reloaded(saved[n][d])] \in [Dst -> Route]
    BY EntryType DEF TypeOK
  <2> QED
    BY <1>5, <2>1 DEF TypeOK, Restart
<1>6. ASSUME NEW l \in Link, LinkDown(l) \/ LinkUp(l)
      PROVE  TypeOK'
  BY <1>6 DEF TypeOK, LinkDown, LinkUp
<1>7. CASE UNCHANGED routeVars
  BY <1>7 DEF TypeOK, routeVars
<1> QED
  BY <1>1, <1>2, <1>3, <1>4, <1>5, <1>6, <1>7 DEF RouteNext

\* No node has a route before the first announcement.
LEMMA TypeInit == Init => TypeOK
<1> SUFFICES ASSUME Init PROVE TypeOK
  OBVIOUS
<1>1. NoTable \in [Dst -> Route]
  BY DEF NoTable, Route
<1>2. outrun \in BOOLEAN
  BY Zenon DEF Init
<1> QED
  BY <1>1, <1>2 DEF Init, TypeOK

\* mesh.py, RoutingTable and MeshRouter: every route anybody ever holds or saves
\* goes through a node, at a cost below INFINITY_COST.
THEOREM TypeCorrect == Spec => []TypeOK
<1> QED
  BY TypeInit, TypeStep, PTL DEF Spec

-----------------------------------------------------------------------------
(***************************************************************************)
(* Loop freedom.  A node has no route to itself, so what it announces at   *)
(* cost 0 cannot close a loop; everything else it learned from the node it *)
(* announces to is poisoned, and stays so until the announcement arrives   *)
(* if the announcement is not outrun.                                      *)
(***************************************************************************)
Undisturbed == ~outrun /\ restarts = 0
NoRouteToSelf == \A d \in Dst : ~IsRoute(table[d][d])
Apart ==
    \A n, m \in Node, d \in Dst :
        IsRoute(table[n][d]) /\ IsRoute(table[m][d]) =>
            ~(table[n][d].via = m /\ table[m][d].via = n)

LoopInv == TypeOK /\ (Undisturbed => NoRouteToSelf /\ Apart)

\* An entry after add_route is the old one, none, or through the announcer at
\* the offered cost, which is then below infinity.
LEMMA AddRouteCases ==
    ASSUME NEW r \in Route, NEW p \in Node, NEW k \in Nat, IsRoute(AddRoute(r, p, k))
    PROVE  \/ AddRoute(r, p, k) = r
           \/ AddRoute(r, p, k).via = p /\ k < Infinity
BY CostAssumption DEF AddRoute, NoRoute, IsRoute

\* Handling what n would announce to m at this moment closes no loop of two.
LEMMA HandleStep ==
    ASSUME TypeOK, NoRouteToSelf, Apart,
           NEW n \in Node, NEW m \in Node, n # m,
           NEW a, a.from = n, a.to = m, a.costs = Announcement(n, m),
           HandleRouteAnnounce(a)
    PROVE  NoRouteToSelf' /\ Apart'
<1>3. CASE Mode[m] = "off"
  BY <1>3 DEF HandleRouteAnnounce, NoRouteToSelf, Apart, IsRoute
<1>4. CASE Mode[m] # "off"
  <2>1. table' = [table EXCEPT ![m] = [d \in Dst |-> IF d \in DOMAIN a.costs /\ d # m
                                   THEN AddRoute(table[m][d], n, Offered(a, d))
                                   ELSE table[m][d]]]
    BY <1>4 DEF HandleRouteAnnounce
  <2>2. \A k \in Node : k # m => table'[k] = table[k]
    BY <2>1 DEF TypeOK
  <2>3. \A d \in Dst : ~(d \in DOMAIN a.costs /\ d # m) => table'[m][d] = table[m][d]
    BY <2>1 DEF TypeOK
  <2>4. \A d \in Dst : d \in DOMAIN a.costs /\ d # m =>
                            table'[m][d] = AddRoute(table[m][d], n, Offered(a, d))
    BY <2>1 DEF TypeOK
  <2>5. NoRouteToSelf'
    BY <2>2, <2>3, NetAssumption DEF NoRouteToSelf, IsRoute
  <2>6. ASSUME NEW d \in Dst, IsRoute(table'[m][d]), table'[m][d] # table[m][d]
        PROVE  table'[m][d].via = n /\ (IsRoute(table[n][d]) => table[n][d].via # m)
    <3>1. d \in DOMAIN a.costs /\ d # m
      BY <2>3, <2>6
    <3>2. a.costs \in [DOMAIN a.costs -> 0 .. Infinity]
      BY AnnouncementType DEF TypeOK
    <3>3. Offered(a, d) \in Nat /\ Offered(a, d) = a.costs[d] + 1
      BY <3>1, <3>2, CostAssumption DEF Offered
    <3>4. table[m][d] \in Route
      BY DEF TypeOK
    <3>5. table'[m][d].via = n /\ Offered(a, d) < Infinity
      BY <2>4, <2>6, <3>1, <3>3, <3>4, AddRouteCases
    <3>6. ASSUME IsRoute(table[n][d]), table[n][d].via = m PROVE FALSE
      <4>1. d # n
        BY <3>6 DEF NoRouteToSelf
      <4>2. a.costs[d] = Infinity
        BY <3>1, <3>6, <4>1 DEF Announcement
      <4> QED
        BY <3>3, <3>5, <4>2, CostAssumption
    <3> QED
      BY <3>5, <3>6
  <2>7. Apart'
    <3> SUFFICES ASSUME NEW k \in Node, NEW l \in Node, NEW d \in Dst,
                        IsRoute(table'[k][d]), IsRoute(table'[l][d]),
                        table'[k][d].via = l, table'[l][d].via = k
                 PROVE  FALSE
      BY DEF Apart, IsRoute
    <3>1. \A i \in Node, j \in Node : IsRoute(table[i][d]) /\ IsRoute(table[j][d])
                            => ~(table[i][d].via = j /\ table[j][d].via = i)
      BY DEF Apart
    <3>2. CASE table'[m][d] = table[m][d]
      BY <2>2, <3>1, <3>2
    <3>3. CASE table'[m][d] # table[m][d]
      BY <2>2, <2>6, <3>1, <3>3
    <3> QED
      BY <3>2, <3>3
  <2> QED
    BY <2>5, <2>7
<1> QED
  BY <1>3, <1>4

\* An entry replaced by itself, an older self, or none keeps both properties.
LEMMA ThinningStep ==
    ASSUME NoRouteToSelf, Apart, table' \in [Node -> [Dst -> Route]],
           \A n \in Node, d \in Dst : IsRoute(table'[n][d]) =>
               IsRoute(table[n][d]) /\ table'[n][d].via = table[n][d].via
    PROVE  NoRouteToSelf' /\ Apart'
<1>1. NoRouteToSelf'
  BY NetAssumption DEF NoRouteToSelf, IsRoute
<1>2. Apart'
  <2> SUFFICES ASSUME NEW k \in Node, NEW l \in Node, NEW d \in Dst,
                      IsRoute(table'[k][d]), IsRoute(table'[l][d]),
                      table'[k][d].via = l, table'[l][d].via = k
               PROVE  FALSE
    BY DEF Apart, IsRoute
  <2> QED
    BY DEF Apart
<1> QED
  BY <1>1, <1>2

\* Every action of a network that stays undisturbed keeps LoopInv.
LEMMA LoopStep ==
    ASSUME LoopInv, [RouteNext]_routeVars
    PROVE  LoopInv'
<1>1. TypeOK'
  BY TypeStep DEF LoopInv
<1> SUFFICES ASSUME Undisturbed'
             PROVE  NoRouteToSelf' /\ Apart'
  BY <1>1 DEF LoopInv
<1>2. Undisturbed /\ \A n \in Node : ~Restart(n)
  <2>1. CASE UNCHANGED routeVars
    BY <2>1 DEF routeVars, Undisturbed, Restart, LoopInv, TypeOK
  <2> USE DEF Undisturbed, LoopInv, TypeOK
  <2>2. ASSUME NEW n \in Node, NEW m \in Node, Announce(n, m) PROVE restarts' = restarts /\ outrun' = outrun
    BY <2>2 DEF Announce, HandleRouteAnnounce
  <2>3. ASSUME NEW a \in announced, ReceiveAnnouncement(a)
        PROVE restarts' = restarts /\ (outrun => outrun')
    BY <2>3 DEF ReceiveAnnouncement, HandleRouteAnnounce
  <2>4. ASSUME NEW n \in Node, AgeRoutes(n) \/ CleanupRoutes(n) PROVE restarts' = restarts /\ outrun' = outrun
    BY <2>4 DEF AgeRoutes, CleanupRoutes
  <2>5. ASSUME NEW n \in Node, Restart(n) PROVE FALSE
    BY <2>5 DEF Restart
  <2>6. ASSUME NEW l \in Link, LinkDown(l) \/ LinkUp(l) PROVE restarts' = restarts /\ outrun' = outrun
    BY <2>6 DEF LinkDown, LinkUp
  <2> QED
    BY <2>1, <2>2, <2>3, <2>4, <2>5, <2>6 DEF RouteNext
<1>3. TypeOK /\ NoRouteToSelf /\ Apart
  BY <1>2 DEF LoopInv
<1>4. ASSUME UNCHANGED table PROVE NoRouteToSelf' /\ Apart'
  BY <1>3, <1>4 DEF NoRouteToSelf, Apart, IsRoute
<1>5. ASSUME NEW n \in Node, NEW m \in Node, Announce(n, m)
      PROVE  NoRouteToSelf' /\ Apart'
  <2> DEFINE a == [from |-> n, to |-> m, costs |-> Announcement(n, m)]
  <2>1. n # m
    BY <1>3, <1>5, TwoEnds DEF Announce, TypeOK
  <2>2. CASE HandleRouteAnnounce(a)
    <3>1. a.from = n /\ a.to = m /\ a.costs = Announcement(n, m)
      OBVIOUS
    <3> HIDE DEF a
    <3> QED
      BY <1>3, <2>1, <2>2, <3>1, HandleStep
  <2>3. CASE UNCHANGED table
    BY <1>4, <2>3
  <2> QED
    BY <1>5, <2>2, <2>3 DEF Announce
<1>6. ASSUME NEW a \in announced, ReceiveAnnouncement(a)
      PROVE  NoRouteToSelf' /\ Apart'
  <2>1. a.from \in Node /\ a.to \in Node /\ {a.from, a.to} \in Link
    BY <1>3 DEF TypeOK, IsAnnouncement
  <2>2. a.from # a.to
    BY <2>1, LinkEnds
  <2>3. a.costs = Announcement(a.from, a.to)
    BY <1>6 DEF ReceiveAnnouncement, Undisturbed
  <2>4. HandleRouteAnnounce(a)
    BY <1>6 DEF ReceiveAnnouncement
  <2> QED
    BY <1>3, <2>1, <2>2, <2>3, <2>4, HandleStep
<1>7. \A k \in Node, d \in Dst : table[k][d] \in Route
  BY <1>3 DEF TypeOK
<1>8. table' \in [Node -> [Dst -> Route]]
  BY <1>1 DEF TypeOK
<1>9. ASSUME NEW n \in Node, AgeRoutes(n)
      PROVE  NoRouteToSelf' /\ Apart'
  <2>1. \A k \in Node, d \in Dst : table'[k][d] = table[k][d] \/ table'[k][d] = Older(table[k][d])
    BY <1>3, <1>9 DEF AgeRoutes, TypeOK
  <2>2. \A r \in Route : IsRoute(Older(r)) => IsRoute(r) /\ Older(r).via = r.via
    BY CostAssumption DEF Older, IsRoute, Route, NoRoute, AgeCap, Ttl
  <2> QED
    BY <1>3, <1>7, <1>8, <2>1, <2>2, ThinningStep
<1>10. ASSUME NEW n \in Node, CleanupRoutes(n)
       PROVE  NoRouteToSelf' /\ Apart'
  <2>1. \A k \in Node, d \in Dst : table'[k][d] = table[k][d] \/ table'[k][d] = Kept(table[k][d])
    BY <1>3, <1>10 DEF CleanupRoutes, TypeOK
  <2>2. \A r \in Route : IsRoute(Kept(r)) => Kept(r) = r
    BY DEF Kept, IsRoute, NoRoute
  <2> QED
    BY <1>3, <1>7, <1>8, <2>1, <2>2, ThinningStep
<1> QED
  BY <1>2, <1>4, <1>5, <1>6, <1>9, <1>10 DEF RouteNext, routeVars, LinkDown, LinkUp

\* docs/SECURITY.md, "Split horizon + poisoned reverse prevent two-hop loops":
\* true of every network, whatever connections come and go and whatever expires
\* when, until an announcement is outrun or a node restarts from its file.
THEOREM LoopFree == Spec => []NoTwoHopLoop
<1>1. Init => LoopInv
  <2> SUFFICES ASSUME Init PROVE LoopInv
    OBVIOUS
  <2>1. \A n \in Node, d \in Dst : table[n][d] = NoRoute
    BY DEF Init, NoTable
  <2>2. \A n \in Node, d \in Dst : ~IsRoute(table[n][d])
    BY <2>1 DEF IsRoute, NoRoute
  <2> QED
    BY TypeInit, <2>2, NetAssumption DEF LoopInv, NoRouteToSelf, Apart
<1>2. LoopInv /\ [RouteNext]_routeVars => LoopInv'
  BY LoopStep
<1>3. LoopInv => NoTwoHopLoop
  BY DEF LoopInv, Undisturbed, Apart, NoTwoHopLoop
<1> QED
  BY <1>1, <1>2, <1>3, PTL DEF Spec

-----------------------------------------------------------------------------
(***************************************************************************)
(* The cost of a route is the length of a walk.  The walk of what a node   *)
(* learns is the announcer's with one connection before it, so the         *)
(* announcements in flight and the routes files must have walks too.       *)
(***************************************************************************)
TableWalks == \A n \in Node, d \in Dst : IsRoute(table[n][d]) => Walk(Link, n, d, table[n][d].cost)
SavedWalks == \A n \in Node, d \in Dst : IsRoute(saved[n][d]) => Walk(Link, n, d, saved[n][d].cost)
OfferWalks(a) ==
    \A d \in DOMAIN a.costs : d \in Dst /\ (a.costs[d] = Infinity \/ Walk(Link, a.from, d, a.costs[d]))

WalkInv == TypeOK /\ TableWalks /\ SavedWalks /\ \A a \in announced : OfferWalks(a)

LEMMA WalkStays == ASSUME NEW n \in Node PROVE Walk(Link, n, n, 0)
<1> DEFINE p == [i \in 0 .. 0 |-> n]
<1>1. p \in [0 .. 0 -> Node] /\ p[0] = n /\ \A i \in 1 .. 0 : {p[i - 1], p[i]} \in Link
  OBVIOUS
<1> QED
  BY <1>1 DEF Walk

LEMMA WalkExtends ==
    ASSUME NEW n \in Node, NEW m \in Node, NEW d, NEW k \in Nat, {m, n} \in Link, Walk(Link, n, d, k)
    PROVE  Walk(Link, m, d, k + 1)
<1>1. PICK p \in [0 .. k -> Node] :
        p[0] = n /\ p[k] = d /\ \A i \in 1 .. k : {p[i - 1], p[i]} \in Link
  BY DEF Walk
<1> DEFINE q == [i \in 0 .. k + 1 |-> IF i = 0 THEN m ELSE p[i - 1]]
<1>2. q \in [0 .. k + 1 -> Node]
  BY <1>1
<1>3. q[0] = m /\ q[k + 1] = d
  BY <1>1
<1>4. ASSUME NEW i \in 1 .. k + 1 PROVE {q[i - 1], q[i]} \in Link
  <2>1. CASE i = 1
    <3>1. 1 \in 0 .. k + 1 /\ 0 \in 0 .. k + 1 /\ 1 - 1 = 0
      OBVIOUS
    <3>2. q[1] = p[0] /\ q[0] = m
      BY <3>1
    <3> HIDE DEF q
    <3> QED
      BY <1>1, <2>1, <3>1, <3>2
  <2>2. CASE i # 1
    <3>1. i - 1 \in 1 .. k /\ i - 1 # 0 /\ i # 0 /\ i - 1 \in 0 .. k + 1 /\ i \in 0 .. k + 1
      BY <2>2
    <3>2. q[i] = p[i - 1] /\ q[i - 1] = p[(i - 1) - 1]
      BY <3>1
    <3> HIDE DEF q
    <3> QED
      BY <1>1, <3>1, <3>2
  <2> QED
    BY <2>1, <2>2
<1> HIDE DEF q
<1> QED
  BY <1>2, <1>3, <1>4 DEF Walk

LEMMA AnnouncementWalks ==
    ASSUME TypeOK, TableWalks, NEW n \in Node, NEW m \in Node, NEW a, a.from = n,
           a.costs = Announcement(n, m)
    PROVE  OfferWalks(a)
<1> SUFFICES ASSUME NEW d \in DOMAIN a.costs
             PROVE  d \in Dst /\ (a.costs[d] = Infinity \/ Walk(Link, n, d, a.costs[d]))
  BY DEF OfferWalks
<1>1. d \in Dst /\ (d = n \/ IsRoute(table[n][d]))
  BY DEF Announcement
<1>2. CASE d = n
  <2>1. a.costs[d] = 0
    BY <1>1, <1>2 DEF Announcement
  <2> QED
    BY <1>1, <1>2, <2>1, WalkStays
<1>3. CASE d # n
  <2>1. a.costs[d] = IF table[n][d].via = m THEN Infinity ELSE table[n][d].cost
    BY <1>1, <1>3 DEF Announcement
  <2> QED
    BY <1>1, <1>3, <2>1 DEF TableWalks
<1> QED
  BY <1>2, <1>3

LEMMA HandleWalks ==
    ASSUME TypeOK, TableWalks, NEW a, a.from \in Node, a.to \in Node, {a.from, a.to} \in Link,
           a.costs \in [DOMAIN a.costs -> 0 .. Infinity], OfferWalks(a), HandleRouteAnnounce(a)
    PROVE  TableWalks'
<1>1. CASE Mode[a.to] = "off"
  BY <1>1 DEF HandleRouteAnnounce, TableWalks, IsRoute
<1>2. CASE Mode[a.to] # "off"
  <2>1. table' = [table EXCEPT ![a.to] = [d \in Dst |-> IF d \in DOMAIN a.costs /\ d # a.to
                                   THEN AddRoute(table[a.to][d], a.from, Offered(a, d))
                                   ELSE table[a.to][d]]]
    BY <1>2 DEF HandleRouteAnnounce
  <2>2. \A k \in Node : k # a.to => table'[k] = table[k]
    BY <2>1 DEF TypeOK
  <2>3. ASSUME NEW d \in Dst, IsRoute(table'[a.to][d])
        PROVE  Walk(Link, a.to, d, table'[a.to][d].cost)
    <3>1. CASE ~(d \in DOMAIN a.costs /\ d # a.to)
      <4>1. table'[a.to][d] = table[a.to][d]
        BY <2>1, <3>1 DEF TypeOK
      <4> QED
        BY <2>3, <4>1 DEF TableWalks
    <3>2. CASE d \in DOMAIN a.costs /\ d # a.to
      <4>1. table'[a.to][d] = AddRoute(table[a.to][d], a.from, Offered(a, d))
        BY <2>1, <3>2 DEF TypeOK
      <4>2. Offered(a, d) = a.costs[d] + 1 /\ a.costs[d] \in 0 .. Infinity
        BY <3>2 DEF Offered
      <4>3. \/ table'[a.to][d] = table[a.to][d]
            \/ table'[a.to][d].cost = Offered(a, d) /\ Offered(a, d) < Infinity
        BY <2>3, <4>1, <4>2, CostAssumption DEF AddRoute, IsRoute, NoRoute
      <4>4. CASE table'[a.to][d] = table[a.to][d]
        BY <2>3, <4>4 DEF TableWalks
      <4>5. CASE table'[a.to][d].cost = Offered(a, d) /\ Offered(a, d) < Infinity
        <5>1. a.costs[d] # Infinity /\ a.costs[d] \in Nat
          BY <4>2, <4>5, CostAssumption
        <5>2. Walk(Link, a.from, d, a.costs[d])
          BY <3>2, <5>1 DEF OfferWalks
        <5>3. {a.to, a.from} = {a.from, a.to}
          OBVIOUS
        <5> QED
          BY <4>2, <4>5, <5>1, <5>2, <5>3, WalkExtends
      <4> QED
        BY <4>3, <4>4, <4>5
    <3> QED
      BY <3>1, <3>2
  <2> QED
    BY <2>2, <2>3 DEF TableWalks, IsRoute
<1> QED
  BY <1>1, <1>2

\* Every action keeps WalkInv.
LEMMA WalkStep ==
    ASSUME WalkInv, [RouteNext]_routeVars
    PROVE  WalkInv'
<1>0. TypeOK' /\ TypeOK /\ TableWalks /\ SavedWalks
  BY TypeStep DEF WalkInv
<1>1. ASSUME NEW n \in Node, NEW m \in Node, Announce(n, m) PROVE WalkInv'
  <2> DEFINE a == [from |-> n, to |-> m, costs |-> Announcement(n, m)]
  <2>1. {n, m} \in Link
    BY <1>0, <1>1, TwoEnds DEF Announce, TypeOK
  <2>2. a.from = n /\ a.to = m /\ a.costs = Announcement(n, m)
    OBVIOUS
  <2>3. CASE HandleRouteAnnounce(a) /\ UNCHANGED announced
    <3> HIDE DEF a
    <3>1. OfferWalks(a)
      BY <1>0, <2>2, AnnouncementWalks
    <3>2. a.costs \in [DOMAIN a.costs -> 0 .. Infinity]
      BY <1>0, <2>2, AnnouncementType DEF TypeOK
    <3>3. TableWalks'
      BY <1>0, <2>1, <2>2, <2>3, <3>1, <3>2, HandleWalks
    <3> QED
      BY <1>0, <2>3, <3>3 DEF WalkInv, SavedWalks, OfferWalks, HandleRouteAnnounce, IsRoute
  <2>4. CASE announced' = announced \cup {a} /\ UNCHANGED <<table, saved>>
    <3> HIDE DEF a
    <3>1. OfferWalks(a)
      BY <1>0, <2>2, AnnouncementWalks
    <3>2. \A b \in announced' : OfferWalks(b)
      BY <2>4, <3>1 DEF WalkInv
    <3> QED
      BY <1>0, <2>4, <3>2 DEF WalkInv, SavedWalks, TableWalks, OfferWalks, IsRoute
  <2> QED
    BY <1>1, <2>3, <2>4 DEF Announce
<1>2. ASSUME NEW a \in announced, ReceiveAnnouncement(a) PROVE WalkInv'
  <2>1. IsAnnouncement(a) /\ OfferWalks(a) /\ HandleRouteAnnounce(a)
    BY <1>2 DEF WalkInv, TypeOK, ReceiveAnnouncement
  <2>2. TableWalks'
    BY <1>0, <2>1, HandleWalks DEF IsAnnouncement
  <2> QED
    BY <1>0, <1>2, <2>2 DEF ReceiveAnnouncement, HandleRouteAnnounce, WalkInv, SavedWalks,
                            OfferWalks, IsRoute
<1>3. \A k \in Node, d \in Dst : table[k][d] \in Route /\ saved[k][d] \in Route
  BY <1>0 DEF TypeOK
<1>4. \A r \in Route : /\ IsRoute(Older(r)) => IsRoute(r) /\ Older(r).cost = r.cost
                       /\ IsRoute(Kept(r)) => Kept(r) = r
                       /\ IsRoute(Reloaded(r)) => IsRoute(r) /\ Reloaded(r).cost = r.cost
  BY CostAssumption DEF Older, Kept, Reloaded, IsRoute, Route, NoRoute, AgeCap, Ttl
<1>5. ASSUME NEW n \in Node, AgeRoutes(n) PROVE WalkInv'
  <2>1. UNCHANGED <<saved, announced>>
    BY <1>5 DEF AgeRoutes
  <2>2. \A k \in Node, d \in Dst : table'[k][d] = table[k][d] \/ table'[k][d] = Older(table[k][d])
    BY <1>0, <1>5 DEF AgeRoutes, TypeOK
  <2>3. \A k \in Node, d \in Dst : IsRoute(table'[k][d]) =>
            IsRoute(table[k][d]) /\ table'[k][d].cost = table[k][d].cost
    BY <1>3, <1>4, <2>2
  <2> QED
    BY <1>0, <2>1, <2>3 DEF WalkInv, SavedWalks, TableWalks, OfferWalks, IsRoute
<1>6. ASSUME NEW n \in Node, CleanupRoutes(n) PROVE WalkInv'
  <2>1. UNCHANGED announced
    BY <1>6 DEF CleanupRoutes
  <2>2. \A k \in Node, d \in Dst : table'[k][d] = table[k][d] \/ table'[k][d] = Kept(table[k][d])
    BY <1>0, <1>6 DEF CleanupRoutes, TypeOK
  <2>3. \A k \in Node, d \in Dst : saved'[k][d] \in {saved[k][d], table'[k][d]}
    BY <1>0, <1>6 DEF CleanupRoutes, TypeOK
  <2>4. \A k \in Node, d \in Dst : IsRoute(table'[k][d]) => table'[k][d] = table[k][d]
    BY <1>3, <1>4, <2>2
  <2>5. TableWalks'
    BY <1>0, <2>4 DEF TableWalks, IsRoute
  <2>6. SavedWalks'
    BY <1>0, <2>3, <2>5 DEF SavedWalks, TableWalks, IsRoute
  <2> QED
    BY <1>0, <2>1, <2>5, <2>6 DEF WalkInv, OfferWalks
<1>7. ASSUME NEW n \in Node, Restart(n) PROVE WalkInv'
  <2>1. UNCHANGED saved /\ announced' \subseteq announced
    BY <1>7 DEF Restart
  <2>2. \A k \in Node, d \in Dst : table'[k][d] = table[k][d] \/ table'[k][d] = Reloaded(saved[k][d])
    BY <1>0, <1>7 DEF Restart, TypeOK
  <2>3. TableWalks'
    BY <1>0, <1>3, <1>4, <2>2 DEF TableWalks, SavedWalks, IsRoute
  <2> QED
    BY <1>0, <2>1, <2>3 DEF WalkInv, SavedWalks, OfferWalks, IsRoute
<1>8. ASSUME UNCHANGED <<table, saved>>, announced' \subseteq announced PROVE WalkInv'
  BY <1>0, <1>8 DEF WalkInv, SavedWalks, TableWalks, OfferWalks, IsRoute
<1> QED
  BY <1>1, <1>2, <1>5, <1>6, <1>7, <1>8 DEF RouteNext, routeVars, LinkDown, LinkUp

\* No table promises a shorter path than the network could have, for every network
\* and bound on the cost, whatever announcements cross, expire or are read back
\* from a routes file.
THEOREM CostsAreWalks == Spec => []NeverOptimistic
<1>1. Init => WalkInv
  <2> SUFFICES ASSUME Init PROVE WalkInv
    OBVIOUS
  <2>1. \A n \in Node, d \in Dst : table[n][d] = NoRoute /\ saved[n][d] = NoRoute
    BY DEF Init, NoTable
  <2>2. \A n \in Node, d \in Dst : ~IsRoute(table[n][d]) /\ ~IsRoute(saved[n][d])
    BY <2>1 DEF IsRoute, NoRoute
  <2> QED
    BY TypeInit, <2>2 DEF WalkInv, TableWalks, SavedWalks, Init
<1>2. WalkInv => NeverOptimistic
  <2> SUFFICES ASSUME WalkInv, NEW n \in Node, NEW d \in Dst, IsRoute(table[n][d])
               PROVE  table[n][d].cost \in WalkLengths[n][d]
    BY DEF NeverOptimistic
  <2>1. table[n][d] \in Route
    BY DEF WalkInv, TypeOK
  <2>2. table[n][d].cost \in 1 .. Infinity - 1
    BY <2>1, RouteFields
  <2> QED
    BY <2>2 DEF WalkInv, TableWalks, WalkLengths
<1> QED
  BY <1>1, <1>2, WalkStep, PTL DEF Spec
=============================================================================
