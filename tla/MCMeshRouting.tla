--------------------------- MODULE MCMeshRouting ---------------------------
(***************************************************************************)
(* MeshRouting on two small networks; "env" is chosen at the start and     *)
(* never changes.  The constants of the .cfg are the calm one.             *)
(***************************************************************************)
EXTENDS MeshRouting

CONSTANTS nx, na, nb, nc

VARIABLE env

\* nx hangs on a triangle: losing nx-na leaves a three-node loop behind.
MCTriangle == {{nx, na}, {na, nb}, {nb, nc}, {nc, na}}
MCLine == {{nx, na}, {na, nb}}
AllRelay == [n \in Node |-> "relay"]

\* A line whose announcements are in flight for any time, whose routes expire
\* although their neighbour is alive, and one of whose daemons restarts.
Stormy == INSTANCE MeshRouting WITH
    Link <- MCLine, Instant <- FALSE, Timely <- FALSE, MaxFlaps <- 1, MaxRestarts <- 1

MCInit ==
    \/ env = "calm" /\ Init
    \/ env = "stormy" /\ Stormy!Init

MCNext ==
    /\ \/ env = "calm" /\ RouteNext
       \/ env = "stormy" /\ Stormy!RouteNext
    /\ UNCHANGED env

mcVars == <<routeVars, env>>
Calm(A) == env = "calm" /\ A /\ UNCHANGED env

\* announce_loop and cleanup_loop run as long as the daemon does, and time passes.
MCFairness ==
    \A n \in Node :
        /\ WF_mcVars(Calm(AgeRoutes(n)))
        /\ WF_mcVars(Calm(CleanupRoutes(n)))
        /\ \A m \in Node : {n, m} \in Link => WF_mcVars(Calm(Announce(n, m)))

MCSpec == MCInit /\ [][MCNext]_mcVars /\ MCFairness

-----------------------------------------------------------------------------
\* In the calm network every table comes to hold exactly the shortest routes
\* once connections stop changing: what is gone is forgotten by cleanup_loop,
\* the three-node loop it leaves behind included.
CalmConverges == env = "calm" => Converges
=============================================================================
