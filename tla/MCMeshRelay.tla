---------------------------- MODULE MCMeshRelay ----------------------------
(***************************************************************************)
(* MeshRelay, the cache it rests on, and the network it forms with the     *)
(* routing tables, in five environments; "env" is chosen at the start and  *)
(* never changes.  The constants of the .cfg are the first one: two        *)
(* messages of one source, re-sent, over routes that change all the time,  *)
(* past caches that remember.  The second is the same with nodes that do   *)
(* not relay, or have no router at all.  The cache runs by itself too:     *)
(* messages arrive from several sources, in any order and repeatedly, and  *)
(* entries age out.  MeshRelayProofs is about MeshRelay (extended) and the *)
(* cache for every value of the constants.                                 *)
(***************************************************************************)
EXTENDS MeshRelay

CONSTANTS
    CacheSources, CachePerSource,   \* bounds of the cache that runs by itself
    Src, Id,                        \* what arrives there
    MaxAdds                         \* bound: pairs it takes for new

VARIABLES
    env,
    cache,          \* DedupCache._sources of the cache by itself
    added,          \* history: pairs it took for new, in order
    expired,        \* how many of those are past their ttl
    up, table, saved, heard, announced, suspected, outrun, flaps, restarts, promised, packets

cacheVars == <<cache, added, expired>>
routeVars == <<up, table, saved, heard, announced, suspected, outrun, flaps, restarts>>
netVars == <<routeVars, promised, packets>>

MCSource == [m \in {"m1", "m2"} |-> "na"]
MCDest == [m \in {"m1", "m2"} |-> IF m = "m1" THEN "nc" ELSE "nd"]
AllRelay == [n \in Node |-> "relay"]

\* A passive source, two relays and a node with mesh_routing off, which is the
\* destination of one message and may be handed the other on its way.
MixedMode == [n \in Node |-> IF n = "na" THEN "passive" ELSE IF n = "nd" THEN "off" ELSE "relay"]
Mixed == INSTANCE MeshRelay WITH Mode <- MixedMode

\* One message among nodes whose caches forget at any time.
Forgetting == INSTANCE MeshRelay WITH Msg <- {"m1"}, MaxResends <- 1, Forgetful <- TRUE

\* A square with its tables and connections of its own: two ways round from one
\* corner to the other, the longer one just within the hops of a frame.
Square == INSTANCE MeshNetwork WITH
    Dst <- {"nd"}, Link <- {{"nd", "na"}, {"na", "nb"}, {"nb", "nc"}, {"nc", "nd"}}, Infinity <- 5,
    Timely <- TRUE, MaxFlaps <- 2, MaxRestarts <- 0,
    Msg <- {"m1"}, Source <- [m \in {"m1"} |-> "nc"], Dest <- [m \in {"m1"} |-> "nd"],
    SourcesMax <- 1, PerSourceMax <- 1, MaxResends <- 0, MaxHops <- 2, wire <- packets

-----------------------------------------------------------------------------
\* One DedupCache in use.
Cache == INSTANCE Dedup WITH SourcesMax <- CacheSources, PerSourceMax <- CachePerSource

CacheInit == cache = Cache!EmptyCache /\ added = <<>> /\ expired = 0

\* check_and_add and check_and_add_with_transport
SeeNew(src, id) ==
    /\ Len(added) < MaxAdds
    /\ ~Cache!IsDuplicate(cache, src, id)
    /\ cache' = Cache!CheckAndAdd(cache, src, id)
    /\ added' = Append(added, <<src, id>>)
    /\ UNCHANGED expired

SeeAgain(src, id) ==
    /\ Cache!IsDuplicate(cache, src, id)
    /\ cache' = Cache!CheckAndAdd(cache, src, id)
    /\ UNCHANGED <<added, expired>>

\* The adds before number k are past their ttl.
Expire(k) ==
    /\ k \in expired + 1 .. Len(added)
    /\ expired' = k
    /\ cache' = Cache!CleanupExpired(cache,
                     {added[i] : i \in 1 .. k} \ {added[i] : i \in k + 1 .. Len(added)})
    /\ UNCHANGED added

CacheNext ==
    \/ \E s \in Src, i \in Id : SeeNew(s, i) \/ SeeAgain(s, i)
    \/ \E k \in 1 .. MaxAdds : Expire(k)

CacheSpec == CacheInit /\ [][CacheNext]_cacheVars

-----------------------------------------------------------------------------
MCInit ==
    /\ CacheInit
    /\ \/ env \in {"memory", "mixed", "forgetting", "cache"} /\ Init
            /\ Square!Routing!Init /\ promised = {} /\ packets = {}
       \/ env = "network" /\ Square!Init /\ wire = {}

MCNext ==
    /\ \/ env = "memory" /\ Next /\ UNCHANGED <<cacheVars, netVars>>
       \/ env = "mixed" /\ Mixed!Next /\ UNCHANGED <<cacheVars, netVars>>
       \/ env = "forgetting" /\ Forgetting!Next /\ UNCHANGED <<cacheVars, netVars>>
       \/ env = "cache" /\ CacheNext /\ UNCHANGED <<relayVars, netVars>>
       \/ env = "network" /\ Square!Next /\ UNCHANGED <<cacheVars, wire>>
    /\ UNCHANGED env

mcVars == <<relayVars, cacheVars, netVars, env>>
In(e, A) == env = e /\ A /\ UNCHANGED <<cacheVars, env>>

\* Every connection has a receive loop that handles what arrives.
MCFairness ==
    \A n \in Node :
        /\ WF_mcVars(In("forgetting", /\ \E c \in wire : c.to = n /\ Forgetting!Handle(c)
                                      /\ UNCHANGED netVars))
        /\ WF_mcVars(In("network", /\ \E c \in packets : c.to = n /\ Square!HandleFrame(c)
                                   /\ UNCHANGED wire))

MCSpec == MCInit /\ [][MCNext]_mcVars /\ MCFairness

-----------------------------------------------------------------------------
\* Nodes whose caches remember implement MeshDelivery (_dispatch_message:
\* "Deliver each (source, msg_id) exactly once"), whatever nodes without a router
\* do between them.  Nothing is promised of what those publish: that is not shown.
Shown(mode) ==
    [n \in Node |-> IF mode[n] = "off" THEN [m \in Msg |-> 0] ELSE published[n]]

Remembering == INSTANCE MeshDelivery WITH
    sent <- IF env \in {"memory", "mixed"} THEN sent ELSE {},
    published <- IF env = "memory" THEN Shown(Mode)
                 ELSE IF env = "mixed" THEN Shown(MixedMode)
                 ELSE [n \in Node |-> [m \in Msg |-> 0]]
DeliversOnce == Remembering!Spec

\* No routing, no duplicate and no forgetful cache keeps a message circulating:
\* the TTL and the hop list alone end every copy's way.
NetworkDrains == env = "forgetting" => <>[](wire = {})

\* How many ids of the same source, and how many other sources, came after add k.
SameAfter(k) == Cardinality({j \in k + 1 .. Len(added) : added[j][1] = added[k][1]})
SourcesAfter(k) == Cardinality({added[j][1] : j \in k + 1 .. Len(added)} \ {added[k][1]})

\* A pair is forgotten only for its age, or after per_source_max newer ids of
\* its own source, or after sources_max other sources: no flood by one source
\* makes the cache forget another one's messages.
CacheRemembers ==
    \A k \in expired + 1 .. Len(added) :
        SameAfter(k) < CachePerSource /\ SourcesAfter(k) < CacheSources
            => Cache!IsDuplicate(cache, added[k][1], added[k][2])

\* A message sent once the tables have settled, to a destination max_hops can
\* reach, is delivered unless the topology changes again: the tables lead to it,
\* and neither TTL, hop list nor duplicate checks stop it on the way.
PromiseKept == env = "network" => Square!PromiseKept
=============================================================================
