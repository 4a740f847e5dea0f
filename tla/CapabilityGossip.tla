-------------------------- MODULE CapabilityGossip --------------------------
(* How a node's capabilities spread: _capability_announce_loop (bridge.py),    *)
(* the CAPABILITY_ANNOUNCE branch of the frame dispatch (routing.py) and the   *)
(* CapabilityRegistry (capabilities.py).  One node, Origin, announces; the     *)
(* others verify its signature, remember the announcement as seen, keep the    *)
(* envelope and replay it verbatim to their own neighbours.  The registry      *)
(* keeps no timestamp: whatever announcement is accepted LAST is what a node   *)
(* believes, and the replay memory is all that keeps an old one from coming    *)
(* back.  An announcement is entered into that memory before its signature is  *)
(* checked.  (The unsigned form earlier versions send directly is left out.)   *)
EXTENDS Naturals, Sequences, FiniteSets

CONSTANTS
    Node, Origin,
    Neighbours,     \* [Node -> SUBSET Node]: online peers with a socket
    Pinned,         \* nodes that have pinned Origin's identity key
    CapSet,         \* capability sets Origin may have; {} is one of them
    MaxAge,         \* capability_announce_max_age
    DedupMax,       \* _ANNOUNCE_DEDUP_MAX
    Garbling,       \* bound: envelopes damaged by a relay that re-encoded them
    MaxClock,       \* bound on time
    MaxQueue,       \* bound: announcements in flight on one link
    None

VARIABLES
    now,
    local,      \* Origin's CapabilityRegistry._local
    known,      \* known[n]: CapabilityRegistry._remote[Origin] at n
    file,       \* file[n]: what the last successful save() wrote for Origin
    cache,      \* cache[n]: _signed_announce_cache[Origin], or None
    seen,       \* seen[n]: _announce_dedup, oldest entry first
    net,        \* net[m][n]: announcements on their way from m to n, in order
    garbled,    \* damages so far
    issued      \* history: the announcements Origin signed

capVars == <<now, local, known, file, cache, seen, net, garbled, issued>>

Other == Node \ {Origin}

Init ==
    /\ now = 0 /\ local \in CapSet /\ garbled = 0 /\ issued = {}
    /\ known = [n \in Other |-> {}]
    /\ file = [n \in Other |-> {}]
    /\ cache = [n \in Other |-> None]
    /\ seen = [n \in Other |-> << >>]
    /\ net = [m \in Node |-> [n \in Other |-> << >>]]

(* advertise_local, remove_local, set_local.                                   *)
SetLocal(caps) ==
    /\ caps # local
    /\ local' = caps
    /\ UNCHANGED <<now, known, file, cache, seen, net, garbled, issued>>

Room(m) == \A n \in Neighbours[m] \cap Other : Len(net[m][n]) < MaxQueue

Sent(m, e) ==
    [net EXCEPT ![m] = [n \in Other |-> IF n \in Neighbours[m] THEN Append(@[n], e) ELSE @[n]]]

(* One turn of Origin's loop: sign and send, unless it has no capability - a    *)
(* node that withdrew its last one says nothing at all.                        *)
AnnounceOwn ==
    /\ local # {} /\ Room(Origin)
    /\ \A e \in issued : e.stamp < now
    /\ LET e == [stamp |-> now, caps |-> local, good |-> TRUE]
       IN /\ issued' = issued \cup {e}
          /\ net' = Sent(Origin, e)
    /\ UNCHANGED <<now, local, known, file, cache, seen, garbled>>

(* One turn of a relay's loop: a stale envelope is dropped, one about a node    *)
(* whose capabilities it knows is replayed; and the registry is saved.         *)
Replay(n) ==
    /\ cache[n] # None /\ Room(n)
    /\ IF now - cache[n].stamp > MaxAge
       THEN /\ cache' = [cache EXCEPT ![n] = None]
            /\ UNCHANGED net
       ELSE /\ known[n] # {}
            /\ net' = Sent(n, cache[n])
            /\ UNCHANGED cache
    /\ file' = [file EXCEPT ![n] = known[n]]
    /\ UNCHANGED <<now, local, known, seen, garbled, issued>>

----------------------------------------------------------------------------
IsSeen(n, stamp) == \E i \in DOMAIN seen[n] : seen[n][i] = stamp
Remembered(n, stamp) ==
    LET longer == Append(seen[n], stamp)
    IN IF Len(longer) > DedupMax THEN Tail(longer) ELSE longer
MovedToEnd(n, stamp) ==
    Append(SelectSeq(seen[n], LAMBDA t : t # stamp), stamp)

KnownMerged(n, caps, saved) ==
    /\ known' = [known EXCEPT ![n] = @ \cup caps]
    /\ file' = [file EXCEPT ![n] = IF saved /\ caps # known[n] THEN caps ELSE @]

Known(n, caps, saved) ==
    /\ known' = [known EXCEPT ![n] = caps]
    /\ file' = [file EXCEPT ![n] = IF saved /\ caps # known[n] THEN caps ELSE @]

(* The handler, in the order of its checks: pinned origin, freshness, replay    *)
(* memory, signature; then the envelope is cached and the registry replaced,   *)
(* and saved when something changed (the save may fail).                       *)
Refuses(n, e) == n \notin Pinned \/ now - e.stamp > MaxAge

Handle(n, e) ==
    \/ /\ Refuses(n, e)
       /\ UNCHANGED <<seen, cache, known, file>>
    \/ /\ ~Refuses(n, e) /\ IsSeen(n, e.stamp)
       /\ seen' = [seen EXCEPT ![n] = MovedToEnd(n, e.stamp)]
       /\ UNCHANGED <<cache, known, file>>
    \/ /\ ~Refuses(n, e) /\ ~IsSeen(n, e.stamp)
       /\ seen' = [seen EXCEPT ![n] = Remembered(n, e.stamp)]
       /\ IF e.good
          THEN /\ cache' = [cache EXCEPT ![n] = e]
               /\ \E saved \in BOOLEAN : Known(n, e.caps, saved)
          ELSE UNCHANGED <<cache, known, file>>

Receive(m, n) ==
    /\ net[m][n] # << >>
    /\ net' = [net EXCEPT ![m][n] = Tail(@)]
    /\ Handle(n, Head(net[m][n]))
    /\ UNCHANGED <<now, local, garbled, issued>>

(* A relay sends on an envelope whose bytes no longer match the signature.      *)
Garble(n, m) ==
    /\ garbled < Garbling
    /\ cache[n] # None /\ Room(n) /\ m \in Neighbours[n] \cap Other
    /\ garbled' = garbled + 1
    /\ net' = [net EXCEPT ![n][m] =
                  Append(@, [cache[n] EXCEPT !.good = FALSE, !.caps = {}])]
    /\ UNCHANGED <<now, local, known, file, cache, seen, issued>>

(* A node restarts: the registry comes back from its file, the envelopes, the   *)
(* replay memory and what was on its way do not.                               *)
Restart(n) ==
    /\ known' = [known EXCEPT ![n] = file[n]]
    /\ cache' = [cache EXCEPT ![n] = None]
    /\ seen' = [seen EXCEPT ![n] = << >>]
    /\ net' = [m \in Node |-> [x \in Other |->
                  IF m = n \/ x = n THEN << >> ELSE net[m][x]]]
    /\ UNCHANGED <<now, local, file, garbled, issued>>

Tick ==
    /\ now < MaxClock
    /\ now' = now + 1
    /\ UNCHANGED <<local, known, file, cache, seen, net, garbled, issued>>

Next ==
    \/ \E caps \in CapSet : SetLocal(caps)
    \/ AnnounceOwn
    \/ \E n \in Other : Replay(n) \/ Restart(n)
    \/ \E m \in Node, n \in Other : Receive(m, n)
    \/ \E n \in Other, m \in Other : Garble(n, m)
    \/ Tick

Spec == Init /\ [][Next]_capVars

----------------------------------------------------------------------------
(* Whatever relays, restarts and damaged copies do, a node believes of Origin   *)
(* only a set that Origin announced.                                           *)
OnlyAnnounced ==
    \A n \in Other : known[n] # {} => \E e \in issued : e.caps = known[n]

Quiet == \A m \in Node, n \in Other : net[m][n] = << >>

(* Rounds that do not overlap: the loops' intervals are minutes, an             *)
(* announcement takes a moment, so what one loop sends has arrived before the  *)
(* next one turns; and Origin announces once per interval.                     *)
CalmTick == Quiet /\ (\E e \in issued : e.stamp = now) /\ Tick
CalmAnnounce == Quiet /\ AnnounceOwn
CalmReplay(n) == Quiet /\ Replay(n)
CalmNext ==
    \/ CalmTick \/ CalmAnnounce
    \/ \E n \in Other : CalmReplay(n)
    \/ \E m \in Node, n \in Other : Receive(m, n)
    \/ /\ Quiet /\ now < MaxClock
       /\ \/ \E caps \in CapSet : SetLocal(caps)
          \/ \E n, m \in Other : Garble(n, m)

(* With rounds that do not overlap, every node that pinned Origin ends up with  *)
(* the capabilities of Origin's latest announcement, through any number of     *)
(* relays, even if a damaged copy took the place of the good one in between.   *)
Latest == CHOOSE e \in issued : \A d \in issued : d.stamp <= e.stamp
Current == issued # {} /\ \A n \in Pinned \ {Origin} : known[n] = Latest.caps
Settles == <>[](now = MaxClock /\ Current)
============================================================================
