--------------------------- MODULE RegistryProofs ---------------------------
(***************************************************************************)
(* Proofs about ConnectionRegistry, for any two daemons, any number of     *)
(* connection slots and any failures: that ws_clients and the peers table  *)
(* agree, and that dials which cross on WebSocket settle on one connection *)
(* at both ends.                                                           *)
(***************************************************************************)
EXTENDS MCConnectionRegistry, TLAPS

\* There are two daemons, and "none" is no connection.
RegistryConstants ==
    /\ Smaller \in Node /\ \A n \in Node : \E m \in Node : m # n
    /\ None \notin Conn

Ends == {"shaking", "ready", "upgrading", "loop", "done"}
Sock == [dialer : Node, kind : {"ws", "rns"}, open : BOOLEAN, hello : BOOLEAN]

MapTypes ==
    /\ sock \in [Conn -> Sock]
    /\ end \in [Node -> [Conn -> Ends]]
    /\ client \in [Node -> Conn \cup {None}]
    /\ status \in [Node -> {"unknown", "online", "offline"}]
    /\ transport \in [Node -> {"ws", "rns"}]
    /\ sending \in [Node -> Conn \cup {None}]

\* One upgrade at a time holds _peer_lock, and nothing is registered meanwhile.
UpgradeInv ==
    \A n \in Node : \A c \in Conn : end[n][c] = "upgrading" =>
        /\ client[n] = None
        /\ \A d \in Conn \ {c} : end[n][d] # "upgrading"

MapInv == MapTypes /\ UpgradeInv /\ MapsAgree

LEMMA MapInit == ASSUME RegistryConstants PROVE Init => MapInv
  <1> SUFFICES ASSUME Init PROVE MapInv
    OBVIOUS
  <1>1. Unused \in Sock
    BY DEF RegistryConstants, Unused, Sock
  <1>2. MapTypes
    BY <1>1 DEF Init, MapTypes, Ends
  <1>3. UpgradeInv /\ MapsAgree
    BY DEF Init, UpgradeInv, MapsAgree, Locked
  <1> QED BY <1>2, <1>3 DEF MapInv

\* A dial takes a slot that no coroutine uses.
LEMMA MapDial ==
  ASSUME RegistryConstants, MapInv, NEW n \in Node, NEW k \in {"ws", "rns"}, Connect(n, k)
  PROVE  MapInv'
  <1> DEFINE c == CHOOSE d \in Conn : FreeSlot(d)
  <1>1. c \in Conn /\ FreeSlot(c)
    BY DEF Connect
  <1>2. /\ sock' = [sock EXCEPT ![c] = [dialer |-> n, kind |-> k, open |-> TRUE, hello |-> FALSE]]
        /\ end' = [m \in Node |-> [end[m] EXCEPT ![c] = "shaking"]]
        /\ UNCHANGED <<client, status, transport, sending>>
    BY DEF Connect
  <1> HIDE DEF c
  <1>3. \A m \in Node : end[m][c] = "done"
    BY <1>1 DEF FreeSlot
  <1>4. /\ \A m \in Node : end'[m][c] = "shaking"
        /\ \A m \in Node : \A d \in Conn \ {c} : end'[m][d] = end[m][d]
    BY <1>1, <1>2 DEF MapInv, MapTypes
  <1>5. \A d \in Conn \ {c} : sock'[d] = sock[d]
    BY <1>1, <1>2 DEF MapInv, MapTypes
  <1>6. MapTypes'
    <2>1. [dialer |-> n, kind |-> k, open |-> TRUE, hello |-> FALSE] \in Sock
      BY DEF Sock
    <2>2. sock' \in [Conn -> Sock]
      BY <1>2, <2>1 DEF MapInv, MapTypes
    <2>3. end' \in [Node -> [Conn -> Ends]]
      BY <1>2 DEF MapInv, MapTypes, Ends
    <2> QED BY <1>2, <2>2, <2>3 DEF MapInv, MapTypes
  <1>7. UpgradeInv'
    BY <1>2, <1>4 DEF MapInv, UpgradeInv
  <1>8. MapsAgree'
    <2> SUFFICES ASSUME NEW m \in Node
                 PROVE  /\ ~Locked(m)' => (status'[m] = "online" <=> client'[m] # None)
                        /\ client'[m] # None => /\ end'[m][client'[m]] = "loop"
                                                        /\ sock'[client'[m]].kind = transport'[m]
      BY DEF MapsAgree
    <2>1. Locked(m)' <=> Locked(m)
      BY <1>1, <1>3, <1>4 DEF Locked
    <2>2. client[m] # None => client[m] \in Conn \ {c}
      BY <1>3 DEF MapInv, MapTypes, MapsAgree
    <2> QED BY <1>2, <1>4, <1>5, <2>1, <2>2 DEF MapInv, MapsAgree
  <1> QED BY <1>6, <1>7, <1>8 DEF MapInv

\* Closing a connection, and noting its HELLO, leave its kind.
LEMMA KeptKinds ==
  ASSUME MapTypes, NEW c \in Conn
  PROVE  /\ Closed(c) \in [Conn -> Sock]
         /\ \A d \in Conn : Closed(c)[d].kind = sock[d].kind
         /\ [sock EXCEPT ![c].hello = TRUE] \in [Conn -> Sock]
         /\ \A d \in Conn : [sock EXCEPT ![c].hello = TRUE][d].kind = sock[d].kind
  <1>1. /\ [sock[c] EXCEPT !.open = FALSE] \in Sock
        /\ [sock[c] EXCEPT !.open = FALSE].kind = sock[c].kind
        /\ [sock[c] EXCEPT !.hello = TRUE] \in Sock
        /\ [sock[c] EXCEPT !.hello = TRUE].kind = sock[c].kind
    BY DEF MapTypes, Sock
  <1> QED BY <1>1 DEF MapTypes, Closed

LEMMA LeaveKeeps ==
  ASSUME MapTypes, NEW n \in Node, NEW c \in Conn, sock' = Leave(n, c)
  PROVE  sock' \in [Conn -> Sock] /\ \A d \in Conn : sock'[d].kind = sock[d].kind
  BY KeptKinds DEF MapTypes, Leave

\* What a step of one coroutine does to the places of all.
LEMMA EndMoves ==
  ASSUME MapTypes, NEW n \in Node, NEW c \in Conn, NEW v \in Ends, end' = [end EXCEPT ![n][c] = v]
  PROVE  /\ end' \in [Node -> [Conn -> Ends]]
         /\ end'[n][c] = v
         /\ \A d \in Conn \ {c} : end'[n][d] = end[n][d]
         /\ \A m \in Node \ {n} : end'[m] = end[m]
  BY DEF MapTypes

\* A coroutine moves on before it has registered anything.
LEMMA MapMove ==
  ASSUME MapInv, NEW n \in Node, NEW c \in Conn, NEW v \in {"ready", "done"},
         end[n][c] \in {"shaking", "ready"}, end' = [end EXCEPT ![n][c] = v],
         sock' \in [Conn -> Sock], \A d \in Conn : sock'[d].kind = sock[d].kind,
         UNCHANGED <<client, status, transport, sending>>
  PROVE  MapInv'
  <1>0. MapTypes /\ v \in Ends
    BY DEF MapInv, Ends
  <1>1. /\ end' \in [Node -> [Conn -> Ends]] /\ end'[n][c] = v
        /\ \A d \in Conn \ {c} : end'[n][d] = end[n][d]
        /\ \A m \in Node \ {n} : end'[m] = end[m]
    BY <1>0, EndMoves, ZenonT(30)
  <1>2. MapTypes'
    BY <1>1 DEF MapInv, MapTypes
  <1>3. UpgradeInv'
    BY <1>1 DEF MapInv, UpgradeInv
  <1>4. \A m \in Node : Locked(m)' <=> Locked(m)
    BY <1>1 DEF Locked
  <1>5. \A m \in Node : client[m] # None => client[m] \in Conn /\ end'[m][client[m]] = "loop"
    BY <1>1 DEF MapInv, MapTypes, MapsAgree
  <1>6. MapsAgree'
    BY <1>4, <1>5 DEF MapInv, MapsAgree
  <1> QED BY <1>2, <1>3, <1>6 DEF MapInv

\* The handshake, up to the point where it registers or gives up.
LEMMA MapShake ==
  ASSUME MapInv, NEW n \in Node, NEW c \in Conn,
         ServerHello(n, c) \/ ClientHello(n, c) \/ Refuse(n, c)
  PROVE  MapInv'
  <1>0. MapTypes
    BY DEF MapInv
  <1>1. CASE ServerHello(n, c)
    <2>1. /\ end[n][c] = "shaking" /\ end' = [end EXCEPT ![n][c] = "ready"]
          /\ sock' = [sock EXCEPT ![c].hello = TRUE] /\ UNCHANGED <<client, status, transport, sending>>
      BY <1>1 DEF ServerHello
    <2>2. sock' \in [Conn -> Sock] /\ \A d \in Conn : sock'[d].kind = sock[d].kind
      BY <1>0, <2>1, KeptKinds
    <2> QED BY <2>1, <2>2, MapMove
  <1>2. CASE ClientHello(n, c)
    <2>1. /\ end[n][c] = "shaking" /\ end' = [end EXCEPT ![n][c] = "ready"]
          /\ UNCHANGED <<sock, client, status, transport, sending>>
      BY <1>2 DEF ClientHello
    <2> QED BY <1>0, <2>1, MapMove DEF MapTypes
  <1>3. CASE Refuse(n, c)
    <2>1. /\ end[n][c] = "shaking" /\ end' = [end EXCEPT ![n][c] = "done"]
          /\ sock' = Leave(n, c) /\ UNCHANGED <<client, status, transport, sending>>
      BY <1>3 DEF Refuse
    <2> QED BY <1>0, <2>1, LeaveKeeps, MapMove
  <1> QED BY <1>1, <1>2, <1>3

\* A duplicate is dropped: it is never the one that is registered, so the server's
\* finally leaves both maps alone.
LEMMA MapDrop ==
  ASSUME RegistryConstants, MapInv, NEW n \in Node, NEW c \in Conn, DropDuplicate(n, c)
  PROVE  MapInv'
  <1>1. /\ end[n][c] = "ready" /\ end' = [end EXCEPT ![n][c] = "done"]
        /\ sock' = Leave(n, c) /\ UNCHANGED <<transport, sending>>
        /\ UNCHANGED <<client, status>> \/ Teardown(n, c)
    BY DEF DropDuplicate
  <1>2. ~Owns(n, c)
    BY <1>1 DEF MapInv, MapsAgree, Owns, RegistryConstants
  <1>3. UNCHANGED <<client, status>>
    BY <1>1, <1>2 DEF Teardown
  <1> QED BY <1>1, <1>3, LeaveKeeps, MapMove DEF MapInv

\* The registration, under the lock or at the end of an upgrade.
LEMMA MapInstall ==
  ASSUME RegistryConstants, MapInv, NEW n \in Node, NEW c \in Conn,
         Register(n, c) \/ FinishUpgrade(n, c)
  PROVE  MapInv'
  <1>0. MapTypes /\ UpgradeInv
    BY DEF MapInv
  <1>1. /\ end' = [end EXCEPT ![n][c] = "loop"] /\ client' = [client EXCEPT ![n] = c]
        /\ status' = [status EXCEPT ![n] = "online"]
        /\ transport' = [transport EXCEPT ![n] = sock[c].kind]
        /\ UNCHANGED <<sending, sock>>
    BY DEF Register, FinishUpgrade, Install
  <1>2. \A d \in Conn \ {c} : end[n][d] # "upgrading"
    BY <1>0 DEF Register, FinishUpgrade, Locked, UpgradeInv
  <1>3. /\ end' \in [Node -> [Conn -> Ends]] /\ end'[n][c] = "loop"
        /\ \A d \in Conn \ {c} : end'[n][d] = end[n][d]
        /\ \A m \in Node \ {n} : end'[m] = end[m]
    BY <1>0, <1>1, EndMoves DEF Ends
  <1>4. /\ client'[n] = c /\ status'[n] = "online" /\ transport'[n] = sock[c].kind
        /\ \A m \in Node \ {n} : /\ client'[m] = client[m] /\ status'[m] = status[m]
                                 /\ transport'[m] = transport[m]
    BY <1>0, <1>1 DEF MapTypes
  <1>5. sock[c].kind \in {"ws", "rns"}
    BY <1>0 DEF MapTypes, Sock
  <1>6. MapTypes'
    BY <1>0, <1>1, <1>3, <1>5 DEF MapTypes
  <1>7. UpgradeInv'
    BY <1>0, <1>2, <1>3, <1>4 DEF UpgradeInv
  <1>8. MapsAgree'
    <2> SUFFICES ASSUME NEW m \in Node
                 PROVE  /\ ~Locked(m)' => (status'[m] = "online" <=> client'[m] # None)
                        /\ client'[m] # None => /\ end'[m][client'[m]] = "loop"
                                                        /\ sock'[client'[m]].kind = transport'[m]
      BY DEF MapsAgree
    <2>1. CASE m = n
      BY <1>1, <1>3, <1>4, <2>1 DEF RegistryConstants
    <2>2. CASE m # n
      <3>1. Locked(m)' <=> Locked(m)
        BY <1>3, <2>2 DEF Locked
      <3> QED BY <1>1, <1>3, <1>4, <2>2, <3>1 DEF MapInv, MapsAgree
    <2> QED BY <2>1, <2>2
  <1> QED BY <1>6, <1>7, <1>8 DEF MapInv

\* The lock is taken, the old connection closed and its entry dropped.
LEMMA MapUpgrade ==
  ASSUME RegistryConstants, MapInv, NEW n \in Node, NEW c \in Conn, StartUpgrade(n, c)
  PROVE  MapInv'
  <1>0. MapTypes /\ UpgradeInv
    BY DEF MapInv
  <1>1. /\ end' = [end EXCEPT ![n][c] = "upgrading"] /\ client' = [client EXCEPT ![n] = None]
        /\ client[n] # None /\ sock' = Closed(client[n]) /\ ~Locked(n)
        /\ UNCHANGED <<status, transport, sending>>
    BY DEF StartUpgrade, Duplicate
  <1>2. client[n] \in Conn
    BY <1>0, <1>1 DEF MapTypes
  <1>3. sock' \in [Conn -> Sock] /\ \A d \in Conn : sock'[d].kind = sock[d].kind
    BY <1>0, <1>1, <1>2, KeptKinds
  <1>4. /\ end' \in [Node -> [Conn -> Ends]] /\ end'[n][c] = "upgrading"
        /\ \A d \in Conn \ {c} : end'[n][d] = end[n][d]
        /\ \A m \in Node \ {n} : end'[m] = end[m]
    BY <1>0, <1>1, EndMoves DEF Ends
  <1>5. /\ client'[n] = None /\ \A m \in Node \ {n} : client'[m] = client[m]
        /\ client' \in [Node -> Conn \cup {None}]
    BY <1>0, <1>1 DEF MapTypes
  <1>6. MapTypes'
    BY <1>0, <1>1, <1>3, <1>4, <1>5 DEF MapTypes
  <1>7. UpgradeInv'
    BY <1>0, <1>1, <1>4, <1>5 DEF UpgradeInv, Locked
  <1>8. MapsAgree'
    <2> SUFFICES ASSUME NEW m \in Node
                 PROVE  /\ ~Locked(m)' => (status'[m] = "online" <=> client'[m] # None)
                        /\ client'[m] # None => /\ end'[m][client'[m]] = "loop"
                                                        /\ sock'[client'[m]].kind = transport'[m]
      BY DEF MapsAgree
    <2>1. CASE m = n
      BY <1>4, <1>5, <2>1 DEF Locked
    <2>2. CASE m # n
      <3>1. Locked(m)' <=> Locked(m)
        BY <1>4, <2>2 DEF Locked
      <3>2. client[m] # None => client[m] \in Conn
        BY <1>0 DEF MapTypes
      <3> QED BY <1>1, <1>3, <1>4, <1>5, <2>2, <3>1, <3>2 DEF MapInv, MapsAgree
    <2> QED BY <2>1, <2>2
  <1> QED BY <1>6, <1>7, <1>8 DEF MapInv

\* A peer goes offline in both maps, whatever becomes of the sockets.
LEMMA MapOffline ==
  ASSUME MapInv, NEW n \in Node, Offline(n),
         sock' \in [Conn -> Sock], \A d \in Conn : sock'[d].kind = sock[d].kind,
         sending' \in [Node -> Conn \cup {None}], UNCHANGED <<end, transport>>
  PROVE  MapInv'
  <1>0. MapTypes /\ UpgradeInv
    BY DEF MapInv
  <1>1. /\ client'[n] = None /\ status'[n] = "offline"
        /\ \A m \in Node \ {n} : client'[m] = client[m] /\ status'[m] = status[m]
        /\ client' \in [Node -> Conn \cup {None}]
        /\ status' \in [Node -> {"unknown", "online", "offline"}]
    BY <1>0 DEF MapTypes, Offline
  <1>2. MapTypes'
    BY <1>0, <1>1 DEF MapTypes
  <1>3. UpgradeInv'
    BY <1>0, <1>1 DEF UpgradeInv
  <1>4. \A m \in Node : Locked(m)' <=> Locked(m)
    BY DEF Locked
  <1>5. \A m \in Node : client[m] # None => client[m] \in Conn
    BY <1>0 DEF MapTypes
  <1>6. MapsAgree'
    BY <1>1, <1>4, <1>5 DEF MapInv, MapsAgree
  <1> QED BY <1>2, <1>3, <1>6 DEF MapInv

\* Only the sockets or the senders change.
LEMMA MapRest ==
  ASSUME MapInv, sock' \in [Conn -> Sock], \A d \in Conn : sock'[d].kind = sock[d].kind,
         sending' \in [Node -> Conn \cup {None}], UNCHANGED <<end, client, status, transport>>
  PROVE  MapInv'
  <1>1. MapTypes' /\ UpgradeInv'
    BY DEF MapInv, MapTypes, UpgradeInv
  <1>2. \A m \in Node : Locked(m)' <=> Locked(m)
    BY DEF Locked
  <1>3. \A m \in Node : client[m] # None => client[m] \in Conn
    BY DEF MapInv, MapTypes
  <1>4. MapsAgree'
    BY <1>2, <1>3 DEF MapInv, MapsAgree
  <1> QED BY <1>1, <1>4 DEF MapInv

\* A message loop ends; only the registered one takes its peer offline.
LEMMA MapLoopEnd ==
  ASSUME RegistryConstants, MapInv, NEW n \in Node, NEW c \in Conn, LoopEnd(n, c)
  PROVE  MapInv'
  <1>0. MapTypes /\ UpgradeInv /\ "done" \in Ends
    BY DEF MapInv, Ends
  <1>1. /\ end[n][c] = "loop" /\ end' = [end EXCEPT ![n][c] = "done"] /\ Teardown(n, c)
        /\ UNCHANGED <<sock, transport, sending>>
    BY DEF LoopEnd
  <1>2. /\ end' \in [Node -> [Conn -> Ends]] /\ end'[n][c] = "done"
        /\ \A d \in Conn \ {c} : end'[n][d] = end[n][d]
        /\ \A m \in Node \ {n} : end'[m] = end[m]
    BY <1>0, <1>1, EndMoves
  <1>3. /\ \A m \in Node \ {n} : client'[m] = client[m] /\ status'[m] = status[m]
        /\ client' \in [Node -> Conn \cup {None}]
        /\ status' \in [Node -> {"unknown", "online", "offline"}]
        /\ \/ client'[n] = None /\ status'[n] = "offline"
           \/ client'[n] = client[n] /\ status'[n] = status[n] /\ client[n] # c
    BY <1>0, <1>1 DEF Teardown, Owns, MapTypes
  <1>4. MapTypes'
    BY <1>0, <1>1, <1>2, <1>3 DEF MapTypes
  <1>5. UpgradeInv'
    BY <1>0, <1>1, <1>2, <1>3 DEF UpgradeInv
  <1>6. MapsAgree'
    <2>1. \A m \in Node : Locked(m)' <=> Locked(m)
      BY <1>1, <1>2 DEF Locked
    <2>2. \A m \in Node : client[m] # None => client[m] \in Conn
      BY <1>0 DEF MapTypes
    <2> QED BY <1>1, <1>2, <1>3, <2>1, <2>2 DEF MapInv, MapsAgree
  <1> QED BY <1>4, <1>5, <1>6 DEF MapInv

\* Sends, silence and sockets that die.
LEMMA MapSends ==
  ASSUME MapInv, NEW n \in Node,
         StartSend(n) \/ EndSend(n) \/ RnsSilent(n)
  PROVE  MapInv'
  <1>0. MapTypes
    BY DEF MapInv
  <1>1. CASE StartSend(n)
    <2>1. sending' \in [Node -> Conn \cup {None}] /\ UNCHANGED <<sock, end, client, status, transport>>
      BY <1>0, <1>1 DEF MapTypes, StartSend
    <2> QED BY <1>0, <2>1, MapRest DEF MapTypes
  <1>2. CASE RnsSilent(n)
    <2>1. Offline(n) /\ UNCHANGED <<sock, end, transport, sending>>
      BY <1>2 DEF RnsSilent
    <2> QED BY <1>0, <2>1, MapOffline DEF MapTypes
  <1>3. CASE EndSend(n)
    <2>1. sending' \in [Node -> Conn \cup {None}] /\ UNCHANGED <<end, transport>>
      BY <1>0, <1>3 DEF MapTypes, EndSend
    <2>2. sending[n] \in Conn
      BY <1>0, <1>3 DEF MapTypes, EndSend
    <2>3. sock' = sock \/ sock' = Closed(sending[n])
      BY <1>3 DEF EndSend
    <2>4. sock' \in [Conn -> Sock] /\ \A d \in Conn : sock'[d].kind = sock[d].kind
      <3>1. CASE sock' = sock
        BY <1>0, <3>1 DEF MapTypes
      <3>2. CASE sock' = Closed(sending[n])
        BY <1>0, <2>2, <3>2, KeptKinds
      <3> QED BY <2>3, <3>1, <3>2
    <2>5. Offline(n) \/ UNCHANGED <<client, status>>
      BY <1>3 DEF EndSend
    <2> QED BY <2>1, <2>4, <2>5, MapOffline, MapRest
  <1> QED BY <1>1, <1>2, <1>3

LEMMA MapStep ==
  ASSUME RegistryConstants, MapInv, [Next]_vars PROVE MapInv'
  <1>0. MapTypes
    BY DEF MapInv
  <1>1. ASSUME UNCHANGED <<sock, end, client, status, transport, sending>> PROVE MapInv'
    BY <1>0, <1>1, MapRest DEF MapTypes
  <1>2. ASSUME NEW n \in Node, Dial(n) PROVE MapInv'
    <2>1. Other(transport[n]) \in {"ws", "rns"}
      BY DEF Other
    <2>2. ASSUME NEW k \in Kinds PROVE k \in {"ws", "rns"}
      BY DEF Kinds
    <2>3. \/ \E k \in {"ws", "rns"} : Connect(n, k)
          \/ UNCHANGED <<sock, end, client, status, transport, sending>>
      BY <1>2, <2>1, <2>2 DEF Dial, DialByName, DialById, DialAgain,
                              DialFailover, DialStartup
    <2> QED BY <1>1, <2>3, MapDial
  <1>3. ASSUME NEW n \in Node, NEW c \in Conn, Handle(n, c) PROVE MapInv'
    BY <1>3, MapShake, MapDrop, MapInstall, MapUpgrade, MapLoopEnd DEF Handle
  <1>4. ASSUME NEW c \in Conn, SockDies(c) PROVE MapInv'
    <2>1. sock' = Closed(c) /\ UNCHANGED <<end, client, status, transport, sending>>
      BY <1>4 DEF SockDies
    <2> QED BY <1>0, <2>1, KeptKinds, MapRest DEF MapTypes
  <1>5. ASSUME NEW n \in Node, ClaimExpires(n) PROVE MapInv'
    BY <1>1, <1>5 DEF ClaimExpires
  <1>6. CASE UNCHANGED vars
    BY <1>1, <1>6 DEF vars
  <1> QED BY <1>2, <1>3, <1>4, <1>5, <1>6, MapSends DEF Next

\* bridge.py, handshake.py, routing.py: whatever dials, duplicates, upgrades, failing
\* sends and dying sockets overlap, over any number of connections and on either
\* transport, peers and ws_clients agree outside an upgrade, and what is registered
\* is a connection of the recorded transport whose message loop runs.
THEOREM RegistrationsAgree ==
  ASSUME RegistryConstants PROVE Spec => []MapsAgree
  <1>1. MapInv => MapsAgree
    BY DEF MapInv
  <1>2. MapInv /\ [Next]_vars => MapInv'
    BY MapStep
  <1> QED BY <1>1, <1>2, MapInit, PTL DEF Spec

\* The environment of racing dials: WebSocket only, no send takes a connection away.
OnlyDialsRace == ~Rns /\ ~SendFaults

\* Then a loop that runs is the registered one, and neither end has left a connection
\* that is open.
RaceInv ==
    /\ \A c \in Conn : sock[c].kind = "ws"
    /\ \A n \in Node : transport[n] = "ws" /\ sending[n] = None
    /\ \A n \in Node : \A c \in Conn :
         /\ end[n][c] # "upgrading"
         /\ end[n][c] = "loop" => client[n] = c
         /\ sock[c].open => end[n][c] # "done"

LEMMA RaceInit == ASSUME RegistryConstants PROVE Init => RaceInv
  <1> SUFFICES ASSUME Init PROVE RaceInv
    OBVIOUS
  <1>1. Unused.kind = "ws" /\ ~Unused.open
    BY DEF Unused
  <1> QED BY <1>1 DEF Init, RaceInv

LEMMA RaceDial ==
  ASSUME RegistryConstants, MapInv, RaceInv, NEW n \in Node, Connect(n, "ws")
  PROVE  RaceInv'
  <1> DEFINE c == CHOOSE d \in Conn : FreeSlot(d)
             new == [dialer |-> n, kind |-> "ws", open |-> TRUE, hello |-> FALSE]
  <1>1. c \in Conn /\ FreeSlot(c)
    BY DEF Connect
  <1>2. /\ sock' = [sock EXCEPT ![c] = new]
        /\ end' = [m \in Node |-> [end[m] EXCEPT ![c] = "shaking"]]
        /\ UNCHANGED <<client, status, transport, sending>>
    BY DEF Connect
  <1>3. new.kind = "ws"
    OBVIOUS
  <1> HIDE DEF c, new
  <1>4. /\ \A m \in Node : end'[m][c] = "shaking"
        /\ \A m \in Node : \A d \in Conn \ {c} : end'[m][d] = end[m][d]
    BY <1>1, <1>2 DEF MapInv, MapTypes
  <1>5. sock'[c].kind = "ws" /\ \A d \in Conn \ {c} : sock'[d] = sock[d]
    BY <1>1, <1>2, <1>3 DEF MapInv, MapTypes
  <1> QED BY <1>2, <1>4, <1>5 DEF RaceInv

\* What closing and the HELLO leave of the sockets.
LEMMA ClosedSock ==
  ASSUME MapTypes, NEW c \in Conn
  PROVE  /\ ~Closed(c)[c].open
         /\ \A d \in Conn : Closed(c)[d].open => sock[d].open
         /\ \A d \in Conn : [sock EXCEPT ![c].hello = TRUE][d].open = sock[d].open
  <1>1. /\ ~[sock[c] EXCEPT !.open = FALSE].open
        /\ [sock[c] EXCEPT !.hello = TRUE].open = sock[c].open
    BY DEF MapTypes, Sock
  <1> QED BY <1>1 DEF MapTypes, Closed

\* No registration is dropped but that of c at n.
OthersStay(n, c) ==
    \A m \in Node : \A d \in Conn : client[m] = d /\ ~(m = n /\ d = c) => client'[m] = d

\* A coroutine moves on or leaves, closing its connection.
LEMMA RaceMove ==
  ASSUME MapInv, RaceInv, NEW n \in Node, NEW c \in Conn, NEW v \in {"ready", "done"},
         end' = [end EXCEPT ![n][c] = v],
         \A d \in Conn : sock'[d].kind = sock[d].kind,
         \A d \in Conn : sock'[d].open => sock[d].open,
         v = "done" => ~sock'[c].open,
         OthersStay(n, c),
         UNCHANGED <<transport, sending>>
  PROVE  RaceInv'
  <1>0. MapTypes /\ v \in Ends
    BY DEF MapInv, Ends
  <1>1. /\ end'[n][c] = v
        /\ \A d \in Conn \ {c} : end'[n][d] = end[n][d]
        /\ \A m \in Node \ {n} : end'[m] = end[m]
    BY <1>0, EndMoves, ZenonT(30)
  <1>2. \A m \in Node : \A d \in Conn :
          /\ end'[m][d] # "upgrading"
          /\ end'[m][d] = "loop" => client'[m] = d
          /\ sock'[d].open => end'[m][d] # "done"
    <2> SUFFICES ASSUME NEW m \in Node, NEW d \in Conn
                 PROVE  /\ end'[m][d] # "upgrading"
                        /\ end'[m][d] = "loop" => client'[m] = d
                        /\ sock'[d].open => end'[m][d] # "done"
      OBVIOUS
    <2>1. CASE m = n /\ d = c
      BY <1>1, <2>1
    <2>2. CASE ~(m = n /\ d = c)
      <3>1. end'[m][d] = end[m][d]
        BY <1>1, <2>2
      <3> QED BY <2>2, <3>1 DEF RaceInv, OthersStay
    <2> QED BY <2>1, <2>2
  <1> QED BY <1>2 DEF RaceInv

LEMMA RaceHandle ==
  ASSUME RegistryConstants, OnlyDialsRace, MapInv, RaceInv, NEW n \in Node, NEW c \in Conn,
         Handle(n, c)
  PROVE  RaceInv'
  <1>0. MapTypes
    BY DEF MapInv
  <1>1. sock[c].kind = "ws" /\ ~Locked(n) /\ ~Upgrade(n, c)
    BY DEF RaceInv, Locked, Upgrade
  <1>2. Leave(n, c) = Closed(c)
    BY <1>1 DEF Leave, LeftOpen
  <1>3. ASSUME sock' = Closed(c)
        PROVE  /\ ~sock'[c].open
               /\ \A d \in Conn : sock'[d].kind = sock[d].kind /\ (sock'[d].open => sock[d].open)
    <2>1. ~Closed(c)[c].open /\ \A d \in Conn : Closed(c)[d].open => sock[d].open
      BY <1>0, ClosedSock
    <2>2. \A d \in Conn : Closed(c)[d].kind = sock[d].kind
      BY <1>0, KeptKinds
    <2> QED BY <1>3, <2>1, <2>2
  <1>3a. UNCHANGED client => OthersStay(n, c)
    BY DEF OthersStay
  <1>4. CASE ServerHello(n, c)
    <2>1. /\ end[n][c] = "shaking" /\ end' = [end EXCEPT ![n][c] = "ready"]
          /\ sock' = [sock EXCEPT ![c].hello = TRUE] /\ UNCHANGED <<client, transport, sending>>
      BY <1>4 DEF ServerHello
    <2>2. \A d \in Conn : sock'[d].kind = sock[d].kind /\ (sock'[d].open => sock[d].open)
      BY <1>0, <2>1, KeptKinds, ClosedSock
    <2> QED BY <1>3a, <2>1, <2>2, RaceMove
  <1>5. CASE ClientHello(n, c)
    <2>1. /\ end[n][c] = "shaking" /\ end' = [end EXCEPT ![n][c] = "ready"]
          /\ UNCHANGED <<sock, client, transport, sending>>
      BY <1>5 DEF ClientHello
    <2> QED BY <1>3a, <2>1, RaceMove
  <1>6. CASE Refuse(n, c)
    <2>1. /\ end[n][c] = "shaking" /\ end' = [end EXCEPT ![n][c] = "done"]
          /\ sock' = Closed(c) /\ UNCHANGED <<client, transport, sending>>
      BY <1>2, <1>6 DEF Refuse
    <2> QED BY <1>3, <1>3a, <2>1, RaceMove
  <1>7. CASE DropDuplicate(n, c)
    <2>1. /\ end[n][c] = "ready" /\ end' = [end EXCEPT ![n][c] = "done"]
          /\ sock' = Closed(c) /\ UNCHANGED <<transport, sending>>
          /\ UNCHANGED client \/ Teardown(n, c)
      BY <1>2, <1>7 DEF DropDuplicate
    <2>2. client[n] # c
      BY <2>1 DEF MapInv, MapsAgree, RegistryConstants
    <2>3. UNCHANGED client
      BY <2>1, <2>2 DEF Teardown, Owns
    <2> QED BY <1>3, <1>3a, <2>1, <2>3, RaceMove
  <1>8. CASE LoopEnd(n, c)
    <2>1. /\ ~sock[c].open /\ ~sock'[c].open
          /\ end' = [end EXCEPT ![n][c] = "done"] /\ Teardown(n, c)
          /\ UNCHANGED <<sock, transport, sending>>
      BY <1>8 DEF LoopEnd
    <2>2. OthersStay(n, c)
      BY <1>0, <2>1 DEF OthersStay, Teardown, Owns, MapTypes
    <2>3. \A d \in Conn : sock'[d].kind = sock[d].kind /\ (sock'[d].open => sock[d].open)
      BY <2>1
    <2> QED BY <2>1, <2>2, <2>3, RaceMove
  <1>9. CASE Register(n, c)
    <2>1. /\ end[n][c] = "ready" /\ ~Duplicate(n) /\ end' = [end EXCEPT ![n][c] = "loop"]
          /\ client' = [client EXCEPT ![n] = c] /\ transport' = [transport EXCEPT ![n] = sock[c].kind]
          /\ UNCHANGED <<sock, sending>>
      BY <1>9 DEF Register, Install
    <2>2. client[n] = None
      BY <1>1, <2>1 DEF MapInv, MapsAgree, Duplicate
    <2>3. \A d \in Conn : end[n][d] # "loop"
      BY <2>2 DEF RaceInv, RegistryConstants
    <2>4. /\ end'[n][c] = "loop"
          /\ \A d \in Conn \ {c} : end'[n][d] = end[n][d]
          /\ \A m \in Node \ {n} : end'[m] = end[m]
      BY <1>0, <2>1, EndMoves DEF Ends
    <2>5. client'[n] = c /\ \A m \in Node \ {n} : client'[m] = client[m]
      BY <1>0, <2>1 DEF MapTypes
    <2>6. \A m \in Node : transport'[m] = "ws"
      BY <1>0, <1>1, <2>1 DEF MapTypes, RaceInv
    <2> QED BY <2>1, <2>3, <2>4, <2>5, <2>6 DEF RaceInv
  <1>10. ~StartUpgrade(n, c) /\ ~FinishUpgrade(n, c)
    BY <1>1 DEF StartUpgrade, FinishUpgrade, RaceInv
  <1> QED BY <1>4, <1>5, <1>6, <1>7, <1>8, <1>9, <1>10 DEF Handle

LEMMA RaceStep ==
  ASSUME RegistryConstants, OnlyDialsRace, MapInv, RaceInv, [Next]_vars
  PROVE  RaceInv'
  <1>0. MapTypes
    BY DEF MapInv
  <1>1. ASSUME UNCHANGED <<sock, end, client, transport, sending>> PROVE RaceInv'
    BY <1>1 DEF RaceInv
  <1>2. ASSUME NEW n \in Node, Dial(n) PROVE RaceInv'
    <2>1. Kinds = {"ws"}
      BY DEF Kinds, OnlyDialsRace
    <2>2. \/ Connect(n, "ws")
          \/ UNCHANGED <<sock, end, client, transport, sending>>
      BY <1>2, <2>1 DEF OnlyDialsRace, Dial, DialByName, DialById,
                        DialAgain, DialFailover, DialStartup
    <2> QED BY <1>1, <2>2, RaceDial
  <1>3. ASSUME NEW c \in Conn, SockDies(c) PROVE RaceInv'
    <2>1. sock' = Closed(c) /\ UNCHANGED <<end, client, transport, sending>>
      BY <1>3 DEF SockDies
    <2>2. \A d \in Conn : sock'[d].kind = sock[d].kind /\ (sock'[d].open => sock[d].open)
      <3>1. \A d \in Conn : Closed(c)[d].open => sock[d].open
        BY <1>0, ClosedSock
      <3>2. \A d \in Conn : Closed(c)[d].kind = sock[d].kind
        BY <1>0, KeptKinds
      <3> QED BY <2>1, <3>1, <3>2
    <2> QED BY <2>1, <2>2 DEF RaceInv
  <1>4. ASSUME NEW n \in Node, ClaimExpires(n) PROVE RaceInv'
    BY <1>1, <1>4 DEF ClaimExpires
  <1>5. ASSUME NEW n \in Node
        PROVE  ~StartSend(n) /\ ~EndSend(n) /\ ~RnsSilent(n)
    BY DEF OnlyDialsRace, RaceInv, StartSend, EndSend, RnsSilent
  <1>6. CASE UNCHANGED vars
    BY <1>1, <1>6 DEF vars
  <1> QED BY <1>2, <1>3, <1>4, <1>5, <1>6, RaceHandle DEF Next

\* bridge.py and handshake.py, "Guard against duplicate connections (both sides connect
\* simultaneously)": however many WebSocket dials of the two daemons overlap, fail and
\* are refused, over any number of connections, once all is settled the two are never
\* each on a connection of its own (the run checks it where env is "race").
THEOREM RacesSettle ==
  ASSUME RegistryConstants, OnlyDialsRace PROVE Spec => [](AgreeingEnds /\ RaceAgreeingEnds)
  <1> DEFINE Inv == MapInv /\ RaceInv
  <1>1. Init => Inv
    BY MapInit, RaceInit
  <1>2. Inv /\ [Next]_vars => Inv'
    BY MapStep, RaceStep
  <1>3. Inv => AgreeingEnds /\ RaceAgreeingEnds
    <2> SUFFICES ASSUME MapInv, RaceInv, Settled, \A m \in Node : status[m] = "online", NEW n \in Node
                 PROVE  client[n] = client[Peer(n)]
      BY DEF RaceAgreeingEnds, AgreeingEnds
    <2> DEFINE m == Peer(n)
    <2>1. m \in Node
      BY DEF Peer, RegistryConstants
    <2>2. ~Locked(n)
      BY DEF Locked, RaceInv
    <2>3. client[n] \in Conn /\ end[n][client[n]] = "loop"
      BY <2>2 DEF MapInv, MapTypes, MapsAgree
    <2>4. sock[client[n]].open
      BY <2>3 DEF Settled
    <2> HIDE DEF m
    <2>5. end[m][client[n]] = "loop"
      BY <2>1, <2>3, <2>4 DEF RaceInv, Settled
    <2>6. client[m] = client[n]
      BY <2>1, <2>3, <2>5 DEF RaceInv
    <2> QED BY <2>6 DEF m
  <1> QED BY <1>1, <1>2, <1>3, PTL DEF Spec
=============================================================================
