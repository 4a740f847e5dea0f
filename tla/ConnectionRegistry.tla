------------------------- MODULE ConnectionRegistry -------------------------
(***************************************************************************)
(* The connections between two daemons: who dials (mDNS and discover loop, *)
(* reconnect loop, transport failover, startup destinations), the          *)
(* registration of a connection in ws_clients and peers under _peer_lock   *)
(* at the end of a handshake on either side, the teardown when a message   *)
(* loop ends, and the paths that unregister a peer from outside its loop   *)
(* (_send_frame's errors, the heartbeat's RNS silence check).              *)
(*                                                                         *)
(* A connection is a slot that is used again when both ends are done with  *)
(* it.  What the handshake exchanges is abstracted to the one fact the     *)
(* registration depends on: the server registers after sending its HELLO,  *)
(* the client after receiving it.                                          *)
(***************************************************************************)
EXTENDS Naturals, FiniteSets

CONSTANTS
    Node,           \* the two daemons
    Smaller,        \* the one whose agent name sorts first
    Conn,           \* connection slots
    Rns,            \* TRUE: both also run the Reticulum transport
    RnsConnect,     \* daemons with the other one in rns_connect
    RedialById,     \* daemons whose name does not sort after the peer's node_id
    Overlap,        \* TRUE: a dial may start before everything earlier has settled
    SendFaults,     \* TRUE: _send_frame may fail
    MaxFaults       \* bound: failures of sockets, handshakes and sends

ASSUME RegistryAssumption ==
    /\ Smaller \in Node /\ Cardinality(Node) = 2
    /\ RedialById \subseteq Node /\ RnsConnect \subseteq Node
    /\ Rns \in BOOLEAN /\ Overlap \in BOOLEAN /\ SendFaults \in BOOLEAN /\ MaxFaults \in Nat

VARIABLES
    sock,           \* the connections: who dialled, kind, open, server HELLO sent
    end,            \* how far each daemon's coroutine for each connection is
    client,         \* ws_clients[peer]
    status,         \* peers[peer].status ("unknown": no entry)
    transport,      \* peers[peer].transport_type
    claim,          \* _reconnecting[peer]
    failover,       \* a _try_transport_failover task is waiting
    knowsId,        \* _known_peer_addresses has the peer's node_id as a key
    startup,        \* rns_connect destinations not dialled yet
    sending,        \* the connection a _send_frame has taken from ws_clients
    faults

vars == <<sock, end, client, status, transport, claim, failover, knowsId, startup, sending, faults>>
dialVars == <<claim, failover, knowsId, startup>>

None == "none"
Kinds == IF Rns THEN {"ws", "rns"} ELSE {"ws"}
Peer(n) == CHOOSE m \in Node : m # n
Other(k) == IF k = "ws" THEN "rns" ELSE "ws"

Unused == [dialer |-> Smaller, kind |-> "ws", open |-> FALSE, hello |-> FALSE]

Init ==
    /\ sock = [c \in Conn |-> Unused]
    /\ end = [n \in Node |-> [c \in Conn |-> "done"]]
    /\ client = [n \in Node |-> None]
    /\ status = [n \in Node |-> "unknown"]
    /\ transport = [n \in Node |-> "ws"]
    /\ claim = [n \in Node |-> FALSE]
    /\ failover = [n \in Node |-> FALSE]
    /\ knowsId = [n \in Node |-> FALSE]
    /\ startup = [n \in Node |-> n \in RnsConnect]
    /\ sending = [n \in Node |-> None]
    /\ faults = 0

Fault == faults < MaxFaults /\ faults' = faults + 1

-----------------------------------------------------------------------------
(***************************************************************************)
(* Dialling.                                                               *)
(***************************************************************************)
FreeSlot(c) ==
    /\ ~sock[c].open
    /\ \A n \in Node : end[n][c] = "done" /\ sending[n] # c

\* Nothing is under way: no handshake, no closed connection still unnoticed.
Settled ==
    \A n \in Node : /\ sending[n] = None
                    /\ \A c \in Conn : end[n][c] \in {"loop", "done"}
                                         /\ (end[n][c] = "loop" => sock[c].open)

\* connect_to_peer or _connect_rns_peer up to the start of the handshake
Connect(n, k) ==
    LET c == CHOOSE c \in Conn : FreeSlot(c) IN
    /\ \E d \in Conn : FreeSlot(d)
    /\ Overlap \/ Settled
    /\ sock' = [sock EXCEPT ![c] = [dialer |-> n, kind |-> k, open |-> TRUE, hello |-> FALSE]]
    /\ end' = [m \in Node |-> [end[m] EXCEPT ![c] = "shaking"]]
    /\ UNCHANGED <<client, status, transport, sending, faults>>

\* _on_peer_discovered, and _discover_loop for an entry keyed by agent name
DialByName(n) ==
    /\ status[n] # "online"
    /\ n = Smaller
    /\ Connect(n, "ws")
    /\ UNCHANGED dialVars

\* _discover_loop for an entry keyed by node_id: no agent_name equals it, so
\* the peer never counts as online
DialById(n) ==
    /\ knowsId[n]
    /\ n \in RedialById
    /\ Connect(n, "ws")
    /\ UNCHANGED dialVars

\* _reconnect_loop
DialAgain(n, k) ==
    /\ status[n] = "offline"
    /\ n = Smaller
    /\ ~claim[n]
    /\ claim' = [claim EXCEPT ![n] = TRUE]
    /\ Connect(n, k)
    /\ UNCHANGED <<failover, knowsId, startup>>

\* _try_transport_failover: no tie-breaker, and only to the other transport
DialFailover(n) ==
    /\ failover[n]
    /\ failover' = [failover EXCEPT ![n] = FALSE]
    /\ UNCHANGED <<knowsId, startup>>
    /\ \/ /\ status[n] # "online" /\ ~claim[n] /\ Rns
          /\ claim' = [claim EXCEPT ![n] = TRUE]
          /\ Connect(n, Other(transport[n]))
       \/ /\ status[n] = "online" \/ claim[n] \/ ~Rns
          /\ UNCHANGED <<sock, end, client, status, transport, claim, sending, faults>>

\* run(): rns_connect destinations
DialStartup(n) ==
    /\ Rns /\ startup[n]
    /\ startup' = [startup EXCEPT ![n] = FALSE]
    /\ Connect(n, "rns")
    /\ UNCHANGED <<claim, failover, knowsId>>

\* A claim older than 60 seconds no longer counts.
ClaimExpires(n) ==
    /\ claim[n]
    /\ claim' = [claim EXCEPT ![n] = FALSE]
    /\ UNCHANGED <<sock, end, client, status, transport, failover, knowsId, startup, sending, faults>>

-----------------------------------------------------------------------------
(***************************************************************************)
(* Handshake and registration.                                             *)
(***************************************************************************)
IsServer(n, c) == sock[c].dialer # n

\* _handle_connection up to its HELLO
ServerHello(n, c) ==
    /\ IsServer(n, c) /\ end[n][c] = "shaking" /\ sock[c].open
    /\ sock' = [sock EXCEPT ![c].hello = TRUE]
    /\ end' = [end EXCEPT ![n][c] = "ready"]
    /\ UNCHANGED <<client, status, transport, dialVars, sending, faults>>

\* _do_client_handshake up to its registration
ClientHello(n, c) ==
    /\ ~IsServer(n, c) /\ end[n][c] = "shaking" /\ sock[c].hello
    /\ end' = [end EXCEPT ![n][c] = "ready"]
    /\ UNCHANGED <<sock, client, status, transport, dialVars, sending, faults>>

\* Leaving the coroutine closes the connection: in _handle_connection's
\* finally, by connect_to_peer's "async with"; _connect_rns_peer just returns.
LeftOpen(n, c) == ~IsServer(n, c) /\ sock[c].kind = "rns"
Closed(c) == [sock EXCEPT ![c].open = FALSE]
Leave(n, c) == IF LeftOpen(n, c) THEN sock ELSE Closed(c)

\* One of the handshake's many early returns and exceptions.
Refuse(n, c) ==
    /\ end[n][c] = "shaking"
    /\ \/ Fault
       \/ ~sock[c].open /\ ~sock[c].hello /\ UNCHANGED faults
    /\ end' = [end EXCEPT ![n][c] = "done"]
    /\ sock' = Leave(n, c)
    /\ UNCHANGED <<client, status, transport, dialVars, sending>>

Locked(n) == \E c \in Conn : end[n][c] = "upgrading"
DuplicateIgnored(n) == FALSE
Duplicate(n) == status[n] = "online" /\ client[n] # None
Upgrade(n, c) == sock[c].kind = "ws" /\ transport[n] = "rns"

\* "Only clear the ws_clients entry + session_key if this specific websocket is
\* the one registered": the finally of both coroutines.
OwnsAlways(n, c) == TRUE
Owns(n, c) == client[n] = c

Teardown(n, c) ==
    IF Owns(n, c)
      THEN /\ client' = [client EXCEPT ![n] = None]
           /\ status' = [status EXCEPT ![n] = "offline"]
           /\ failover' = [failover EXCEPT ![n] = TRUE]
      ELSE UNCHANGED <<client, status, failover>>

\* "peer_state.transition(ONLINE)" and the assignments after it
Install(n, c) ==
    /\ end' = [end EXCEPT ![n][c] = "loop"]
    /\ client' = [client EXCEPT ![n] = c]
    /\ status' = [status EXCEPT ![n] = "online"]
    /\ transport' = [transport EXCEPT ![n] = sock[c].kind]
    /\ claim' = [claim EXCEPT ![n] = FALSE]
    /\ knowsId' = [knowsId EXCEPT ![n] = @ \/ ~IsServer(n, c)]
    /\ UNCHANGED <<failover, startup, sending, faults>>

Register(n, c) ==
    /\ end[n][c] = "ready" /\ ~Locked(n)
    /\ ~Duplicate(n)
    /\ Install(n, c)
    /\ UNCHANGED sock

DropDuplicate(n, c) ==
    /\ end[n][c] = "ready" /\ ~Locked(n)
    /\ Duplicate(n) /\ ~Upgrade(n, c)
    /\ end' = [end EXCEPT ![n][c] = "done"]
    /\ sock' = Leave(n, c)
    /\ IF IsServer(n, c) THEN Teardown(n, c) ELSE UNCHANGED <<client, status, failover>>
    /\ UNCHANGED <<transport, claim, knowsId, startup, sending, faults>>

\* The lock is held across "await old_ws.close()".
StartUpgrade(n, c) ==
    /\ end[n][c] = "ready" /\ ~Locked(n)
    /\ Duplicate(n) /\ Upgrade(n, c)
    /\ end' = [end EXCEPT ![n][c] = "upgrading"]
    /\ sock' = Closed(client[n])
    /\ client' = [client EXCEPT ![n] = None]
    /\ UNCHANGED <<status, transport, dialVars, sending, faults>>

FinishUpgrade(n, c) ==
    /\ end[n][c] = "upgrading"
    /\ Install(n, c)
    /\ UNCHANGED sock

-----------------------------------------------------------------------------
(***************************************************************************)
(* The end of a connection.                                                *)
(***************************************************************************)
LoopEnd(n, c) ==
    /\ end[n][c] = "loop" /\ ~sock[c].open /\ ~Locked(n)
    /\ end' = [end EXCEPT ![n][c] = "done"]
    /\ Teardown(n, c)
    /\ UNCHANGED <<sock, transport, claim, knowsId, startup, sending, faults>>

SockDies(c) ==
    /\ sock[c].open
    /\ Fault
    /\ sock' = Closed(c)
    /\ UNCHANGED <<end, client, status, transport, dialVars, sending>>

\* ws_clients.pop, OFFLINE, session_key = None, outside the message loop
OfflineKeepsEntry(n) ==
    /\ status' = [status EXCEPT ![n] = "offline"]
    /\ UNCHANGED client
Offline(n) ==
    /\ client' = [client EXCEPT ![n] = None]
    /\ status' = [status EXCEPT ![n] = "offline"]

\* _send_frame takes the connection, then waits for the bandwidth gate and
\* the socket.
StartSend(n) ==
    /\ SendFaults /\ faults < MaxFaults
    /\ sending[n] = None
    /\ client[n] # None /\ status[n] = "online"
    /\ sending' = [sending EXCEPT ![n] = client[n]]
    /\ UNCHANGED <<sock, end, client, status, transport, dialVars, faults>>

EndSend(n) ==
    /\ sending[n] # None
    /\ sending' = [sending EXCEPT ![n] = None]
    /\ UNCHANGED <<transport, end, dialVars>>
    /\ \/ /\ sock[sending[n]].open
          /\ UNCHANGED <<sock, client, status, faults>>
       \/ \* ConnectionClosed from send, or an exception before it
          /\ IF sock[sending[n]].open THEN Fault ELSE UNCHANGED faults
          /\ IF status[n] = "online" THEN Offline(n) ELSE UNCHANGED <<client, status>>
          /\ UNCHANGED sock
       \/ \* the five seconds pass
          /\ Fault
          /\ Offline(n)
          /\ sock' = Closed(sending[n])

\* _heartbeat_loop: no data on an RNS link for three intervals
RnsSilent(n) ==
    /\ status[n] = "online" /\ transport[n] = "rns" /\ client[n] # None
    /\ SendFaults /\ Fault
    /\ Offline(n)
    /\ UNCHANGED <<sock, end, transport, dialVars, sending>>

-----------------------------------------------------------------------------
Dial(n) ==
    \/ DialByName(n) \/ DialById(n) \/ DialFailover(n) \/ DialStartup(n)
    \/ \E k \in Kinds : DialAgain(n, k)

Handle(n, c) ==
    \/ ServerHello(n, c) \/ ClientHello(n, c) \/ Refuse(n, c)
    \/ Register(n, c) \/ DropDuplicate(n, c) \/ StartUpgrade(n, c) \/ FinishUpgrade(n, c)
    \/ LoopEnd(n, c)

Next ==
    \/ \E n \in Node : Dial(n) \/ ClaimExpires(n) \/ StartSend(n) \/ EndSend(n) \/ RnsSilent(n)
    \/ \E n \in Node, c \in Conn : Handle(n, c)
    \/ \E c \in Conn : SockDies(c)

Spec == Init /\ [][Next]_vars

-----------------------------------------------------------------------------
\* Every variable keeps its type.
TypeOK ==
    /\ sock \in [Conn -> [dialer : Node, kind : {"ws", "rns"}, open : BOOLEAN, hello : BOOLEAN]]
    /\ end \in [Node -> [Conn -> {"shaking", "ready", "upgrading", "loop", "done"}]]
    /\ client \in [Node -> Conn \cup {None}]
    /\ status \in [Node -> {"unknown", "online", "offline"}]
    /\ transport \in [Node -> {"ws", "rns"}]
    /\ claim \in [Node -> BOOLEAN] /\ failover \in [Node -> BOOLEAN]
    /\ knowsId \in [Node -> BOOLEAN] /\ startup \in [Node -> BOOLEAN]
    /\ sending \in [Node -> Conn \cup {None}]
    /\ faults \in 0 .. MaxFaults

\* peers and ws_clients, two maps changed in many places, agree outside an
\* upgrade, and what is registered is a connection whose loop is being run.
MapsAgree ==
    \A n \in Node :
        /\ ~Locked(n) => (status[n] = "online" <=> client[n] # None)
        /\ client[n] # None => end[n][client[n]] = "loop" /\ sock[client[n]].kind = transport[n]

\* _handle_connection: "Guard against duplicate connections (both sides connect
\* simultaneously)": when the dust of racing dials has settled the two daemons are not each on
\* a connection of its own.
AgreeingEnds ==
    Settled /\ (\A n \in Node : status[n] = "online") =>
        \A n \in Node : client[n] = client[Peer(n)]

Connected ==
    \E c \in Conn : sock[c].open /\ \A n \in Node : client[n] = c /\ status[n] = "online"

\* Once failures stop the two daemons end up on one open connection and stay
\* there.
Reconnects == <>[]Connected
=============================================================================
