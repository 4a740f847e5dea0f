----------------------------- MODULE Handshake -----------------------------
(* One connection from a client to a server, from the server's first message  *)
(* to the end of the handshake on both sides: _do_client_handshake            *)
(* (handshake.py) against _handle_connection (bridge.py).  The two ends may   *)
(* run different protocol versions, the connection is a WebSocket or an RNS   *)
(* link, and the server alone decides whether the passphrase stage is skipped *)
(* - from what it knows of the link when it looks, which the client's         *)
(* identify proof may or may not have reached by then.                        *)
(*                                                                            *)
(* A signature is modelled by what it covers and under which scheme; verifying*)
(* is comparing that with the body the receiver rebuilds.  "Versions" 8 and 9 *)
(* stand for any version before and from ironmesh/0.9.  A node before 0.9 is  *)
(* external: it is what the 0.9 code's legacy branches expect it to be.       *)
EXTENDS Naturals

CONSTANT None

(* What is fixed when the connection is opened.                                *)
SetupType ==
    [rns : BOOLEAN,           \* an RNS link, else a WebSocket
     cver : {8, 9}, sver : {8, 9},
     readable : BOOLEAN,      \* both ends can read the link id
     optin : BOOLEAN,         \* the server's rns_skip_handshake
     hskip : BOOLEAN,         \* the client announced the hskip feature
     require : BOOLEAN,       \* rns_require_link_binding on both ends
     same : BOOLEAN,          \* both ends have the same passphrase
     invite : {"none", "inviter", "other"},  \* whom the client's invite names
     tofu : BOOLEAN,          \* the server's TOFU check accepts the client
     floor : {8, 9},          \* min_protocol_version of both ends
     strip : BOOLEAN]         \* the server's version is lost from its first message

VARIABLES
    setup,
    identified, \* the link's remote identity has reached the server
    server,     \* [pc, skip, scheme]
    client,     \* [pc, skip, adv, scheme]
    toClient, toServer      \* the message in transit each way, or None

hsVars == <<setup, identified, server, client, toClient, toServer>>

Nonce == "nonce"            \* generate_server_nonce: fresh for this connection
Sentinel == "sentinel"      \* skip_channel_binding: the same for every connection
LinkId == "link"

(* _peer_supports_hello_ctx, seen from a node of version "me".                  *)
Ctx(me, peer) == me >= 9 /\ peer >= 9
Scheme(me, peer) == IF Ctx(me, peer) THEN "context-v1" ELSE "legacy"

(* _rns_hello_link_binding: what a node binds into the HELLO it sends.          *)
LinkBinding(me, peer) ==
    IF setup.rns /\ Ctx(me, peer) /\ setup.readable THEN LinkId ELSE None

Hello(me, peer, binding) ==
    LET body == [ver |-> me, binding |-> binding, link |-> LinkBinding(me, peer)]
    IN [type |-> "HELLO", body |-> body, sig |-> [scheme |-> Scheme(me, peer), body |-> body]]

(* _evaluate_rns_hello_binding.                                                 *)
BindingAlwaysRequired(me, hello, skip) ==
    \/ me < 9
    \/ ~setup.rns /\ hello.body.link = None
    \/ setup.rns /\ setup.readable /\ hello.body.link = LinkId

BindingOk(me, hello, skip) ==
    \/ me < 9
    \/ ~setup.rns /\ hello.body.link = None
    \/ setup.rns /\ hello.body.link # None /\ setup.readable /\ hello.body.link = LinkId
    \/ /\ setup.rns /\ hello.body.link = None
       /\ ~skip /\ hello.body.ver < 9 /\ ~setup.require

(* The scheme is the one the sender's version calls for, and the signature     *)
(* covers the body as the receiver rebuilds it around the given binding.       *)
AnySchemeAccepted(me, hello, binding) ==
    hello.sig.body = [hello.body EXCEPT !.binding = binding]

SignatureOk(me, hello, binding) ==
    hello.sig = [scheme |-> Scheme(me, hello.body.ver),
                 body |-> [hello.body EXCEPT !.binding = binding]]

TypeOK ==
    /\ setup \in SetupType
    /\ identified \in BOOLEAN
    /\ server.pc \in {"open", "proof", "hello", "done", "failed"}
    /\ client.pc \in {"first", "verified", "hello", "done", "failed"}

Init ==
    /\ setup \in SetupType
    /\ identified = FALSE
    /\ server = [pc |-> "open", skip |-> FALSE, scheme |-> None]
    /\ client = [pc |-> "first", skip |-> FALSE, adv |-> 0, scheme |-> None]
    /\ toClient = None /\ toServer = None

(* The client's link.identify() proof arrives.                                  *)
Identify ==
    /\ setup.rns /\ ~identified
    /\ identified' = TRUE
    /\ UNCHANGED <<setup, server, client, toClient, toServer>>

----------------------------------------------------------------------------
(* _handshake_skip_eligible_server, after _await_remote_identity has waited     *)
(* as long as it does: the identity is there, or the poll timed out.           *)
SkipEligible ==
    /\ setup.optin /\ setup.rns /\ (setup.readable \/ setup.sver < 9)
    /\ identified /\ setup.hskip

Advertised == IF setup.strip THEN 0 ELSE setup.sver

ServerFirst ==
    /\ server.pc = "open" /\ toClient = None
    /\ server' = [server EXCEPT !.pc = IF SkipEligible THEN "hello" ELSE "proof",
                                !.skip = SkipEligible]
    /\ toClient' = [type |-> IF SkipEligible THEN "SKIP_OFFER" ELSE "CHALLENGE",
                    binding |-> IF SkipEligible THEN Sentinel ELSE Nonce,
                    ver |-> Advertised]
    /\ UNCHANGED <<setup, identified, client, toServer>>

(* The proof: wrong passphrase, and the server rejects and returns.             *)
ServerProof ==
    /\ server.pc = "proof" /\ toServer # None /\ toClient = None
    /\ toServer' = None
    /\ IF toServer.type = "PROOF" /\ toServer.key = "mesh"
       THEN /\ server' = [server EXCEPT !.pc = "hello"]
            /\ toClient' = [type |-> "VERIFIED"]
       ELSE /\ server' = [server EXCEPT !.pc = "failed"]
            /\ toClient' = [type |-> "REJECTED"]
    /\ UNCHANGED <<setup, identified, client>>

ServerBinding == IF server.skip THEN Sentinel ELSE Nonce

(* The client's HELLO.  The server answers with its own before the TOFU check  *)
(* and the version floor, either of which may still end the handshake.         *)
ServerHelloOk(hello) ==
    /\ hello.type = "HELLO"
    /\ BindingOk(setup.sver, hello, server.skip)
    /\ SignatureOk(setup.sver, hello, ServerBinding)

ServerHello ==
    /\ server.pc = "hello" /\ toServer # None /\ toClient = None
    /\ toServer' = None
    /\ IF ServerHelloOk(toServer)
       THEN /\ toClient' = Hello(setup.sver, toServer.body.ver, ServerBinding)
            /\ server' = [server EXCEPT
                  !.pc = IF setup.tofu /\ toServer.body.ver >= setup.floor
                         THEN "done" ELSE "failed",
                  !.scheme = toServer.sig.scheme]
       ELSE /\ toClient' = [type |-> "ERROR"]
            /\ server' = [server EXCEPT !.pc = "failed"]
    /\ UNCHANGED <<setup, identified, client>>

----------------------------------------------------------------------------
(* The client's dispatch on the server's first message.  Three conditions make *)
(* it refuse a skip: no RNS link, an unreadable link id, a server that does    *)
(* not advertise 0.9.                                                          *)
SkipAcceptable(m) ==
    \/ setup.cver < 9
    \/ m.binding = Sentinel /\ setup.rns /\ setup.readable /\ m.ver >= 9

SendHello(m) == toServer' = Hello(setup.cver, client'.adv, m.binding)

ClientFirst ==
    /\ client.pc = "first" /\ toClient # None /\ toServer = None
    /\ toClient' = None
    /\ \/ /\ toClient.type = "SKIP_OFFER" /\ SkipAcceptable(toClient)
          /\ client' = [client EXCEPT !.pc = "hello", !.skip = TRUE, !.adv = toClient.ver]
          /\ SendHello(toClient)
       \/ /\ toClient.type = "SKIP_OFFER" /\ ~SkipAcceptable(toClient)
          /\ client' = [client EXCEPT !.pc = "failed"]
          /\ UNCHANGED toServer
       \/ /\ toClient.type = "CHALLENGE"
          /\ client' = [client EXCEPT !.pc = "verified", !.adv = toClient.ver]
          /\ toServer' = [type |-> "PROOF", key |-> IF setup.same THEN "mesh" ELSE "else"]
    /\ UNCHANGED <<setup, identified, server>>

(* PASSPHRASE_VERIFIED carries the server's own proof.                          *)
ClientVerified ==
    /\ client.pc = "verified" /\ toClient # None /\ toServer = None
    /\ toClient' = None
    /\ IF toClient.type = "VERIFIED" /\ setup.same
       THEN /\ client' = [client EXCEPT !.pc = "hello"]
            /\ SendHello([binding |-> Nonce])
       ELSE /\ client' = [client EXCEPT !.pc = "failed"]
            /\ UNCHANGED toServer
    /\ UNCHANGED <<setup, identified, server>>

(* The server's HELLO: the rebuilt body takes the binding the message carries.  *)
ClientHelloOk(hello) ==
    /\ hello.type = "HELLO"
    /\ BindingOk(setup.cver, hello, client.skip)
    /\ SignatureOk(setup.cver, hello, hello.body.binding)
    /\ setup.invite # "other"
    /\ hello.body.ver >= setup.floor

ClientHello ==
    /\ client.pc = "hello" /\ toClient # None
    /\ toClient' = None
    /\ client' = [client EXCEPT
          !.pc = IF ClientHelloOk(toClient) THEN "done" ELSE "failed",
          !.scheme = IF ClientHelloOk(toClient) THEN toClient.sig.scheme ELSE None]
    /\ UNCHANGED <<setup, identified, server, toServer>>

(* A side that waits for one that has given up sees the connection close, or    *)
(* its 30-second wait runs out.                                                 *)
ServerGivesUp ==
    /\ server.pc \in {"proof", "hello"} /\ toServer = None
    /\ client.pc = "failed"
    /\ server' = [server EXCEPT !.pc = "failed"]
    /\ UNCHANGED <<setup, identified, client, toClient, toServer>>

ClientGivesUp ==
    /\ client.pc \in {"first", "verified", "hello"} /\ toClient = None
    /\ server.pc = "failed"
    /\ client' = [client EXCEPT !.pc = "failed"]
    /\ UNCHANGED <<setup, identified, server, toClient, toServer>>

Step ==
    \/ ServerFirst \/ ServerProof \/ ServerHello \/ ServerGivesUp
    \/ ClientFirst \/ ClientVerified \/ ClientHello \/ ClientGivesUp

Next == Identify \/ Step

Spec == Init /\ [][Next]_hsVars /\ WF_hsVars(Step)

----------------------------------------------------------------------------
(* Two 0.9 nodes never end with a legacy signature, even when the server's     *)
(* unsigned advertisement is lost: that makes the client sign the legacy way,  *)
(* and the server then refuses it ("tampering here is denial, not downgrade"). *)
NoDowngrade ==
    (setup.cver = 9 /\ setup.sver = 9) =>
       /\ server.pc = "done" => server.scheme = "context-v1"
       /\ client.pc = "done" => client.scheme = "context-v1"

(* The ends agree on whether stage 1 was skipped whenever the handshake of     *)
(* either completes, whichever way the identify race went.                     *)
SkipAgreed ==
    client.pc = "done" => client.skip = server.skip

(* Every pair whose settings agree ends connected, in every mix of versions,   *)
(* on either transport and for every outcome of the identify race.             *)
Agreeing ==
    /\ setup.same /\ setup.tofu /\ ~setup.strip /\ setup.invite # "other"
    /\ setup.cver >= setup.floor /\ setup.sver >= setup.floor
    /\ setup.rns => /\ setup.readable
                    /\ setup.require => setup.cver = 9 /\ setup.sver = 9
                    /\ setup.optin /\ setup.hskip => setup.cver = setup.sver
AgreeingConnect == Agreeing ~> (server.pc = "done" /\ client.pc = "done")

(* Every other attempt ends too, on both sides.                                 *)
Ended(pc) == pc \in {"done", "failed"}
HandshakeEnds == <>(Ended(server.pc) /\ Ended(client.pc))
============================================================================
