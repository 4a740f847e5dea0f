------------------------------ MODULE Bridges ------------------------------
(* The two kinds of gateway that carry a text from one network to another.    *)
(* A FederationGateway (federation.py) runs one agent in each of two meshes   *)
(* and re-sends what it hears, marked [FED], to the peers of the other mesh   *)
(* whose capabilities its policy lets through.  An LXMF listener              *)
(* (lxmf_listener.py) lives in one mesh: it re-sends what its mesh peers say  *)
(* to the LXMF network marked [IM], and what arrives from LXMF to a mesh peer *)
(* marked [LXMF].  Neither keeps a memory of what it carried: the only guard  *)
(* against loops is the OUTERMOST mark of the text, which the next gateway    *)
(* covers with its own.  A text is abstracted to the sequence of its marks.   *)
EXTENDS Naturals, Sequences

CONSTANTS
    Gateway,    \* federation gateways, each present in both meshes
    Listener,   \* LXMF listeners
    User,       \* ordinary participants: mesh peers and LXMF clients
    Home,       \* [Listener -> Mesh]: the mesh of the listener's daemon
    Discovered, \* [Mesh -> SUBSET On(mesh)]: the peers a gateway's agent there knows
    Caps,       \* [Node -> SUBSET Capability]: what each of them announces
    Policy,     \* [Gateway -> [allow, deny : SUBSET Capability, per_source : Seq]]
    Route,      \* [Listener -> [inbound : set of <<LXMF address, mesh peer>>,
                \*               default : Node or NoNode]]
    NoNode,     \* None: no default peer is configured
    MaxTexts    \* bound: texts written by users and telemetry reports

Mesh == {"A", "B"}
Lxmf == "lxmf"
Node == Gateway \cup Listener \cup User
FED == "[FED]"      \* FORWARD_PREFIX
IM == "[IM]"        \* PREFIX_IM_TO_LXMF
LXMF == "[LXMF]"    \* PREFIX_LXMF_TO_IM

(* The nodes a message can reach on each network.                             *)
On(net) == IF net = Lxmf THEN Listener \cup User
           ELSE Gateway \cup User \cup {l \in Listener : Home[l] = net}

VARIABLES
    flight,     \* messages on their way: [net, from, to, marks]
    texts       \* texts written so far

bridgeVars == <<flight, texts>>

Message == [net : Mesh \cup {Lxmf}, from : Node, to : Node, marks : Seq({FED, IM, LXMF})]

(* payload.startswith(PREFIX): only the outermost mark is looked at.           *)
StartsWith(m, mark) == m.marks # << >> /\ Head(m.marks) = mark

Other(mesh) == IF mesh = "A" THEN "B" ELSE "A"

Init ==
    /\ flight = {}
    /\ texts = 0

(* A participant writes to a node of the network it is in.                     *)
Write(net, u, to) ==
    /\ texts < MaxTexts
    /\ texts' = texts + 1
    /\ flight' = flight \cup {[net |-> net, from |-> u, to |-> to, marks |-> << >>]}

(* _telemetry_loop: the listener's report goes out through send_lxmf_to, so it *)
(* carries the same mark as a forwarded text.                                  *)
Publish(l, to) ==
    /\ texts < MaxTexts
    /\ texts' = texts + 1
    /\ flight' = flight \cup {[net |-> Lxmf, from |-> l, to |-> to, marks |-> <<IM>>]}

----------------------------------------------------------------------------
(* FederationPolicy.should_forward: the first rule whose source matches the    *)
(* sender decides alone; without one the global lists do; deny before allow.   *)
Passes(rule, c) == c \notin rule.deny /\ c \in rule.allow

ShouldForward(policy, c, source) ==
    LET matching == {i \in DOMAIN policy.per_source : source \in policy.per_source[i].source}
        first == CHOOSE i \in matching : \A j \in matching : i <= j
    IN IF matching # {} THEN Passes(policy.per_source[first], c) ELSE Passes(policy, c)

(* The peers of the destination mesh that announce an allowed capability.      *)
Targets(g, mesh, source) ==
    {t \in Discovered[mesh] : \E c \in Caps[t] : ShouldForward(Policy[g], c, source)}

ForwardedAgain(g, m, sent) ==
    {[net |-> Other(m.net), from |-> g, to |-> t, marks |-> <<FED>> \o m.marks] : t \in sent}

ForwardedFed(g, m, sent) ==
    IF StartsWith(m, FED) THEN {}
    ELSE {[net |-> Other(m.net), from |-> g, to |-> t, marks |-> <<FED>> \o m.marks] : t \in sent}

(* _forward_handler: a send that raises is counted and the loop goes on, so    *)
(* any subset of the targets may be reached.                                   *)
Forward(g, m) ==
    /\ m \in flight /\ m.to = g /\ m.net \in Mesh
    /\ \E sent \in SUBSET Targets(g, Other(m.net), m.from) :
          flight' = (flight \ {m}) \cup ForwardedFed(g, m, sent)
    /\ UNCHANGED texts

----------------------------------------------------------------------------
(* inbound_route.get(src) or _default_inbound_peer.                            *)
TargetPeers(l, source) ==
    LET mapped == {r[2] : r \in {q \in Route[l].inbound : q[1] = source}}
    IN IF mapped # {} THEN mapped ELSE {Route[l].default} \ {NoNode}

InboundFrom(l, m) ==
    IF StartsWith(m, IM) THEN {}
    ELSE {[net |-> Home[l], from |-> l, to |-> p, marks |-> <<LXMF>> \o m.marks] :
             p \in TargetPeers(l, m.from)}

(* _on_lxmf_message and _forward_to_ironmesh; send_message may fail.            *)
OnLxmfMessage(l, m) ==
    /\ m \in flight /\ m.to = l /\ m.net = Lxmf
    /\ \E out \in {{}, InboundFrom(l, m)} : flight' = (flight \ {m}) \cup out
    /\ UNCHANGED texts

(* The LXMF addresses mapped to a mesh peer; the code takes the first in the   *)
(* order of the configuration, here any one of them.                           *)
ReverseLookup(l, peer) == {r[1] : r \in {q \in Route[l].inbound : q[2] = peer}}

OutboundTo(l, m, dest) ==
    IF StartsWith(m, LXMF) THEN {}
    ELSE {[net |-> Lxmf, from |-> l, to |-> dest, marks |-> <<IM>> \o m.marks]}

(* _on_ironmesh_message and send_lxmf_to: no mapping, no path or no identity,  *)
(* and the text is dropped.                                                    *)
OnIronmeshMessage(l, m) ==
    /\ m \in flight /\ m.to = l /\ m.net = Home[l]
    /\ \/ flight' = flight \ {m}
       \/ \E dest \in ReverseLookup(l, m.from) :
             flight' = (flight \ {m}) \cup OutboundTo(l, m, dest)
    /\ UNCHANGED texts

(* A participant reads the text.                                               *)
Read(m) ==
    /\ m \in flight /\ m.to \in User
    /\ flight' = flight \ {m}
    /\ UNCHANGED texts

Handle ==
    \E m \in flight :
       \/ \E g \in Gateway : Forward(g, m)
       \/ \E l \in Listener : OnLxmfMessage(l, m) \/ OnIronmeshMessage(l, m)
       \/ Read(m)

Next ==
    \/ \E net \in Mesh \cup {Lxmf} : \E u \in User, to \in On(net) : Write(net, u, to)
    \/ \E l \in Listener, to \in On(Lxmf) : Publish(l, to)
    \/ Handle

Spec == Init /\ [][Next]_bridgeVars

----------------------------------------------------------------------------
(* Whatever the gateways, their policies and their routes, a text is carried   *)
(* by at most three of them: into a mesh, across a federation, and out again.  *)
(* Each one covers the mark the one before it would have been stopped by, so   *)
(* the bound rests on which gateway can follow which, not on any single check. *)
CarriedAtMostThrice == \A m \in flight : Len(m.marks) <= 3

(* What the mark sequences on each network look like: the inductive form *)
(* of the bound above.                                                         *)
Marks == {FED, IM, LXMF}
MeshMarks(s) ==
    /\ s \in Seq(Marks) /\ Len(s) <= 2
    /\ s # << >> => Head(s) \in {FED, LXMF}
    /\ Len(s) = 2 => Head(s) = FED
LxmfMarks(s) ==
    /\ s \in Seq(Marks) /\ Len(s) <= 3
    /\ s # << >> => Head(s) = IM
MarksPossible ==
    \A m \in flight : IF m.net = Lxmf THEN LxmfMarks(m.marks) ELSE MeshMarks(m.marks)
============================================================================
