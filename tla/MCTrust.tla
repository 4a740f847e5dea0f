------------------------------ MODULE MCTrust ------------------------------
(***************************************************************************)
(* Whom a node believes: the pending-trust gate, capability binding and    *)
(* the announcements of capabilities.  "env" names the part that runs and  *)
(* its environment; it is chosen at the start and never changes, and the   *)
(* other parts rest.  The .cfg gives TrustGate, which is extended, and     *)
(* CapabilityBinding their constants; TrustProofs is about the same        *)
(* instances for every value of them.                                      *)
(***************************************************************************)
EXTENDS TrustGate

CONSTANTS
    CapSet, NoCaps, MaxBindFaults,      \* CapabilityBinding's
    na, nb, nc, nd, None                \* the gossiping nodes

VARIABLES
    env,
    bound, baseline, stash, bindFaults, status, announced, reviewed,
    now, local, known, file, cache, heard, net, garbled, issued

bindVars == <<bound, baseline, stash, bindFaults, status, announced, reviewed>>
capVars == <<now, local, known, file, cache, heard, net, garbled, issued>>

\* The trust record of one pinned peer.
Binding == INSTANCE CapabilityBinding WITH
    MaxFaults <- MaxBindFaults, trust <- bound, faults <- bindFaults

\* A square around the origin; one damaged envelope, three rounds.
Diamond == [n \in {na, nb, nc, nd} |-> IF n \in {na, nd} THEN {nb, nc} ELSE {na, nd}]
Calm == INSTANCE CapabilityGossip WITH
    Node <- {na, nb, nc, nd}, Origin <- na, Neighbours <- Diamond,
    Pinned <- {na, nb, nc, nd}, CapSet <- {{"x"}, {"y"}}, MaxAge <- 2, DedupMax <- 3,
    Garbling <- 1, MaxClock <- 2, MaxQueue <- 2, seen <- heard

\* A line (nd is away) whose rounds overlap, whose relay restarts and whose
\* replay memory is short; the origin may withdraw everything.
Line == [n \in {na, nb, nc, nd} |->
           CASE n = nb -> {na, nc} [] n = nd -> {} [] OTHER -> {nb}]
Stormy == INSTANCE CapabilityGossip WITH
    Node <- {na, nb, nc, nd}, Origin <- na, Neighbours <- Line,
    Pinned <- {na, nb, nc}, CapSet <- {{}, {"x"}, {"y"}}, MaxAge <- 1, DedupMax <- 1,
    Garbling <- 1, MaxClock <- 2, MaxQueue <- 1, seen <- heard

-----------------------------------------------------------------------------
MCInit ==
    /\ Init
    /\ \/ env = "gate" /\ Calm!Init /\ Binding!Init
            /\ local = {"x"} /\ bound = "pending"
       \/ env = "binding" /\ Calm!Init /\ Binding!Init /\ local = {"x"}
       \/ env = "calm" /\ Calm!Init /\ Binding!Init /\ bound = "pending"
       \/ env = "stormy" /\ Stormy!Init /\ Binding!Init /\ bound = "pending"

MCNext ==
    /\ \/ env = "gate" /\ Next /\ UNCHANGED <<bindVars, capVars>>
       \/ env = "binding" /\ Binding!Next /\ UNCHANGED <<vars, capVars>>
       \/ env = "calm" /\ Calm!CalmNext /\ UNCHANGED <<vars, bindVars>>
       \/ env = "stormy" /\ Stormy!Next /\ UNCHANGED <<vars, bindVars>>
    /\ UNCHANGED env

mcVars == <<vars, bindVars, capVars, env>>
Gate(A) == env = "gate" /\ A /\ UNCHANGED <<bindVars, capVars, env>>
Gossip(A) == env = "calm" /\ A /\ UNCHANGED <<vars, bindVars, env>>

\* A started command keeps running: the event loop resumes every coroutine
\* whose statement completed.  The announcement loops run as long as their
\* daemons do, and connections deliver; strong fairness, because a loop's turn
\* waits for the other loops' announcements to arrive.
MCFairness ==
    /\ \A o \in Operator : WF_mcVars(Gate(Progress(o)))
    /\ SF_mcVars(Gossip(Calm!CalmTick)) /\ SF_mcVars(Gossip(Calm!CalmAnnounce))
    /\ \A n \in {nb, nc, nd} :
         /\ SF_mcVars(Gossip(Calm!CalmReplay(n)))
         /\ \A m \in {na, nb, nc, nd} : WF_mcVars(Gossip(Calm!Receive(m, n)))

MCSpec == MCInit /\ [][MCNext]_mcVars /\ MCFairness

-----------------------------------------------------------------------------
\* What waits behind the gate when the peer is promoted reaches the bus, or is
\* dropped by a rule, or lost with a restart; and no message that came once
\* reaches it twice, nor any before an operator vouched for the peer.
PublishedExactly ==
    /\ [](PublishedOnce /\ GateHolds)
    /\ env = "gate" => PromotionDelivers

\* A peer whose announced capabilities are not the accepted ones stays trusted
\* only by an operator's act (_handle_cap_observation).
ChangeHeld == Binding!ChangeHeld

\* A node believes of an origin only sets that it announced, whatever relays,
\* restarts and damaged envelopes do; and with rounds that do not overlap every
\* node that pinned it ends with its latest set, through any number of relays.
GossipTrue ==
    /\ [](env = "stormy" => Stormy!OnlyAnnounced)
    /\ env = "calm" => Calm!Settles
=============================================================================
