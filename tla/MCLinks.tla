------------------------------ MODULE MCLinks ------------------------------
(***************************************************************************)
(* What lies below a session: RNS links and groups, the NAT relay, the     *)
(* heartbeat, the door (authentication failures) and the throttle.  "env"  *)
(* names the part that runs; it is chosen at the start and never changes,  *)
(* and the other parts rest.  The .cfg gives RnsLink, which is extended,   *)
(* and the instances their constants; LinksProofs is about the same        *)
(* instances for every value of them.                                      *)
(***************************************************************************)
EXTENDS RnsLink

CONSTANTS
    Node, Payload, Online, Segment, DedupMax, DedupTTL, GroupTicks,     \* RnsGroup's
    Socket, NodeId, MaxRegistered, MaxForwards,                         \* NatRelay's
    Cadence, Silence, RoundTrip, DropAfter, Uptime, BeatTicks,          \* Heartbeat's
    Conn, AuthBurst, MaxFailures, Window, BlockDuration, AuthTicks,     \* AuthBlock's
    Msg, Size, Rate, Burst, MaxWait, OneSender, Faulty, Routed, MaxSession, SendTicks  \* SendGate's

VARIABLES
    env,
    discovered, air, seen, groupClock, handledAt, heardSince,
    handler, claimed, sockets, forwards, answer, claims, overlapped,
    beatClock, status, lastData, pingAt, path, offlineSince, alerted, lastPing, lost, alerts,
    authClock, authTokens, failures, right, conn,
    sendClock, tokens, refilled, session, latest, alive, nextSeq, task, highest, fate, spent

groupVars == <<discovered, air, seen, groupClock, handledAt, heardSince>>
natVars == <<handler, claimed, sockets, forwards, answer, claims, overlapped>>
beatVars == <<beatClock, status, lastData, pingAt, path, offlineSince, alerted, lastPing,
              lost, alerts>>
authVars == <<authClock, authTokens, failures, right, conn>>
gateVars == <<sendClock, tokens, refilled, session, latest, alive, nextSeq, task, highest,
              fate, spent>>

Group == INSTANCE RnsGroup WITH clock <- groupClock, MaxClock <- GroupTicks
Relay == INSTANCE NatRelay
Beats == INSTANCE Heartbeat WITH clock <- beatClock, MaxClock <- BeatTicks
Door == INSTANCE AuthBlock WITH
    clock <- authClock, tokens <- authTokens, Burst <- AuthBurst, MaxClock <- AuthTicks
Throttle == INSTANCE SendGate WITH clock <- sendClock, link <- session, MaxClock <- SendTicks

\* Two links of one identity, which is unknown until it has identified.
OneIdentity == [l \in Link |-> "alice"]
Unidentified == [l \in Link |-> "unknown"]

\* b hears GROUP packets, a reaches b by unicast too.
OneWay == [n \in {"a", "b"} |-> IF n = "a" THEN {"b"} ELSE {}]

\* A frame larger than the bucket, a small one and one that fills it.
FrameSizes == [m \in {"large", "small", "full"} |-> IF m = "large" THEN 5 ELSE IF m = "small" THEN 1 ELSE 3]

-----------------------------------------------------------------------------
MCInit ==
    /\ env \in {"links", "group", "nat", "heartbeat", "door", "throttle"}
    /\ Init /\ Group!Init /\ Relay!Init /\ Beats!Init /\ Throttle!Init
    /\ Door!Init /\ (env # "door" => right)

MCNext ==
    /\ \/ env = "links" /\ Next
          /\ UNCHANGED <<groupVars, natVars, beatVars, authVars, gateVars>>
       \/ env = "group" /\ Group!Next
          /\ UNCHANGED <<linkVars, natVars, beatVars, authVars, gateVars>>
       \/ env = "nat" /\ Relay!Next
          /\ UNCHANGED <<linkVars, groupVars, beatVars, authVars, gateVars>>
       \/ env = "heartbeat" /\ Beats!Next
          /\ UNCHANGED <<linkVars, groupVars, natVars, authVars, gateVars>>
       \/ env = "door" /\ Door!Next
          /\ UNCHANGED <<linkVars, groupVars, natVars, beatVars, gateVars>>
       \/ env = "throttle" /\ Throttle!Next
          /\ UNCHANGED <<linkVars, groupVars, natVars, beatVars, authVars>>
    /\ UNCHANGED env

mcVars == <<linkVars, groupVars, natVars, beatVars, authVars, gateVars, env>>

MCSpec == MCInit /\ [][MCNext]_mcVars

-----------------------------------------------------------------------------
\* Every identity's budget is the sum of what its links hold, whichever thread
\* charged, migrated, released or closed last, and never exceeds
\* MAX_IDENTITY_BUFFERED_BYTES but while the link that crossed it is torn down.
BudgetExact == ChargesExact /\ IdentityCapHolds

\* A group payload heard both ways is handled once within the dedup window.
HandledOnce == Group!HandledOnce

\* A peer that reconnects to the NAT relay after its old handler ended is
\* reachable, and the relay sends only to sockets that registered for the id.
ReachableWhenSpaced == Relay!ReachableWhenSpaced

\* A link is declared silent only after a PING or PONG was lost or late, and a
\* drop raises one long-drop alert however often reconnecting fails.
LiveKept == Beats!LiveKept /\ Beats!AlertedOnce

\* An address gets at most _auth_max_failures - 1 wrong guesses plus one per
\* connection it holds open within any _auth_failure_window.
GuessesBounded == Door!GuessesBounded

\* An application that awaits its sends never exceeds the peer's bandwidth,
\* and none of its frames is refused as a replay of a later one.
RateKept == Throttle!RateKept /\ Throttle!NoneOvertaken

\* A message that send_message has returned for is with the peer, with another
\* hop or in the offline queue ("Direct -> routed -> queued, in that order").
SomewhereKept == Throttle!SomewhereKept
=============================================================================
