------------------------------ MODULE MCEdges ------------------------------
(***************************************************************************)
(* What stands between the daemon and the world: federation and LXMF       *)
(* gateways, the A2A, ACP and MCP servers, the agent's name resolution and *)
(* the daemon's own start and stop.  "env" names the part that runs; it is *)
(* chosen at the start and never changes, and the other parts rest.  The   *)
(* .cfg gives Bridges, which is extended, and the instances their          *)
(* constants; EdgesProofs is about the same instances for every value of   *)
(* them.                                                                   *)
(***************************************************************************)
EXTENDS Bridges

CONSTANTS
    Call, Target,                                   \* A2AGateway's
    Session, MaxFrames,                             \* AcpServer's
    Kind, BufferSize, MaxEvents, MaxCalls,          \* McpServer's
    Loop, MaxSignals, MaxStarts,                    \* Lifecycle's
    Peer, Capability, NameOf, MaxChanges, NoPeer    \* Resolver's; A2AGateway and McpServer
                                                    \* have the same peers

VARIABLES
    env,
    thread, futures, older, replyPeer, future, scheduled,
    stdin, written, running, session, cancelEvent, reply, pending, ended, asked,
    events, eventSeq, cursor, seen, lost, slot, calls, requests, result,
    mode, loop, bg, up, latch, pc, stopper, store, opened, signals, starts,
    peers, online, discovered, caps, call, sent, evicted, changes

a2aVars == <<thread, futures, older, replyPeer, future, scheduled>>
acpVars == <<stdin, written, running, session, cancelEvent, reply, pending, ended, asked>>
mcpVars == <<events, eventSeq, cursor, seen, lost, slot, calls, requests, result>>
lifeVars == <<mode, loop, bg, up, latch, pc, stopper, store, opened, signals, starts>>
resolveVars == <<peers, online, discovered, caps, call, sent, evicted, changes>>

A2A == INSTANCE A2AGateway
Acp == INSTANCE AcpServer WITH owed <- pending
Mcp == INSTANCE McpServer WITH pending <- slot, owed <- requests
Daemon == INSTANCE Lifecycle
Names == INSTANCE Resolver

\* Two federations between the same two meshes and a listener that feeds one.
MCHome == [l \in Listener |-> "B"]
MCDiscovered == [m \in Mesh |-> IF m = "A" THEN {"u", "g"} ELSE {"u", "k", "g"}]
MCCaps == [n \in Node |-> IF n = "u" THEN {"llm"} ELSE {"tool"}]
MCPolicy ==
    [x \in Gateway |->
        [allow |-> {"tool", "llm"}, deny |-> {},
         per_source |-> <<[source |-> {"g"}, allow |-> {"tool"}, deny |-> {"llm"}]>>]]
MCRoute == [l \in Listener |-> [inbound |-> {<<"u", "f">>}, default |-> "f"]]

\* Two calls to one peer; the other one only talks.
MCTarget == [c \in {"c1", "c2"} |-> "p"]

\* Peers with names of their own.
OwnName == [p \in Peer |-> p]

-----------------------------------------------------------------------------
MCInit ==
    /\ env \in {"bridges", "a2a", "acp", "mcp", "daemon", "names"}
    /\ Init /\ A2A!Init /\ Acp!Init /\ Mcp!Init
    /\ Daemon!Init /\ (env # "daemon" => mode = "daemon")
    /\ Names!Init

MCNext ==
    /\ \/ env = "bridges" /\ Next
          /\ UNCHANGED <<a2aVars, acpVars, mcpVars, lifeVars, resolveVars>>
       \/ env = "a2a" /\ A2A!Next
          /\ UNCHANGED <<bridgeVars, acpVars, mcpVars, lifeVars, resolveVars>>
       \/ env = "acp" /\ Acp!Next
          /\ UNCHANGED <<bridgeVars, a2aVars, mcpVars, lifeVars, resolveVars>>
       \/ env = "mcp" /\ Mcp!Next
          /\ UNCHANGED <<bridgeVars, a2aVars, acpVars, lifeVars, resolveVars>>
       \/ env = "daemon" /\ Daemon!Next
          /\ UNCHANGED <<bridgeVars, a2aVars, acpVars, mcpVars, resolveVars>>
       \/ env = "names" /\ Names!Next
          /\ UNCHANGED <<bridgeVars, a2aVars, acpVars, mcpVars, lifeVars>>
    /\ UNCHANGED env

mcVars == <<bridgeVars, a2aVars, acpVars, mcpVars, lifeVars, resolveVars, env>>

A2AStep(A) == env = "a2a" /\ A
    /\ UNCHANGED <<bridgeVars, acpVars, mcpVars, lifeVars, resolveVars, env>>
AcpStep(A) == env = "acp" /\ A
    /\ UNCHANGED <<bridgeVars, a2aVars, mcpVars, lifeVars, resolveVars, env>>
DaemonStep(A) == env = "daemon" /\ A
    /\ UNCHANGED <<bridgeVars, a2aVars, acpVars, mcpVars, resolveVars, env>>

\* Every wait of an A2A thread and of an ACP prompt has a timeout, and the ACP
\* server reads on; tasks are resumed as long as the loop runs, cancelled loops
\* end at their next await, and Agent.stop's waits are bounded.
MCFairness ==
    /\ \A c \in Call : WF_mcVars(A2AStep(A2A!Progress(c)))
    /\ WF_mcVars(AcpStep(Acp!Progress))
    /\ WF_mcVars(DaemonStep(Daemon!ShutdownStep))
    /\ WF_mcVars(DaemonStep(Daemon!Drain))
    /\ \A t \in Loop : WF_mcVars(DaemonStep(bg[t] = "cancelled" /\ Daemon!LoopEnds(t)))

MCSpec == MCInit /\ [][MCNext]_mcVars /\ MCFairness

-----------------------------------------------------------------------------
\* A call returns a message with its own correlation id, or one without any of
\* the peer it asked, and such messages go to the oldest call first; no call
\* that has ended leaves a future behind that a late answer could be spent on.
AnswersFit == A2A!AnswersFit /\ A2A!InTurn /\ A2A!TablesDrain

\* Every A2A call ends, every ACP frame is read and every prompt reaches its
\* terminal update, and a stop of the daemon that was asked for ends.
WaitsEnd ==
    /\ env = "a2a" => A2A!CallsEnd
    /\ env = "acp" => Acp!FramesHandled
    /\ env = "daemon" => Daemon!StopEnds

\* An MCP client's cursor skips no event that the ring still held, and no late
\* answer becomes the result of the next request.
NothingSkipped == Mcp!NothingSkipped /\ []Mcp!ResultIsOwn

\* Background loops are gone before what they use is taken down, and the event
\* loop ends only with the store closed.
CleanExit == Daemon!CleanExit

\* A call by name or capability sends to peers that fit, to one when it succeeds
\* and none when it raises, not counting peers that were evicted meanwhile.
ResolvedOnce == Names!ResolvedOnce
=============================================================================
