----------------------------- MODULE MCSession -----------------------------
(***************************************************************************)
(* A connection with one peer: its handshake, its keys and the messages    *)
(* that wait for it.  "env" names the part that runs and its environment;  *)
(* it is chosen at the start and never changes, and the other parts rest.  *)
(* The constants of the .cfg that SessionRekey declares are its adverse    *)
(* environment, in which nothing is assumed of the channel or of who       *)
(* starts a rekey when.  SessionRekeyProofs is about the same instances    *)
(* for every value of the constants.                                       *)
(***************************************************************************)
EXTENDS SessionRekey

CONSTANTS
    Msg, Rank, Flusher, Cap, OneSender, Throttled, MaxDrops,    \* OfflineQueue's
    None                                                        \* Handshake's

VARIABLES
    env,
    link, queue, task, victim, flush, copies, evicted, refused, expired, drops,
    setup, identified, server, client, toClient, toServer

queueVars == <<link, queue, task, victim, flush, copies, evicted, refused, expired, drops>>
hsVars == <<setup, identified, server, client, toClient, toServer>>
mcVars == <<vars, queueVars, hsVars, env>>

-----------------------------------------------------------------------------
\* One WebSocket; a node has at most one rekey of its own in flight.
Colliding == INSTANCE SessionRekey WITH
    Ordered <- TRUE, Lossy <- FALSE, Pace <- "one", GraceCovers <- TRUE,
    AgeClasses <- {"fresh"}, MaxSequence <- 10, MaxRekeys <- 2, MaxData <- 0

\* Sends and flushes overlap and the bandwidth gate drops frames.
Waiting == INSTANCE OfflineQueue

\* One send at a time into a queue of two, one flusher at a time.
Serial == INSTANCE OfflineQueue WITH Cap <- 2, OneSender <- TRUE, Throttled <- FALSE

\* One connection, for every mix of versions, transports and settings.
Attempt == INSTANCE Handshake

OneFlusher == CHOOSE f \in Flusher : TRUE

\* A CRITICAL, a NORMAL and a LOW message (_PRIORITY_RANK).
MCRank == [m \in {"crit", "norm", "low"} |-> IF m = "crit" THEN 0 ELSE IF m = "norm" THEN 2 ELSE 3]

SerialNext ==
    \/ \E m \in Msg : Serial!SendStep(m)
    \/ Serial!FlushStep(OneFlusher)
    \/ Serial!LinkLost \/ Serial!LinkRestored \/ Serial!ExpireOldest

-----------------------------------------------------------------------------
QueueAtRest == env \notin {"waiting", "serial"} => link
HandshakeAtRest ==
    env # "handshake" => setup = CHOOSE s \in Attempt!SetupType : TRUE

MCInit ==
    /\ env \in {"adverse", "colliding", "waiting", "serial", "handshake"}
    /\ Init
    /\ Serial!Init /\ QueueAtRest
    /\ Attempt!Init /\ HandshakeAtRest

MCNext ==
    /\ \/ env = "adverse" /\ Next /\ UNCHANGED <<queueVars, hsVars>>
       \/ env = "colliding" /\ Colliding!Next /\ UNCHANGED <<queueVars, hsVars>>
       \/ env = "waiting" /\ Waiting!Next /\ UNCHANGED <<vars, hsVars>>
       \/ env = "serial" /\ SerialNext /\ UNCHANGED <<vars, hsVars>>
       \/ env = "handshake" /\ Attempt!Next /\ UNCHANGED <<vars, queueVars>>
    /\ UNCHANGED env

In(e, A) == env = e /\ A /\ UNCHANGED env

\* The receive loop, a suspended handler and a send are asyncio tasks that the
\* event loop resumes as long as the connection lives: awaits on SQLite and on
\* sends of at most 5 seconds.  The flush loop runs for ever.  Every wait of a
\* handshake has a timeout.  Nothing makes a peer return.
MCFairness ==
    /\ \A n \in Node :
         /\ WF_mcVars(In("colliding", Colliding!Receive(n) /\ UNCHANGED <<queueVars, hsVars>>))
         /\ WF_mcVars(In("colliding", FinishResponse(n) /\ UNCHANGED <<queueVars, hsVars>>))
    /\ \A m \in Msg :
         WF_mcVars(In("serial", task[m] # "new" /\ Serial!SendStep(m) /\ UNCHANGED <<vars, hsVars>>))
    /\ WF_mcVars(In("serial", Serial!FlushStep(OneFlusher) /\ UNCHANGED <<vars, hsVars>>))
    /\ WF_mcVars(In("handshake", Attempt!Step /\ UNCHANGED <<vars, queueVars>>))

MCSpec == MCInit /\ [][MCNext]_mcVars /\ MCFairness

-----------------------------------------------------------------------------
\* When rekeys of both ends collide on an ordered connection, every one of them
\* ends, completed or given up, and whenever none is under way the tie-break of
\* _handle_rekey_request has left both ends with one and the same key.
CollisionResolves == env = "colliding" => []KeysConverge /\ RekeyCompletes

\* A queued message gives way only to one of the same or a higher priority,
\* although _evict_to_make_room selects and deletes in separate statements.
EvictionByPriority == Waiting!EvictionByPriority

\* With the peer back for good, _queue_flush_loop empties the queue.
SerialQueueDrains == env = "serial" => Serial!QueueDrains

\* Two 0.9 nodes never end a handshake with a legacy signature, even when the
\* server's unsigned version is lost, and agree on whether stage 1 was skipped
\* whichever way the race with the link's identify proof went.
NoDowngrade == Attempt!NoDowngrade /\ Attempt!SkipAgreed

\* Every pair of nodes whose settings agree ends connected, and every other
\* attempt ends too, on both sides.
AttemptsEnd == env = "handshake" => Attempt!AgreeingConnect /\ Attempt!HandshakeEnds
=============================================================================
