----------------------------- MODULE A2AGateway -----------------------------
(***************************************************************************)
(* message/send of the A2A gateway (ironmesh_a2a/server.py).  Every HTTP   *)
(* request has its own thread and blocks for an answer; the daemon's MSG   *)
(* bus hands every inbound message to the gateway, which wakes a future:   *)
(* by correlation id if the message carries one, whoever it is from, else  *)
(* the oldest future of the peer it came from.  Setting a future's result  *)
(* is a step of the event loop of its own, which the request's timeout can *)
(* overtake.                                                               *)
(*                                                                         *)
(* Any peer may send any message at any time, again, and unasked; only a   *)
(* correlation id is not in any message before its request has begun its   *)
(* way.  "From" is what the bus calls peer_id: the connection a message    *)
(* came over, which for a relayed message is the last relay.               *)
(***************************************************************************)
EXTENDS Naturals

CONSTANTS
    Call,       \* the requests, one thread each
    Peer,
    Target      \* call -> the peer it is for

VARIABLES
    thread,     \* call -> where its thread stands
    futures,    \* keys of _reply_futures
    older,      \* call -> the calls that were registered before it
    replyPeer,  \* keys of _reply_peer
    future,     \* call -> its future
    scheduled   \* set_result callbacks on the loop: <<call, message>>

a2aVars == <<thread, futures, older, replyPeer, future, scheduled>>

\* A future: open, or done with a message, of which the gateway has read the
\* correlation id or, if it carries none, the peer.
Pending == [state |-> "pending", from |-> {}, id |-> {}]
Cancelled == [state |-> "cancelled", from |-> {}, id |-> {}]
Naming(c) == [state |-> "done", from |-> {}, id |-> {c}]
Plain(p) == [state |-> "done", from |-> {p}, id |-> {}]

Init ==
    /\ thread = [c \in Call |-> "new"]
    /\ futures = {}
    /\ older = [c \in Call |-> {}]
    /\ replyPeer = {}
    /\ future = [c \in Call |-> Pending]
    /\ scheduled = {}

\* Authorised, well-formed and for a node id: the future comes before the send.
\* Everything else is answered with an error and changes nothing.
Register(c) ==
    /\ thread[c] = "new"
    /\ thread' = [thread EXCEPT ![c] = "sending"]
    /\ futures' = futures \cup {c}
    /\ older' = [older EXCEPT ![c] = {d \in Call : thread[d] # "new"}]
    /\ replyPeer' = replyPeer \cup {c}
    /\ UNCHANGED <<future, scheduled>>

Send(c) ==
    /\ thread[c] = "sending"
    /\ thread' = [thread EXCEPT ![c] = "waiting"]
    /\ UNCHANGED <<futures, older, replyPeer, future, scheduled>>

Forget(c) ==
    /\ futures' = futures \ {c}
    /\ replyPeer' = replyPeer \ {c}

\* The send raises, or takes longer than 15 s and goes on by itself.
SendFails(c) ==
    /\ thread[c] = "sending"
    /\ thread' = [thread EXCEPT ![c] = "unreachable"]
    /\ Forget(c)
    /\ UNCHANGED <<older, future, scheduled>>

-----------------------------------------------------------------------------
\* The pending calls to peer p.
CandidatesOfAnyPeer(p) == futures \cap replyPeer
Candidates(p) == {c \in futures \cap replyPeer : Target[c] = p}

Wake(c, message) ==
    IF future[c] = Pending THEN scheduled \cup {<<c, message>>} ELSE scheduled

\* _on_inbound_msg, path 1: a message with a's id, of any peer, which is not
\* looked at.  The peer's entry stays behind; an id nobody waits for is dropped.
Correlated(a) ==
    /\ thread[a] # "new"
    /\ futures' = futures \ {a}
    /\ scheduled' = IF a \in futures THEN Wake(a, Naming(a)) ELSE scheduled
    /\ UNCHANGED <<thread, older, replyPeer, future>>

\* Path 2: the oldest pending call to the peer takes it, whatever it says.
Uncorrelated(p) ==
    \E c \in Candidates(p) :
        /\ \A d \in Candidates(p) \ {c} : c \in older[d]
        /\ Forget(c)
        /\ scheduled' = Wake(c, Plain(p))
        /\ UNCHANGED <<thread, older, future>>

\* The loop runs set_result; on a future that is done it only raises.
SetResult(w) ==
    /\ w \in scheduled
    /\ scheduled' = scheduled \ {w}
    /\ future' = IF future[w[1]] = Pending THEN [future EXCEPT ![w[1]] = w[2]] ELSE future
    /\ UNCHANGED <<thread, futures, older, replyPeer>>

\* wait_for cancels the future; if the loop is held up for five seconds more,
\* the thread gives up without that.  The tables follow.
TimesOut(c) ==
    /\ thread[c] = "waiting"
    /\ thread' = [thread EXCEPT ![c] = "leaving"]
    /\ \/ UNCHANGED future
       \/ future[c] = Pending /\ future' = [future EXCEPT ![c] = Cancelled]
    /\ UNCHANGED <<futures, older, replyPeer, scheduled>>

GiveUp(c) ==
    /\ thread[c] = "leaving"
    /\ thread' = [thread EXCEPT ![c] = "timeout"]
    /\ Forget(c)
    /\ UNCHANGED <<older, future, scheduled>>

Return(c) ==
    /\ thread[c] = "waiting" /\ future[c].state = "done"
    /\ thread' = [thread EXCEPT ![c] = "answered"]
    /\ UNCHANGED <<futures, older, replyPeer, future, scheduled>>

Next ==
    \/ \E c \in Call :
         \/ Register(c) \/ Send(c) \/ SendFails(c)
         \/ Correlated(c)
         \/ TimesOut(c) \/ GiveUp(c) \/ Return(c)
    \/ \E p \in Peer : Uncorrelated(p)
    \/ \E w \in scheduled : SetResult(w)

Spec == Init /\ [][Next]_a2aVars

\* The thread's own steps: every wait in it has a timeout.
Progress(c) == Send(c) \/ SendFails(c) \/ TimesOut(c) \/ GiveUp(c) \/ Return(c)

-----------------------------------------------------------------------------
Ended == {"answered", "timeout", "unreachable"}

\* What a call returns is a message with its own correlation id or, if it has
\* none, one of the peer that was asked; a late answer that names another call is
\* never spent on this one.  So a peer whose every message names its call is
\* resolved precisely, as long as nobody else repeats its ids.
AnswersFit ==
    \A c \in Call : thread[c] = "answered" =>
        \/ future[c].id = {c}
        \/ future[c] = Plain(Target[c])

\* "Wake the single oldest pending future for that peer": while a call is
\* registered, no younger one to the same peer returns a plain message.
InTurn ==
    \A c \in Call, d \in futures :
        thread[c] = "answered" /\ future[c] = Plain(Target[d]) /\ Target[c] = Target[d]
            => c \in older[d]

\* A call that has ended holds no future a message could still be spent on; the
\* only entries left behind are the peers of calls answered by their id.
TablesDrain ==
    \A c \in Call : thread[c] \in Ended =>
        /\ c \notin futures
        /\ c \in replyPeer => thread[c] = "answered" /\ future[c].id = {c}

\* No call waits for ever, whatever its peer does.
CallsEnd == \A c \in Call : thread[c] # "new" ~> thread[c] \in Ended
=============================================================================
