------------------------------ MODULE McpServer ------------------------------
(***************************************************************************)
(* The state of the MCP server (ironmesh_mcp/server.py): the ring of       *)
(* events that clients poll with a cursor, and the one request_service     *)
(* call its stdio thread can be blocked on.  The daemon's bus thread       *)
(* records events and closes slots while the stdio thread polls and waits. *)
(***************************************************************************)
EXTENDS Naturals, Sequences, FiniteSets

CONSTANTS
    Kind,        \* kinds of events
    BufferSize,  \* event_buffer_size
    MaxEvents,   \* bound: events recorded
    Peer,
    MaxCalls     \* bound: request_service calls

VARIABLES
    events,      \* _events: [seq, kind], oldest first
    eventSeq,    \* _event_seq
    cursor,      \* what a client passes next
    seen,        \* history: sequence numbers returned to the client
    lost,        \* history: sequence numbers evicted before the client read them
    pending,     \* _pending: the call in flight and its slot, see NoCall
    calls,       \* request_service calls made so far
    owed,        \* requests a peer holds: [cid, peer]
    result       \* what the last call returned

mcpVars == <<events, eventSeq, cursor, seen, lost, pending, calls, owed, result>>

NoCall == [cid |-> 0, peer |-> "none", from |-> "none", response |-> 0]

Init ==
    /\ events = <<>> /\ eventSeq = 0
    /\ cursor = 0 /\ seen = {} /\ lost = {}
    /\ pending = NoCall /\ calls = 0 /\ owed = {}
    /\ result = NoCall

\* _record_event on the deque with maxlen.
Recorded(kind) ==
    LET all == Append(events, [seq |-> eventSeq + 1, kind |-> kind]) IN
    /\ eventSeq < MaxEvents
    /\ eventSeq' = eventSeq + 1
    /\ events' = IF Len(all) > BufferSize THEN Tail(all) ELSE all
    /\ lost' = IF Len(all) > BufferSize THEN lost \cup ({Head(all).seq} \ seen) ELSE lost

\* A bus event that closes no slot, a peer coming or going.
Record(kind) ==
    /\ Recorded(kind)
    /\ UNCHANGED <<cursor, seen, pending, calls, owed, result>>

\* tool_subscribe_events: the first "limit" events after the cursor of the kinds
\* asked for, as places in the ring; the cursor moves to the last one returned.
Wanted(kinds) == {i \in 1..Len(events) : events[i].seq > cursor /\ events[i].kind \in kinds}
Page(limit, kinds) ==
    {i \in Wanted(kinds) : Cardinality({j \in Wanted(kinds) : j <= i}) <= limit}
SeqsOf(page) == {events[i].seq : i \in page}

PollToNewest(limit, kinds) ==
    /\ pending = NoCall
    /\ seen' = seen \cup SeqsOf(Page(limit, kinds))
    /\ cursor' = eventSeq
    /\ UNCHANGED <<events, eventSeq, lost, pending, calls, owed, result>>

Poll(limit, kinds) ==
    /\ pending = NoCall
    /\ seen' = seen \cup SeqsOf(Page(limit, kinds))
    /\ \/ Page(limit, kinds) = {} /\ cursor' = cursor
       \/ \E i \in Page(limit, kinds) :
            /\ \A j \in Page(limit, kinds) : j <= i
            /\ cursor' = events[i].seq
    /\ UNCHANGED <<events, eventSeq, lost, pending, calls, owed, result>>

-----------------------------------------------------------------------------
\* tool_request_service: the slot, then the send.  A failing send ends the call;
\* its message may still go out.
Request(p) ==
    /\ pending = NoCall /\ calls < MaxCalls
    /\ calls' = calls + 1
    /\ pending' = [NoCall EXCEPT !.cid = calls + 1, !.peer = p]
    /\ owed' = owed \cup {[cid |-> calls + 1, peer |-> p]}
    /\ UNCHANGED <<events, eventSeq, cursor, seen, lost, result>>

\* _on_bus_event for a MSG with a correlation id, from the peer that was asked or
\* from another one that repeats it: recorded, and the slot closed only by the
\* former.
Reply(q, from) ==
    /\ q \in owed
    /\ Recorded("msg")
    /\ owed' = IF from = q.peer THEN owed \ {q} ELSE owed
    /\ pending' = IF pending.cid = q.cid /\ pending.peer = from
                    THEN [pending EXCEPT !.from = from, !.response = q.cid] ELSE pending
    /\ UNCHANGED <<cursor, seen, calls, result>>

\* The wait ends with a response, with its timeout or with a failed send.
Returns(answered) ==
    /\ pending # NoCall
    /\ answered => pending.response # 0
    /\ result' = IF answered THEN pending ELSE [pending EXCEPT !.from = "none", !.response = 0]
    /\ pending' = NoCall
    /\ UNCHANGED <<events, eventSeq, cursor, seen, lost, calls, owed>>

Next ==
    \/ \E k \in Kind : Record(k)
    \/ \E n \in 1..BufferSize, ks \in (SUBSET Kind) \ {{}} : Poll(n, ks)
    \/ \E p \in Peer : Request(p)
    \/ \E q \in owed, p \in Peer : Reply(q, p)
    \/ Returns(TRUE) \/ Returns(FALSE)

Spec == Init /\ [][Next]_mcpVars

-----------------------------------------------------------------------------
\* "Cursor stable even after eviction - clients pick up from where they left
\* off": a client that asks for every kind is told of every event up to its
\* cursor or has lost it to the ring's bound, and of none twice.
NothingSkipped ==
    [][\A n \in 1..BufferSize : Poll(n, Kind) =>
         /\ (cursor + 1)..cursor' \subseteq seen' \cup lost
         /\ (seen' \ seen) \cap (1..cursor) = {}]_mcpVars

\* A late answer to a call that has timed out never becomes the next call's
\* result, and no other peer's echo does.
ResultIsOwn == result.response # 0 => result.response = result.cid /\ result.from = result.peer
=============================================================================
