---------------------------- MODULE OfflineQueue ----------------------------
(***************************************************************************)
(* Messages one daemon sends to one peer: send_message of routing.py       *)
(* (direct, else queued), the bounded priority queue of store.py           *)
(* (queue_for_peer, _evict_to_make_room, mark_delivered,                   *)
(* cleanup_old_pending) and the tasks that flush it (_flush_pending,       *)
(* started by a completed handshake and by _queue_flush_loop).             *)
(*                                                                         *)
(* Every await of the code is a point where the other tasks run, so one    *)
(* SQL statement is one step.  Rows marked delivered are invisible to      *)
(* every query modelled here and are left out of "queue".                  *)
(***************************************************************************)
EXTENDS Naturals, Sequences, FiniteSets, SequencesExt

CONSTANTS
    Msg,            \* the messages send_message is called with
    Rank,           \* MessageStore._PRIORITY_RANK of each message's priority
    Flusher,        \* concurrent runs of _flush_pending for the peer
    Cap,            \* max_pending_per_peer, 0 disables the cap
    OneSender,      \* TRUE: calls of send_message do not overlap
    Throttled,      \* TRUE: the bandwidth gate may drop a frame
    MaxDrops        \* bound: times the connection is lost

VARIABLES
    link,           \* the peer is in ws_clients with a session key
    queue,          \* undelivered rows, oldest created_at first
    task,           \* where each message's send_message is
    victim,         \* the row its _evict_to_make_room selected
    flush,          \* each flusher: its step and the rows it read
    copies,         \* how often each message was handed to the socket
    evicted, refused, expired,  \* messages the queue gave up, and why
    drops

vars == <<link, queue, task, victim, flush, copies, evicted, refused, expired, drops>>

NoFlush == [at |-> "idle", todo |-> <<>>]

Init ==
    /\ link \in BOOLEAN
    /\ queue = <<>>
    /\ task = [m \in Msg |-> "new"]
    /\ victim = [m \in Msg |-> m]
    /\ flush = [f \in Flusher |-> NoFlush]
    /\ copies = [m \in Msg |-> 0]
    /\ evicted = {} /\ refused = {} /\ expired = {}
    /\ drops = 0

Goto(m, step) == task' = [task EXCEPT ![m] = step]

-----------------------------------------------------------------------------
(***************************************************************************)
(* send_message                                                            *)
(***************************************************************************)
\* store_message and the pre_send hook are done; the path is chosen from the
\* session state.  (No mesh route is known: see the relay modules.)
ChoosePath(m) ==
    /\ task[m] = "new"
    /\ OneSender => \A x \in Msg : task[x] \in {"new", "done"}
    /\ Goto(m, IF link THEN "direct" ELSE "count")
    /\ UNCHANGED <<link, queue, victim, flush, copies, evicted, refused, expired, drops>>

\* _send_frame: nothing is raised to the caller when the frame goes nowhere.
Transmit(m) ==
    \/ link /\ copies' = [copies EXCEPT ![m] = @ + 1]
    \/ (~link \/ Throttled) /\ UNCHANGED copies

SendDirect(m) ==
    /\ task[m] = "direct"
    /\ Transmit(m)
    /\ Goto(m, "done")
    /\ UNCHANGED <<link, queue, victim, flush, evicted, refused, expired, drops>>

\* queue_for_peer: SELECT COUNT(*)
AtCap == Cap > 0 /\ Len(queue) >= Cap

CountPending(m) ==
    /\ task[m] = "count"
    /\ Goto(m, IF AtCap THEN "select" ELSE "insert")
    /\ UNCHANGED <<link, queue, victim, flush, copies, evicted, refused, expired, drops>>

\* ORDER BY rank DESC, created_at ASC LIMIT 1
IsVictim(i) ==
    \A j \in DOMAIN queue :
        Rank[queue[j]] < Rank[queue[i]] \/ (Rank[queue[j]] = Rank[queue[i]] /\ i <= j)

MayDisplaceSwapped(v, m) == Rank[v] <= Rank[m]
MayDisplace(v, m) == Rank[v] >= Rank[m]

\* _evict_to_make_room: SELECT the victim, refuse when there is none or when
\* everything queued is of strictly higher priority.
SelectVictim(m) ==
    /\ task[m] = "select"
    /\ \/ \E i \in DOMAIN queue :
            /\ IsVictim(i)
            /\ MayDisplace(queue[i], m)
            /\ victim' = [victim EXCEPT ![m] = queue[i]]
            /\ Goto(m, "delete")
            /\ UNCHANGED refused
       \/ /\ \A i \in DOMAIN queue : IsVictim(i) => ~MayDisplace(queue[i], m)
          /\ refused' = refused \cup {m}
          /\ Goto(m, "done")
          /\ UNCHANGED victim
    /\ UNCHANGED <<link, queue, flush, copies, evicted, expired, drops>>

DeleteVictim(m) ==
    /\ task[m] = "delete"
    /\ queue' = Remove(queue, victim[m])
    /\ evicted' = evicted \cup ({victim[m]} \cap Range(queue))
    /\ Goto(m, "insert")
    /\ UNCHANGED <<link, victim, flush, copies, refused, expired, drops>>

Inserted(m) == Append(queue, m)

InsertPending(m) ==
    /\ task[m] = "insert"
    /\ queue' = Inserted(m)
    /\ Goto(m, "done")
    /\ UNCHANGED <<link, victim, flush, copies, evicted, refused, expired, drops>>

-----------------------------------------------------------------------------
(***************************************************************************)
(* _flush_pending                                                          *)
(***************************************************************************)
\* get_pending_for_peer: by priority, oldest first.
ByPriorityNoLow(q) ==
    LET Of(r) == SelectSeq(q, LAMBDA x : Rank[x] = r)
    IN  Of(0) \o Of(1) \o Of(2)
ByPriority(q) ==
    LET Of(r) == SelectSeq(q, LAMBDA x : Rank[x] = r)
    IN  Of(0) \o Of(1) \o Of(2) \o Of(3)

\* The handshake completed, or the flush loop found the peer online.
StartFlush(f) ==
    /\ link
    /\ flush[f] = NoFlush
    /\ queue # <<>>
    /\ flush' = [flush EXCEPT ![f].at = "read"]
    /\ UNCHANGED <<link, queue, task, victim, copies, evicted, refused, expired, drops>>

ReadPending(f) ==
    /\ flush[f].at = "read"
    /\ flush' = [flush EXCEPT ![f] = IF ByPriority(queue) = <<>> THEN NoFlush
                                     ELSE [at |-> "send", todo |-> ByPriority(queue)]]
    /\ UNCHANGED <<link, queue, task, victim, copies, evicted, refused, expired, drops>>

FlushSend(f) ==
    /\ flush[f].at = "send"
    /\ Transmit(Head(flush[f].todo))
    /\ flush' = [flush EXCEPT ![f].at = "mark"]
    /\ UNCHANGED <<link, queue, task, victim, evicted, refused, expired, drops>>

\* mark_delivered, whatever became of the frame.
Marked(m) == Remove(queue, m)

FlushMark(f) ==
    LET rest == Tail(flush[f].todo) IN
    /\ flush[f].at = "mark"
    /\ queue' = Marked(Head(flush[f].todo))
    /\ flush' = [flush EXCEPT ![f] = IF rest = <<>> THEN NoFlush
                                     ELSE [at |-> "send", todo |-> rest]]
    /\ UNCHANGED <<link, task, victim, copies, evicted, refused, expired, drops>>

-----------------------------------------------------------------------------
(***************************************************************************)
(* The connection, and cleanup_old_pending (rows older than a day).        *)
(***************************************************************************)
LinkLost ==
    /\ link /\ drops < MaxDrops
    /\ link' = FALSE
    /\ drops' = drops + 1
    /\ UNCHANGED <<queue, task, victim, flush, copies, evicted, refused, expired>>

LinkRestored ==
    /\ ~link
    /\ link' = TRUE
    /\ UNCHANGED <<queue, task, victim, flush, copies, evicted, refused, expired, drops>>

ExpireOldest ==
    \E k \in DOMAIN queue :
    /\ expired' = expired \cup Range(SubSeq(queue, 1, k))
    /\ queue' = SubSeq(queue, k + 1, Len(queue))
    /\ UNCHANGED <<link, task, victim, flush, copies, evicted, refused, drops>>

-----------------------------------------------------------------------------
SendStep(m) == ChoosePath(m) \/ SendDirect(m) \/ CountPending(m) \/ SelectVictim(m)
               \/ DeleteVictim(m) \/ InsertPending(m)
FlushStep(f) == StartFlush(f) \/ ReadPending(f) \/ FlushSend(f) \/ FlushMark(f)

Next ==
    \/ \E m \in Msg : SendStep(m)
    \/ \E f \in Flusher : FlushStep(f)
    \/ LinkLost \/ LinkRestored \/ ExpireOldest

Spec == Init /\ [][Next]_vars

-----------------------------------------------------------------------------
\* Every variable keeps its type, and a message has at most one row.
TypeOK ==
    /\ link \in BOOLEAN
    /\ queue \in Seq(Msg) /\ IsInjective(queue)
    /\ task \in [Msg -> {"new", "direct", "count", "select", "delete", "insert", "done"}]
    /\ victim \in [Msg -> Msg]
    /\ \A f \in Flusher : flush[f].at \in {"idle", "read", "send", "mark"} /\ flush[f].todo \in Seq(Msg)
    /\ copies \in [Msg -> Nat]
    /\ evicted \subseteq Msg /\ refused \subseteq Msg /\ expired \subseteq Msg
    /\ drops \in 0 .. MaxDrops

\* max_pending_per_peer bounds the undelivered rows.
CapRespected == Cap > 0 => Len(queue) <= Cap

\* A queued message gives way only to one of the same or a higher priority:
\* no interleaving of senders and flushers lets a lower one displace it.
EvictionByPriority ==
    [][\A v \in evicted' \ evicted : \E m \in Msg :
           task[m] = "delete" /\ task'[m] = "insert" /\ Rank[v] >= Rank[m]]_vars

\* Flushing sends a message at most once per concurrent flusher: once, when
\* flushes do not overlap.
CopiesBounded == \A m \in Msg : copies[m] <= Cardinality(Flusher)

\* With the peer back for good, the queue empties.
QueueDrains == <>[]link => <>[](queue = <<>>)
=============================================================================
