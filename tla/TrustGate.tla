----------------------------- MODULE TrustGate ------------------------------
(***************************************************************************)
(* The pending-trust gate for one pinned peer, with                        *)
(* require_message_promotion on: _gate_inbound_msg holds the peer's        *)
(* messages in the table pending_trust_messages until an operator decides, *)
(* promote_pending_peer drains the table onto the bus, block_pending_peer  *)
(* empties it.                                                             *)
(*                                                                         *)
(* The peer's receive loop handles one frame at a time; each operator      *)
(* (GUI client, MCP) issues one command at a time.  Every await is a point *)
(* where the others run, so one SQL statement is one step, while the trust *)
(* file is read or written without an await.  All queries carry            *)
(* WHERE source_node_id = peer: "rows" is this peer's part of the table.   *)
(***************************************************************************)
EXTENDS Naturals, Sequences, FiniteSets, SequencesExt

CONSTANTS
    Message,        \* message ids the peer sends
    Operator,       \* concurrent operator sessions
    Command,        \* what operators may do: "promote", "block", "accept"
    Cap,            \* pending_trust_queue_cap
    Repeated,       \* bound: the message ids that may arrive twice
    MaxFaults       \* bound: restarts of the daemon and failing stores

ASSUME GateAssumption ==
    /\ Command \subseteq {"promote", "block", "accept"}
    /\ Repeated \subseteq Message
    /\ Cap \in Nat \ {0} /\ MaxFaults \in Nat

VARIABLES
    trust,          \* trust_state of the peer on disk
    rows,           \* its rows of pending_trust_messages, oldest first
    inbound,        \* the receive loop: its step and the message in hand
    task,           \* each operator's command: its step and the rows it read
    seen,           \* (source, msg_id) pairs of the mesh dedup cache
    published,      \* messages handed to bus.publish, in order
    dropped,        \* messages evicted, discarded by a block or refused
    copies,         \* history: frames received with each message id
    vouched,        \* history: an operator made the peer trusted
    faults

vars == <<trust, rows, inbound, task, seen, published, dropped, copies, vouched, faults>>

NoMessage == "none"
Idle == [at |-> "idle", msg |-> NoMessage]
NoTask == [at |-> "idle", batch |-> <<>>]

\* _check_tofu pinned the peer as "pending" when the gate is on.
Init ==
    /\ trust = "pending"
    /\ rows = <<>>
    /\ inbound = Idle
    /\ task = [o \in Operator |-> NoTask]
    /\ seen = {}
    /\ published = <<>>
    /\ dropped = {}
    /\ copies = [m \in Message |-> 0]
    /\ vouched = FALSE
    /\ faults = 0

-----------------------------------------------------------------------------
(***************************************************************************)
(* The receive loop                                                        *)
(***************************************************************************)
\* get_trust_state: the gate lets the frame through.
Passes(s) == s = "trusted"

\* _gate_inbound_msg reads the trust state; a frame that passes meets the
\* terminal dedup of the mesh layer before the first await.
Receive(m) ==
    /\ inbound = Idle
    /\ copies[m] < IF m \in Repeated THEN 2 ELSE 1
    /\ copies' = [copies EXCEPT ![m] = @ + 1]
    /\ \/ /\ Passes(trust) /\ m \notin seen
          /\ seen' = seen \cup {m}
          /\ inbound' = [at |-> "store", msg |-> m]
          /\ UNCHANGED dropped
       \/ /\ Passes(trust) /\ m \in seen
          /\ UNCHANGED <<seen, inbound, dropped>>
       \/ /\ ~Passes(trust) /\ trust = "blocked"
          /\ dropped' = dropped \cup {m}
          /\ UNCHANGED <<seen, inbound>>
       \/ /\ ~Passes(trust) /\ trust # "blocked"
          /\ inbound' = [at |-> "count", msg |-> m]
          /\ UNCHANGED <<seen, dropped>>
    /\ UNCHANGED <<trust, rows, task, published, vouched, faults>>

\* store_message, then bus.publish.
Deliver ==
    /\ inbound.at = "store"
    /\ published' = Append(published, inbound.msg)
    /\ inbound' = Idle
    /\ UNCHANGED <<trust, rows, task, seen, dropped, copies, vouched, faults>>

\* queue_pending_trust: the table is at its cap.
Full(n) == n >= Cap

CountRows ==
    /\ inbound.at = "count"
    /\ inbound' = [inbound EXCEPT !.at = IF Full(Len(rows)) THEN "evict" ELSE "insert"]
    /\ UNCHANGED <<trust, rows, task, seen, published, dropped, copies, vouched, faults>>

\* DELETE of the oldest row (of none, if the table was emptied meanwhile).
EvictOldest ==
    /\ inbound.at = "evict"
    /\ inbound' = [inbound EXCEPT !.at = "insert"]
    /\ rows' = IF rows = <<>> THEN rows ELSE Tail(rows)
    /\ dropped' = dropped \cup (ToSet(rows) \ ToSet(rows'))
    /\ UNCHANGED <<trust, task, seen, published, copies, vouched, faults>>

\* INSERT; UNIQUE(source_node_id, msg_id) refuses a second row.
InsertRow ==
    /\ inbound.at = "insert"
    /\ rows' = IF Contains(rows, inbound.msg) THEN rows ELSE Append(rows, inbound.msg)
    /\ inbound' = Idle
    /\ UNCHANGED <<trust, task, seen, published, dropped, copies, vouched, faults>>

-----------------------------------------------------------------------------
(***************************************************************************)
(* Operators                                                               *)
(***************************************************************************)
Step(o, at, batch) == task' = [task EXCEPT ![o] = [at |-> at, batch |-> batch]]

\* promote_pending_peer: trusted on disk, then drain_pending_trust.
Promote(o) ==
    /\ "promote" \in Command
    /\ task[o] = NoTask
    /\ trust' = "trusted"
    /\ vouched' = TRUE
    /\ Step(o, "select", <<>>)
    /\ UNCHANGED <<rows, inbound, seen, published, dropped, copies, faults>>

\* The rows drain_pending_trust returns.
Selected == rows

SelectRows(o) ==
    /\ task[o].at = "select"
    /\ IF Selected = <<>> THEN Step(o, "idle", <<>>) ELSE Step(o, "delete", Selected)
    /\ UNCHANGED <<trust, rows, inbound, seen, published, dropped, copies, vouched, faults>>

KeptAfterDrain == rows

\* DELETE ... WHERE source_node_id = peer: every row, read or not.
AfterDrain == <<>>

DeleteRows(o) ==
    /\ task[o].at = "delete"
    /\ rows' = AfterDrain
    /\ Step(o, "publish", task[o].batch)
    /\ UNCHANGED <<trust, inbound, seen, published, dropped, copies, vouched, faults>>

Rest(o) ==
    IF Len(task[o].batch) = 1 THEN Step(o, "idle", <<>>)
                              ELSE Step(o, "publish", Tail(task[o].batch))

\* store_message and bus.publish for the next row of the batch ...
PublishNext(o) ==
    /\ task[o].at = "publish"
    /\ published' = Append(published, Head(task[o].batch))
    /\ Rest(o)
    /\ UNCHANGED <<trust, rows, inbound, seen, dropped, copies, vouched, faults>>

\* ... or the store raises, which is logged and skipped.
PublishFails(o) ==
    /\ task[o].at = "publish"
    /\ faults < MaxFaults
    /\ faults' = faults + 1
    /\ Rest(o)
    /\ UNCHANGED <<trust, rows, inbound, seen, published, dropped, copies, vouched>>

\* block_pending_peer: blocked on disk, then discard_pending_trust.
Block(o) ==
    /\ "block" \in Command
    /\ task[o] = NoTask
    /\ trust' = "blocked"
    /\ Step(o, "tally", <<>>)
    /\ UNCHANGED <<rows, inbound, seen, published, dropped, copies, vouched, faults>>

TallyRows(o) ==
    /\ task[o].at = "tally"
    /\ Step(o, IF rows = <<>> THEN "idle" ELSE "discard", <<>>)
    /\ UNCHANGED <<trust, rows, inbound, seen, published, dropped, copies, vouched, faults>>

DiscardRows(o) ==
    /\ task[o].at = "discard"
    /\ dropped' = dropped \cup ToSet(rows)
    /\ rows' = <<>>
    /\ Step(o, "idle", <<>>)
    /\ UNCHANGED <<trust, inbound, seen, published, copies, vouched, faults>>

\* A changed capability announcement demotes the peer (CapabilityBinding).
Demote ==
    /\ "accept" \in Command
    /\ trust # "pending-cap-change"
    /\ trust' = "pending-cap-change"
    /\ UNCHANGED <<rows, inbound, task, seen, published, dropped, copies, vouched, faults>>

\* accept_pending_cap_change, also behind tool_cap_promote_peer.
AcceptCapChange ==
    /\ "accept" \in Command
    /\ trust = "pending-cap-change"
    /\ trust' = "trusted"
    /\ vouched' = TRUE
    /\ UNCHANGED <<rows, inbound, task, seen, published, dropped, copies, faults>>

\* The daemon restarts: files survive, tasks and the dedup cache do not.
Crash ==
    /\ faults < MaxFaults
    /\ faults' = faults + 1
    /\ inbound' = Idle
    /\ task' = [o \in Operator |-> NoTask]
    /\ seen' = {}
    /\ UNCHANGED <<trust, rows, published, dropped, copies, vouched>>

-----------------------------------------------------------------------------
Progress(o) ==
    \/ SelectRows(o) \/ DeleteRows(o) \/ PublishNext(o) \/ TallyRows(o) \/ DiscardRows(o)

Next ==
    \/ \E m \in Message : Receive(m)
    \/ Deliver \/ CountRows \/ EvictOldest \/ InsertRow
    \/ \E o \in Operator : Promote(o) \/ Block(o) \/ PublishFails(o) \/ Progress(o)
    \/ Demote \/ AcceptCapChange
    \/ Crash

Spec == Init /\ [][Next]_vars

\* A started command keeps running: the event loop resumes every coroutine
\* whose statement completed.
FairSpec == Spec /\ \A o \in Operator : WF_vars(Progress(o))

-----------------------------------------------------------------------------
(***************************************************************************)
(* Properties                                                              *)
(***************************************************************************)
\* Every variable keeps its type.
TypeOK ==
    /\ trust \in {"pending", "trusted", "blocked", "pending-cap-change"}
    /\ rows \in Seq(Message)
    /\ inbound \in [at : {"idle", "store", "count", "evict", "insert"},
                    msg : Message \cup {NoMessage}]
    /\ task \in [Operator ->
                   [at : {"idle", "select", "delete", "publish", "tally", "discard"},
                    batch : Seq(Message)]]
    /\ seen \subseteq Message
    /\ published \in Seq(Message)
    /\ dropped \subseteq Message
    /\ copies \in [Message -> 0 .. 2]
    /\ vouched \in BOOLEAN
    /\ faults \in 0 .. MaxFaults

\* The cap of queue_pending_trust bounds the table although COUNT, DELETE
\* and INSERT are separate statements, because the peer's receive loop is
\* the only writer that adds rows.
CapKept == Len(rows) <= Cap

\* Nothing the peer sent reaches the bus before an operator trusted it
\* (_gate_inbound_msg holds or drops it), whatever restarts happen.
GateHolds == published # <<>> => vouched

\* A message that arrived once reaches bus subscribers at most once, although
\* the terminal dedup of routing.py and the drain of promote_pending_peer know
\* nothing of each other, and whatever restarts happen.
PublishedOnce ==
    \A m \in Message :
        copies[m] = 1 => \A i, j \in DOMAIN published :
                             published[i] = m /\ published[j] = m => i = j

\* What waits in the table when promote_pending_peer reads it is published,
\* or dropped by a rule, or lost with a restart or a failing store.
PromotionDelivers ==
    \A m \in Message, o \in Operator :
        (task[o].at = "select" /\ Contains(rows, m))
            ~> (Contains(published, m) \/ m \in dropped \/ faults > 0)

InHand ==
    {inbound.msg} \cup UNION {ToSet(task[o].batch) : o \in Operator}

\* With no restart and no failing store, a message the gate took is in the
\* table, in the hands of a coroutine, published, or dropped by a rule.
NothingLost ==
    faults = 0 =>
        \A m \in Message :
            copies[m] > 0 =>
                \/ m \in ToSet(rows) \cup ToSet(published) \cup dropped
                \/ m \in InHand
=============================================================================
