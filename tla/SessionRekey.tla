---------------------------- MODULE SessionRekey ----------------------------
(***************************************************************************)
(* One established session between two IronMesh daemons: sending frames    *)
(* (routing.py, _send_frame), receiving them (_handle_binary_frame with    *)
(* the ReplayGuard of protocol.py) and the session-key rotation of         *)
(* handshake.py (_initiate_rekey, _handle_rekey_request,                   *)
(* _handle_rekey_response) with its dual-key grace window.                 *)
(*                                                                         *)
(* Cryptography is symbolic.  An ephemeral X25519 key pair is a number     *)
(* drawn from the counter "fresh"; an ECDH secret is the set of the two    *)
(* ephemerals it was computed from, so it is the same whichever end        *)
(* computes it.  A rekey_id (a uuid4 made with the ephemeral) is that      *)
(* ephemeral.                                                              *)
(***************************************************************************)
EXTENDS Naturals, Sequences, FiniteSets

CONSTANTS
    Node,           \* the two daemons of the session
    Smaller,        \* the one whose node_id is lexicographically smaller
    Ordered,        \* TRUE: frames arrive in the order they were sent (WebSocket)
    Lossy,          \* TRUE: a frame may vanish (bandwidth gate, rate limiter)
    Pace,           \* when a node initiates a rekey, see MayInitiate
    GraceCovers,    \* TRUE: the grace window outlasts the frames it is for
    AgeClasses,     \* how a frame's timestamp may look to the receiver
    MaxSequence,    \* ReplayGuard.MAX_SEQUENCE
    MaxRekeys,      \* bound: rekeys a node initiates
    MaxData         \* bound: application frames a node sends

ASSUME NodeAssumption == Smaller \in Node /\ \E m \in Node : Node = {Smaller, m} /\ m # Smaller
ASSUME FlagAssumption == {Ordered, Lossy, GraceCovers} \subseteq BOOLEAN
ASSUME PaceAssumption == Pace \in {"any", "one", "calm"}
ASSUME AgeAssumption  == AgeClasses \subseteq {"fresh", "old", "future"}
ASSUME BoundAssumption == MaxSequence \in Nat /\ MaxRekeys \in Nat /\ MaxData \in Nat

VARIABLES
    sessionKey,     \* PeerState.session_key, per node
    prevKey,        \* PeerState.prev_session_key
    graceOpen,      \* time.monotonic() < PeerState.rekey_transition_until
    lastSeq,        \* ReplayGuard high-water mark of the peer's current epoch
    prevLastSeq,    \* ... and of the snapshot under prev_epoch_key
    nextSeq,        \* PeerState.next_send_seq
    pending,        \* PeerState._pending_rekey_id / _pending_rekey_private
    responding,     \* the suspended _handle_rekey_request, if any
    fresh,          \* next unused ephemeral
    wire,           \* frames on their way to each node
    sent,           \* history: every frame sent to a node
    accepted,       \* history: every frame a node accepted
    rekeys,         \* rekeys initiated so far (bound)
    data            \* application frames sent so far (bound)

vars == <<sessionKey, prevKey, graceOpen, lastSeq, prevLastSeq, nextSeq, pending,
          responding, fresh, wire, sent, accepted, rekeys, data>>

rxVars  == <<sessionKey, prevKey, graceOpen, lastSeq, prevLastSeq>>
bounds  == <<rekeys, data>>

NoRekey == 0                \* _pending_rekey_id is None
NoKey   == {}               \* prev_session_key is None
HandshakeKey == {0}         \* the session key of the completed handshake
Idle    == [theirs |-> 0, mine |-> 0]   \* no handler suspended

Peer(n) == CHOOSE m \in Node : m # n

\* crypto.ecdh_exchange: both ends of one exchange derive the same secret.
Ecdh(e1, e2) == {e1, e2}

Kinds == {"DATA", "REKEY_REQUEST", "REKEY_RESPONSE"}
Frame == [key : SUBSET Nat, seq : Nat, kind : Kinds, id : Nat, eph : Nat]

-----------------------------------------------------------------------------
Init ==
    /\ sessionKey  = [n \in Node |-> HandshakeKey]
    /\ prevKey     = [n \in Node |-> NoKey]
    /\ graceOpen   = [n \in Node |-> FALSE]
    /\ lastSeq     = [n \in Node |-> 0]
    /\ prevLastSeq = [n \in Node |-> 0]
    /\ nextSeq     = [n \in Node |-> 1]
    /\ pending     = [n \in Node |-> NoRekey]
    /\ responding  = [n \in Node |-> Idle]
    /\ fresh       = 1
    /\ wire        = [n \in Node |-> <<>>]
    /\ sent        = [n \in Node |-> {}]
    /\ accepted    = [n \in Node |-> {}]
    /\ rekeys      = [n \in Node |-> 0]
    /\ data        = [n \in Node |-> 0]

-----------------------------------------------------------------------------
(***************************************************************************)
(* Sending.  The sequence number is taken and the frame encrypted under    *)
(* the current session key in one step, before the first await.            *)
(***************************************************************************)
Sealed(n, kind, id, eph) ==
    [key |-> sessionKey[n], seq |-> nextSeq[n], kind |-> kind, id |-> id, eph |-> eph]

\* "rest" is wire with whatever the step consumed already taken out.
SendFrame(n, f, rest) ==
    /\ wire' = [rest EXCEPT ![Peer(n)] = Append(@, f)]
    /\ sent' = [sent EXCEPT ![Peer(n)] = @ \cup {f}]

\* PeerState.next_sequence
SpendEarlyReset(n) ==
    nextSeq' = [nextSeq EXCEPT ![n] = IF responding[n] = Idle THEN @ + 1 ELSE 1]
Spend(n) == nextSeq' = [nextSeq EXCEPT ![n] = @ + 1]

SendData(n) ==
    /\ data[n] < MaxData
    /\ data' = [data EXCEPT ![n] = @ + 1]
    /\ SendFrame(n, Sealed(n, "DATA", NoRekey, 0), wire)
    /\ Spend(n)
    /\ UNCHANGED <<rxVars, pending, responding, fresh, accepted, rekeys>>

\* The code starts a rekey at any time ("any").  What holds only when a node
\* has one rekey of its own in flight is checked under "one", and what needs
\* it not to be answering the peer's either under "calm".
MayInitiate(n) ==
    /\ Pace \in {"one", "calm"} => pending[n] = NoRekey
    /\ Pace = "calm" => responding[n] = Idle

(***************************************************************************)
(* _initiate_rekey, reached from _rekey_loop (the smaller node id only)    *)
(* and from the dashboard's rotate_session (either node).  It overwrites   *)
(* whatever rekey was pending.                                             *)
(***************************************************************************)
InitiateRekey(n) ==
    /\ rekeys[n] < MaxRekeys
    /\ MayInitiate(n)
    /\ rekeys' = [rekeys EXCEPT ![n] = @ + 1]
    /\ pending' = [pending EXCEPT ![n] = fresh]
    /\ fresh' = fresh + 1
    /\ SendFrame(n, Sealed(n, "REKEY_REQUEST", fresh, fresh), wire)
    /\ Spend(n)
    /\ UNCHANGED <<rxVars, responding, accepted, data>>

-----------------------------------------------------------------------------
(***************************************************************************)
(* Receiving.                                                              *)
(***************************************************************************)
\* The retiring key is usable only inside the grace window.
LivePrev(n) == IF graceOpen[n] THEN prevKey[n] ELSE NoKey

\* ReplayGuard.check: timestamp, lower and upper bound, strict monotonic floor.
ReplayOk(last, seq, age) ==
    /\ age = "fresh"
    /\ seq > 0
    /\ seq <= MaxSequence
    /\ seq > last

UsesPrev(n, f) == f.key # sessionKey[n] /\ LivePrev(n) # NoKey /\ f.key = LivePrev(n)

Opens(n, f) == f.key = sessionKey[n] \/ UsesPrev(n, f)

\* The frame decrypts and passes the replay check of the epoch it belongs to.
Acceptable(n, f, age) ==
    /\ Opens(n, f)
    /\ ReplayOk(IF UsesPrev(n, f) THEN prevLastSeq[n] ELSE lastSeq[n], f.seq, age)

\* _end_rekey_transition, run at the top of every receive once the deadline
\* has passed.
RetireExpired(n) == prevKey[n] # NoKey /\ ~graceOpen[n]

DropAt(s, i) == SubSeq(s, 1, i - 1) \o SubSeq(s, i + 1, Len(s))

\* Frame number i of the wire is read by n's receive loop, which is one task
\* and so is suspended while a handler of the same connection is.
Arrives(n, i) ==
    /\ responding[n] = Idle
    /\ i \in 1 .. Len(wire[n])
    /\ Ordered => i = 1

Consumed(n, i) == [wire EXCEPT ![n] = DropAt(@, i)]

\* The replay guard after accepting f, and the retired transition.
AfterAccept(n, f) ==
    /\ lastSeq' = IF UsesPrev(n, f) THEN lastSeq ELSE [lastSeq EXCEPT ![n] = f.seq]
    /\ prevLastSeq' = [prevLastSeq EXCEPT ![n] =
                          IF RetireExpired(n) THEN 0
                          ELSE IF UsesPrev(n, f) THEN f.seq ELSE @]
    /\ prevKey' = [prevKey EXCEPT ![n] = IF RetireExpired(n) THEN NoKey ELSE @]
    /\ accepted' = [accepted EXCEPT ![n] = @ \cup {f}]
    /\ UNCHANGED <<sessionKey, graceOpen>>

\* A frame that does not decrypt, or that the replay guard refuses.
ReceiveRejected(n, i, age) ==
    /\ Arrives(n, i)
    /\ ~Acceptable(n, wire[n][i], age)
    /\ wire' = Consumed(n, i)
    /\ prevKey' = [prevKey EXCEPT ![n] = IF RetireExpired(n) THEN NoKey ELSE @]
    /\ prevLastSeq' = [prevLastSeq EXCEPT ![n] = IF RetireExpired(n) THEN 0 ELSE @]
    /\ UNCHANGED <<sessionKey, graceOpen, lastSeq, nextSeq, pending, responding,
                   fresh, sent, accepted, bounds>>

ReceiveData(n, i, age) ==
    LET f == wire[n][i] IN
    /\ Arrives(n, i)
    /\ f.kind = "DATA"
    /\ Acceptable(n, f, age)
    /\ AfterAccept(n, f)
    /\ wire' = Consumed(n, i)
    /\ UNCHANGED <<nextSeq, pending, responding, fresh, sent, bounds>>

(***************************************************************************)
(* _handle_rekey_request.  A node with the smaller id and a rekey of its   *)
(* own in flight ignores the competing request; one with the larger id     *)
(* abandons its own.  The response goes out under the OLD key, and the     *)
(* handler is suspended in that send: other tasks of the node may run      *)
(* before FinishResponse switches the key.                                 *)
(***************************************************************************)
IgnoresNoRequest(n) == FALSE
IgnoresRequest(n) == pending[n] # NoRekey /\ n = Smaller

ReceiveCompetingRequest(n, i, age) ==
    LET f == wire[n][i] IN
    /\ Arrives(n, i)
    /\ f.kind = "REKEY_REQUEST"
    /\ Acceptable(n, f, age)
    /\ IgnoresRequest(n)
    /\ AfterAccept(n, f)
    /\ wire' = Consumed(n, i)
    /\ UNCHANGED <<nextSeq, pending, responding, fresh, sent, bounds>>

Abandon(n) == pending' = [pending EXCEPT ![n] = NoRekey]

ReceiveRequest(n, i, age) ==
    LET f == wire[n][i] IN
    /\ Arrives(n, i)
    /\ f.kind = "REKEY_REQUEST"
    /\ Acceptable(n, f, age)
    /\ ~IgnoresRequest(n)
    /\ AfterAccept(n, f)
    /\ Abandon(n)
    /\ fresh' = fresh + 1
    /\ responding' = [responding EXCEPT ![n] = [theirs |-> f.eph, mine |-> fresh]]
    /\ SendFrame(n, Sealed(n, "REKEY_RESPONSE", f.id, fresh), Consumed(n, i))
    /\ Spend(n)
    /\ UNCHANGED bounds

\* _begin_rekey_transition and the assignments after it: "key" becomes the
\* session key, the old one is kept for decrypting, "last" is the high-water
\* mark its snapshot holds.  A still open earlier transition is dropped.
SwitchKeyNoSnapshot(n, key, last) ==
    /\ prevKey' = [prevKey EXCEPT ![n] = sessionKey[n]]
    /\ prevLastSeq' = [prevLastSeq EXCEPT ![n] = 0]
    /\ graceOpen' = [graceOpen EXCEPT ![n] = TRUE]
    /\ sessionKey' = [sessionKey EXCEPT ![n] = key]
    /\ lastSeq' = [lastSeq EXCEPT ![n] = 0]
    /\ nextSeq' = [nextSeq EXCEPT ![n] = 1]
SwitchKey(n, key, last) ==
    /\ prevKey' = [prevKey EXCEPT ![n] = sessionKey[n]]
    /\ prevLastSeq' = [prevLastSeq EXCEPT ![n] = last]
    /\ graceOpen' = [graceOpen EXCEPT ![n] = TRUE]
    /\ sessionKey' = [sessionKey EXCEPT ![n] = key]
    /\ lastSeq' = [lastSeq EXCEPT ![n] = 0]
    /\ nextSeq' = [nextSeq EXCEPT ![n] = 1]

\* The send of the response returned.
FinishResponse(n) ==
    /\ responding[n] # Idle
    /\ SwitchKey(n, Ecdh(responding[n].mine, responding[n].theirs), lastSeq[n])
    /\ responding' = [responding EXCEPT ![n] = Idle]
    /\ UNCHANGED <<pending, fresh, wire, sent, accepted, bounds>>

(***************************************************************************)
(* _handle_rekey_response: only the answer to the pending request counts.  *)
(***************************************************************************)
ReceiveStrayResponse(n, i, age) ==
    LET f == wire[n][i] IN
    /\ Arrives(n, i)
    /\ f.kind = "REKEY_RESPONSE"
    /\ Acceptable(n, f, age)
    /\ f.id # pending[n] \/ pending[n] = NoRekey
    /\ AfterAccept(n, f)
    /\ wire' = Consumed(n, i)
    /\ UNCHANGED <<nextSeq, pending, responding, fresh, sent, bounds>>

\* The snapshot of the retiring epoch includes the response itself when that
\* response arrived under it.
ReceiveResponse(n, i, age) ==
    LET f == wire[n][i] IN
    /\ Arrives(n, i)
    /\ f.kind = "REKEY_RESPONSE"
    /\ Acceptable(n, f, age)
    /\ f.id = pending[n] /\ pending[n] # NoRekey
    /\ SwitchKey(n, Ecdh(pending[n], f.eph), IF UsesPrev(n, f) THEN lastSeq[n] ELSE f.seq)
    /\ pending' = [pending EXCEPT ![n] = NoRekey]
    /\ accepted' = [accepted EXCEPT ![n] = @ \cup {f}]
    /\ wire' = Consumed(n, i)
    /\ UNCHANGED <<responding, fresh, sent, bounds>>

-----------------------------------------------------------------------------
(***************************************************************************)
(* The environment: the grace deadline passes; a frame is dropped.         *)
(***************************************************************************)
\* Nothing encrypted under n's retiring key is on its way to n or can still be.
GraceServed(n) ==
    /\ sessionKey[Peer(n)] # prevKey[n]
    /\ \A i \in 1 .. Len(wire[n]) : wire[n][i].key # prevKey[n]

GraceElapses(n) ==
    /\ graceOpen[n]
    /\ GraceCovers => GraceServed(n)
    /\ graceOpen' = [graceOpen EXCEPT ![n] = FALSE]
    /\ UNCHANGED <<sessionKey, prevKey, lastSeq, prevLastSeq, nextSeq, pending,
                   responding, fresh, wire, sent, accepted, bounds>>

Lose(n, i) ==
    /\ Lossy
    /\ i \in 1 .. Len(wire[n])
    /\ wire' = Consumed(n, i)
    /\ UNCHANGED <<rxVars, nextSeq, pending, responding, fresh, sent, accepted, bounds>>

-----------------------------------------------------------------------------
Receive(n) ==
    \E i \in 1 .. Len(wire[n]), age \in AgeClasses :
        \/ ReceiveRejected(n, i, age)
        \/ ReceiveData(n, i, age)
        \/ ReceiveCompetingRequest(n, i, age)
        \/ ReceiveRequest(n, i, age)
        \/ ReceiveStrayResponse(n, i, age)
        \/ ReceiveResponse(n, i, age)

Next ==
    \E n \in Node :
        \/ SendData(n)
        \/ InitiateRekey(n)
        \/ Receive(n)
        \/ FinishResponse(n)
        \/ GraceElapses(n)
        \/ \E i \in 1 .. Len(wire[n]) : Lose(n, i)

Spec == Init /\ [][Next]_vars

-----------------------------------------------------------------------------
\* Every variable keeps its type; a sequence number is never 0, which the
\* receiver refuses after the handshake.
TypeOK ==
    /\ sessionKey \in [Node -> SUBSET Nat]
    /\ prevKey \in [Node -> SUBSET Nat]
    /\ graceOpen \in [Node -> BOOLEAN]
    /\ lastSeq \in [Node -> Nat]
    /\ prevLastSeq \in [Node -> Nat]
    /\ nextSeq \in [Node -> Nat \ {0}]
    /\ pending \in [Node -> Nat]
    /\ responding \in [Node -> [theirs : Nat, mine : Nat]]
    /\ fresh \in Nat
    /\ wire \in [Node -> Seq(Frame)]
    /\ sent \in [Node -> SUBSET Frame]
    /\ accepted \in [Node -> SUBSET Frame]
    /\ rekeys \in [Node -> Nat]
    /\ data \in [Node -> Nat]

\* ReplayGuard across epochs: a frame that was accepted once would be refused
\* if it arrived again, whatever rekeys happened since: neither the reset of
\* the guard (reset_peer) nor the snapshot of the retiring epoch reopens it.
NoReplay ==
    \A n \in Node : \A f \in accepted[n] : ~Acceptable(n, f, "fresh")

\* next_send_seq restarts at 1 only together with a key never used before: no
\* two frames of a sender share both key and sequence number.
SequenceUnique ==
    \A n \in Node : \A f, g \in sent[n] : f.key = g.key /\ f.seq = g.seq => f = g

Quiescent == \A n \in Node : wire[n] = <<>> /\ responding[n] = Idle

\* Once everything sent has been handled, both ends hold the same session key
\* (handshake.py, _handle_rekey_request: "both converge on exactly one new key").
KeysConverge == Quiescent => \A n, m \in Node : sessionKey[n] = sessionKey[m]

\* On an ordered lossless connection the next frame is always accepted: the
\* dual-key window loses no frame of a rekey in progress.
NothingRefused ==
    \A n \in Node :
        wire[n] # <<>> /\ responding[n] = Idle => Acceptable(n, Head(wire[n]), "fresh")

\* Every rekey that was started ends: completed, or given up for the peer's.
RekeyCompletes == \A n \in Node : pending[n] # NoRekey ~> pending[n] = NoRekey
=============================================================================
