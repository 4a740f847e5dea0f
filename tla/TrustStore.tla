----------------------------- MODULE TrustStore -----------------------------
(***************************************************************************)
(* The trust file (known_peers.json) and the processes that use it: the    *)
(* daemon and operator commands of the same identity, and possibly another *)
(* identity's daemon started with the same path.  Every operation builds a *)
(* TrustStore, which loads the file, changes its copy and writes the whole *)
(* copy back; the file lock of _save covers the write only.  os.replace    *)
(* makes the write itself atomic.                                          *)
(*                                                                         *)
(* A pin is the peer's identity key.  Pin states and capability sets of    *)
(* the same records are in CapabilityBinding.                              *)
(***************************************************************************)
EXTENDS Naturals

CONSTANTS
    Peer,           \* node ids
    Key,            \* identity keys
    NoKey,          \* "not pinned"
    Process,        \* threads of control with the daemon's identity: its event
                    \* loop, CLI commands, the MCP server's thread
    Daemon,         \* the event loop, which alone does handshakes and revocations
    Serial,         \* TRUE: one operation on the file at a time
    MaxForeign,     \* bound: writes by another identity
    MaxReadFaults,  \* bound: loads that cannot read or parse the file
    MaxWriteFaults  \* bound: writes that fail

VARIABLES
    file,           \* [owner, pins, revoked]; owner "us" means the MAC verifies
    op,             \* each process: the operation it is in, with its loaded copy
    admitted,       \* peers a handshake accepted, with the key they showed
    reads, writes, foreign

vars == <<file, op, admitted, reads, writes, foreign>>

NoPins == [p \in Peer |-> NoKey]
Copy == [pins : [Peer -> Key \cup {NoKey}], revoked : SUBSET Peer, locked : BOOLEAN]

Request ==
    [kind : {"connect"}, peer : Peer, key : Key]
        \cup [kind : {"broadcast", "revocation", "unpin", "touch"}, peer : Peer]

MayAsk(x, r) == x = Daemon \/ r.kind \in {"unpin", "touch"}

NoOp == [kind |-> "none"]

Init ==
    /\ file = [owner |-> "us", pins |-> NoPins, revoked |-> {}]
    /\ op = [x \in Process |-> NoOp]
    /\ admitted = {}
    /\ reads = 0 /\ writes = 0 /\ foreign = 0

-----------------------------------------------------------------------------
(***************************************************************************)
(* Loading and saving                                                      *)
(***************************************************************************)
LoadedPinsOnly ==
    IF file.owner = "us"
    THEN [pins |-> file.pins, revoked |-> {}, locked |-> FALSE]
    ELSE [pins |-> NoPins, revoked |-> {}, locked |-> TRUE]

\* _load: a file whose MAC does not verify gives an empty copy that may not
\* be saved.
Loaded ==
    IF file.owner = "us"
    THEN [pins |-> file.pins, revoked |-> file.revoked, locked |-> FALSE]
    ELSE [pins |-> NoPins, revoked |-> {}, locked |-> TRUE]

\* _load: a file that cannot be read or parsed gives an empty copy, with a
\* warning and nothing else.
Unreadable == [pins |-> NoPins, revoked |-> {}, locked |-> FALSE]

Quiet == \A x \in Process : op[x] = NoOp

\* The constructor of TrustStore at the start of an operation.
Open(x, request) ==
    /\ op[x] = NoOp
    /\ MayAsk(x, request)
    /\ Serial => Quiet
    /\ \/ /\ op' = [op EXCEPT ![x] = [kind |-> "open", copy |-> Loaded, request |-> request]]
          /\ UNCHANGED reads
       \/ /\ reads < MaxReadFaults
          /\ reads' = reads + 1
          /\ op' = [op EXCEPT ![x] = [kind |-> "open", copy |-> Unreadable, request |-> request]]
    /\ UNCHANGED <<file, admitted, writes, foreign>>

\* _serialize_envelope and _atomic_write.
Written(pins, revoked) == [owner |-> "us", pins |-> pins, revoked |-> revoked]

\* _save of the copy with new contents; "saved" is its result.
Save(copy, pins, revoked, saved) ==
    \/ /\ copy.locked /\ ~saved
       /\ UNCHANGED <<file, writes>>
    \/ /\ ~copy.locked /\ ~saved
       /\ writes < MaxWriteFaults
       /\ writes' = writes + 1
       /\ UNCHANGED file
    \/ /\ ~copy.locked /\ saved
       /\ file' = Written(pins, revoked)
       /\ UNCHANGED writes

-----------------------------------------------------------------------------
(***************************************************************************)
(* Operations: each runs from its loaded copy without an await             *)
(***************************************************************************)
Running(x, kind) == op[x].kind = "open" /\ op[x].request.kind = kind
Done(x) == op' = [op EXCEPT ![x] = NoOp]

\* pin_peer raises TrustStoreError when _save returned False, and
\* _check_tofu then refuses the connection.
PinAccepted(saved) == saved

\* is_revoked, or verify_peer answers "mismatch".
Refused(copy, p, k) == p \in copy.revoked \/ copy.pins[p] \notin {NoKey, k}

\* _check_tofu of a handshake: a revoked peer and a changed key are refused;
\* a new peer is pinned; a known key is accepted and last_seen saved.
CheckTofu(x) ==
    /\ Running(x, "connect")
    /\ LET copy == op[x].copy
           p == op[x].request.peer
           k == op[x].request.key
       IN  \/ /\ Refused(copy, p, k)
              /\ UNCHANGED <<file, admitted, writes>>
           \/ /\ ~Refused(copy, p, k) /\ copy.pins[p] # k
              /\ \E saved \in BOOLEAN :
                   /\ Save(copy, [copy.pins EXCEPT ![p] = k], copy.revoked, saved)
                   /\ admitted' = IF PinAccepted(saved) THEN admitted \cup {<<p, k>>}
                                                        ELSE admitted
           \/ /\ ~Refused(copy, p, k) /\ copy.pins[p] = k
              /\ \E saved \in BOOLEAN : Save(copy, copy.pins, copy.revoked, saved)
              /\ admitted' = admitted \cup {<<p, k>>}
    /\ Done(x)
    /\ UNCHANGED <<reads, foreign>>

\* mark_revoked drops the pin as well; the result of _save is ignored.
MarkRevoked(x) ==
    LET copy == op[x].copy
        p == op[x].request.peer
    IN  \E saved \in BOOLEAN :
            Save(copy, [copy.pins EXCEPT ![p] = NoKey], copy.revoked \cup {p}, saved)

\* The operator revokes: written here and sent to the peers online; the
\* connection of the target is not touched.
BroadcastRevocation(x) ==
    /\ Running(x, "broadcast")
    /\ MarkRevoked(x)
    /\ Done(x)
    /\ UNCHANGED <<admitted, reads, foreign>>

\* A peer's signed REVOCATION: written, and the target disconnected.
HandleRevocation(x) ==
    /\ Running(x, "revocation")
    /\ MarkRevoked(x)
    /\ admitted' = {c \in admitted : c[1] # op[x].request.peer}
    /\ Done(x)
    /\ UNCHANGED <<reads, foreign>>

\* revoke_peer, from the CLI or MCP: forget the pin.
RevokePeer(x) ==
    /\ Running(x, "unpin")
    /\ LET copy == op[x].copy
           p == op[x].request.peer
       IN  \/ /\ copy.pins[p] = NoKey
              /\ UNCHANGED <<file, writes>>
           \/ /\ copy.pins[p] # NoKey
              /\ \E saved \in BOOLEAN :
                   Save(copy, [copy.pins EXCEPT ![p] = NoKey], copy.revoked, saved)
    /\ Done(x)
    /\ UNCHANGED <<admitted, reads, foreign>>

\* set_trust_state and the capability operations rewrite the record of a
\* pinned peer and with it the whole copy.
SetTrustState(x) ==
    /\ Running(x, "touch")
    /\ LET copy == op[x].copy
       IN  \/ /\ copy.pins[op[x].request.peer] = NoKey
              /\ UNCHANGED <<file, writes>>
           \/ /\ copy.pins[op[x].request.peer] # NoKey
              /\ \E saved \in BOOLEAN : Save(copy, copy.pins, copy.revoked, saved)
    /\ Done(x)
    /\ UNCHANGED <<admitted, reads, foreign>>

\* Another identity's daemon, started with the same path before it had a
\* file of its own, writes its store there.
ForeignWrite ==
    /\ foreign < MaxForeign
    /\ Serial => Quiet
    /\ foreign' = foreign + 1
    /\ file' = [owner |-> "them", pins |-> NoPins, revoked |-> {}]
    /\ UNCHANGED <<op, admitted, reads, writes>>

Next ==
    \/ \E x \in Process :
         \/ \E r \in Request : Open(x, r)
         \/ CheckTofu(x) \/ BroadcastRevocation(x) \/ HandleRevocation(x)
         \/ RevokePeer(x) \/ SetTrustState(x)
    \/ ForeignWrite

Spec == Init /\ [][Next]_vars

-----------------------------------------------------------------------------
(***************************************************************************)
(* Properties                                                              *)
(***************************************************************************)
\* Every variable keeps its type.
TypeOK ==
    /\ file \in [owner : {"us", "them"}, pins : [Peer -> Key \cup {NoKey}],
                 revoked : SUBSET Peer]
    /\ op \in [Process -> {NoOp} \cup [kind : {"open"}, copy : Copy, request : Request]]
    /\ admitted \subseteq Peer \X Key
    /\ reads \in 0 .. MaxReadFaults
    /\ writes \in 0 .. MaxWriteFaults
    /\ foreign \in 0 .. MaxForeign

\* A revocation that reached our file stays in it (mark_revoked; nothing
\* calls clear_revocation), as long as every load could read the file.
RevocationSticks ==
    [][reads = 0 /\ file.owner = "us" /\ file'.owner = "us"
           => file.revoked \subseteq file'.revoked]_vars

\* A pinned key is never replaced by another: the peer must be unpinned
\* first (verify_peer answers "mismatch").
PinSticks ==
    [][\A p \in Peer : reads = 0 /\ file.pins[p] # NoKey
           => file'.pins[p] \in {NoKey, file.pins[p]}]_vars

\* What is on disk about a peer stays: revocations and pinned keys.
TrustSticks == RevocationSticks /\ PinSticks

\* A file of another identity is never overwritten by us (the read-only
\* latch of _load and _save).
ForeignKept == [][reads = 0 /\ file.owner = "them" => file'.owner = "them"]_vars

\* A peer that a handshake accepted had its key on disk at that moment,
\* whatever loads and writes failed: a pin that was not written is no pin.
AdmittedPinned ==
    [][\A c \in admitted' \ admitted : file'.owner = "us" /\ file'.pins[c[1]] = c[2]]_vars
=============================================================================
