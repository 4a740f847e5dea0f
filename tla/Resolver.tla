------------------------------ MODULE Resolver ------------------------------
(* Sending to a name or to a capability (routing.py: send_to_name,             *)
(* send_to_capability and what they resolve with; the Agent SDK's wrappers,    *)
(* agent.py).  A call reads the capability registry and the peer table once,   *)
(* then suspends for every candidate it tries while peers come, go and are     *)
(* evicted.  A candidate is tried by the agent name of its peer state, by its  *)
(* node id if it has none; tier 3 (an LXMF destination hash) is not a name.    *)
EXTENDS Naturals, FiniteSets, Sequences

CONSTANTS
    Peer,
    Capability,  \* those the pattern of the call matches
    NameOf,      \* agent names; they need not be unique
    MaxChanges,  \* bound: changes of the peer table during a behaviour
    NoPeer

VARIABLES
    peers,       \* the peer table: subset of Peer with a state
    online,      \* those online with a session key
    discovered,  \* _rns_discovered
    caps,        \* the registry: pairs <<peer, capability>> that match
    call,        \* the call under way, see NoCall
    sent,        \* the peers send_message was called for, in order
    evicted,     \* history: the peers that were evicted while the call ran
    changes

resolveVars == <<peers, online, discovered, caps, call, sent, evicted, changes>>
tableVars == <<peers, online, discovered, caps, changes>>

Strategy == {"first", "random", "all", "name"}
NoCall == [pc |-> "idle", strategy |-> "first", todo |-> {}, best |-> {}, to |-> NoPeer,
           tier |-> 0, matched |-> {}, oks |-> 0, gaveUp |-> FALSE]

TypeOK ==
    /\ online \subseteq peers /\ peers \subseteq Peer /\ discovered \subseteq Peer
    /\ caps \subseteq Peer \X Capability
    /\ call \in [pc : {"idle", "try", "link", "send", "ok", "error"}, strategy : Strategy,
                 todo : SUBSET (Peer \X Capability), best : SUBSET (Peer \X Capability),
                 to : Peer \cup {NoPeer}, tier : 0..2, matched : SUBSET Peer, oks : Nat,
                 gaveUp : BOOLEAN]
    /\ sent \in Seq(Peer) /\ evicted \subseteq Peer /\ changes \in 0..MaxChanges

Init ==
    /\ peers = {} /\ online = {} /\ discovered = {} /\ caps = {}
    /\ call = NoCall /\ sent = << >> /\ evicted = {} /\ changes = 0

Running == call.pc \notin {"idle", "ok", "error"}

----------------------------------------------------------------------------
(* send_to_capability: the matching peers are read from the registry once,     *)
(* online ones first.                                                          *)
Best(strategy) == IF strategy = "first" THEN {c \in caps : c[1] \in online} ELSE {}

Begin(strategy) ==
    /\ call.pc = "idle"
    /\ call' = [NoCall EXCEPT
         !.pc = IF caps = {} THEN "error" ELSE "try",
         !.strategy = strategy, !.todo = caps, !.best = Best(strategy),
         !.matched = {c[1] : c \in caps}]
    /\ UNCHANGED <<tableVars, sent, evicted>>

(* send_to: one name, that of p.                                               *)
BeginName(p) ==
    /\ call.pc = "idle"
    /\ call' = [NoCall EXCEPT !.pc = "try", !.strategy = "name",
                  !.todo = {<<p, CHOOSE c \in Capability : TRUE>>},
                  !.matched = {q \in Peer : NameOf[q] = NameOf[p]}]
    /\ UNCHANGED <<tableVars, sent, evicted>>

Ahead == IF call.best # {} THEN call.best ELSE call.todo

(* What is left when the candidate failed or, in a fan-out, when it is done.   *)
After(c) ==
    IF c.todo # {} THEN [c EXCEPT !.pc = "try", !.to = NoPeer, !.tier = 0]
    ELSE [c EXCEPT !.pc = IF c.oks > 0 THEN "ok" ELSE "error", !.to = NoPeer, !.tier = 0]

Named(p, set) ==
    {q \in set : (call.strategy = "name" \/ p \in peers) /\ NameOf[q] = NameOf[p]}

(* send_to_name: tier 1, tier 2, or no transport.                              *)
Try(c) ==
    LET p == c[1]
        left == [call EXCEPT !.todo = @ \ {c}, !.best = @ \ {c}]
    IN /\ call.pc = "try" /\ c \in Ahead
       /\ \/ \E q \in Named(p, online) :
               call' = [left EXCEPT !.pc = "send", !.to = q, !.tier = 1]
          \/ /\ Named(p, online) = {}
             /\ \E q \in Named(p, discovered) :
                  call' = [left EXCEPT !.pc = "link", !.to = q, !.tier = 2]
          \/ /\ Named(p, online) = {} /\ Named(p, discovered) = {}
             /\ call' = After(left)
       /\ UNCHANGED <<tableVars, sent, evicted>>

(* The poll of tier 2: the Link came up, or thirty seconds have passed.        *)
Linked ==
    /\ call.pc = "link" /\ call.to \in online
    /\ call' = [call EXCEPT !.pc = "send"]
    /\ UNCHANGED <<tableVars, sent, evicted>>

LinkTimeout ==
    /\ call.pc = "link"
    /\ call' = After(call)
    /\ UNCHANGED <<tableVars, sent, evicted>>

(* send_message returns; tier 1 then looks the peer up once more, and a peer   *)
(* that has been evicted meanwhile counts as a failed candidate.               *)
SentGoesOn ==
    /\ call.pc = "send"
    /\ sent' = Append(sent, call.to)
    /\ call' = After([call EXCEPT !.oks = @ + 1])
    /\ UNCHANGED <<tableVars, evicted>>

Sent ==
    /\ call.pc = "send"
    /\ sent' = Append(sent, call.to)
    /\ LET fails == call.tier = 1 /\ call.to \notin peers
           counted == [call EXCEPT !.oks = IF fails THEN @ ELSE @ + 1]
       IN call' = IF fails \/ call.strategy = "all" THEN After(counted)
                  ELSE [counted EXCEPT !.pc = "ok", !.to = NoPeer, !.tier = 0]
    /\ UNCHANGED <<tableVars, evicted>>

(* The blocking variants wait thirty seconds in the caller's thread and raise; *)
(* the coroutine is not cancelled and goes on.                                 *)
CallerGivesUp ==
    /\ Running /\ ~call.gaveUp
    /\ call' = [call EXCEPT !.gaveUp = TRUE]
    /\ UNCHANGED <<tableVars, sent, evicted>>

----------------------------------------------------------------------------
(* The peer table changes at any time.                                         *)
Changes == changes < MaxChanges /\ changes' = changes + 1

Connect(p) ==
    /\ Changes /\ p \notin online
    /\ peers' = peers \cup {p} /\ online' = online \cup {p}
    /\ UNCHANGED <<discovered, caps, call, sent, evicted>>

Disconnect(p) ==
    /\ Changes /\ p \in online
    /\ online' = online \ {p}
    /\ UNCHANGED <<peers, discovered, caps, call, sent, evicted>>

(* A handshake whose identity key does not match the pinned one drops the      *)
(* state kept under its node id (trust_ops.py: the TOFU check).                *)
Evict(p) ==
    /\ Changes /\ p \in peers
    /\ peers' = peers \ {p} /\ online' = online \ {p}
    /\ evicted' = IF Running THEN evicted \cup {p} ELSE evicted
    /\ UNCHANGED <<discovered, caps, call, sent>>

Discover(p) ==
    /\ Changes /\ p \notin discovered
    /\ discovered' = discovered \cup {p}
    /\ UNCHANGED <<peers, online, caps, call, sent, evicted>>

Announce(p) ==
    /\ Changes
    /\ \E cs \in SUBSET Capability :
         caps' = {c \in caps : c[1] # p} \cup ({p} \X cs)
    /\ UNCHANGED <<peers, online, discovered, call, sent, evicted>>

CallStep ==
    \/ \E c \in Peer \X Capability : Try(c)
    \/ Linked \/ LinkTimeout \/ Sent

Next ==
    \/ \E s \in Strategy \ {"name"} : Begin(s)
    \/ \E p \in Peer : BeginName(p)
    \/ CallStep \/ CallerGivesUp
    \/ \E p \in Peer : Connect(p) \/ Disconnect(p) \/ Evict(p) \/ Discover(p) \/ Announce(p)

Spec == Init /\ [][Next]_resolveVars

----------------------------------------------------------------------------
(* A call sends only to peers of that name, or that advertised the capability.  *)
(* When it succeeds, the last send was the one that counts; all others, and all *)
(* when it raises an error of its own, went to peers that were evicted          *)
(* meanwhile (a send that went out counts as failed if the peer's state is gone *)
(* when it returns).  So a caller may try again after an error without sending  *)
(* twice to a peer that is still known; not so after a timeout of the blocking  *)
(* variants.                                                                    *)
ResolvedOnce ==
    /\ \A i \in 1..Len(sent) : sent[i] \in call.matched
    /\ call.strategy # "all" /\ call.pc \in {"ok", "error"} =>
           /\ \A i \in 1..Len(sent) : sent[i] \in evicted \/ (call.pc = "ok" /\ i = Len(sent))
           /\ call.pc = "ok" => sent # << >>
============================================================================
