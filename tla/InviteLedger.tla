---------------------------- MODULE InviteLedger ----------------------------
(* Bootstrap invitations: create_invite and InviteLedger (invite.py), the      *)
(* invite part of _check_tofu (trust_ops.py), and "ironmesh setup              *)
(* --from-invite" (cli.py).  The inviter alone decides whether a token is      *)
(* spent; it writes the nonce to the ledger before it pins the joiner, and     *)
(* forgets nonces some time after their token expired.  A token is its nonce;  *)
(* every token here is signed by this node (others are refused outright).      *)
EXTENDS Naturals

CONSTANTS
    Token, Peer,
    Lifetime,   \* invite_max_age_for_profile, or --expires-in
    Skew,       \* INVITE_CLOCK_SKEW
    Retention,  \* LEDGER_RETENTION_AFTER_EXPIRY
    Gate,       \* require_message_promotion of the inviter
    MaxClock,   \* bound on time
    None

VARIABLES
    now,
    expires,    \* expires[t]: when token t expires, or None: not issued yet
    loaded,     \* the ledger has been read since the daemon started
    spent,      \* InviteLedger._spent
    file,       \* the nonces in the ledger file
    handed,     \* handed[p]: the token p's operator ran "setup --from-invite" with
    carried,    \* carried[p]: p's daemon's _pending_invite
    joining,    \* joining[p]: the token p's handshake has reserved, or None
    pin         \* pin[p]: None or [state, via]

inviteVars == <<now, expires, loaded, spent, file, handed, carried, joining, pin>>

Init ==
    /\ now = 0
    /\ expires = [t \in Token |-> None]
    /\ loaded = FALSE /\ spent = {} /\ file = {}
    /\ handed = [p \in Peer |-> None]
    /\ carried = [p \in Peer |-> None]
    /\ joining = [p \in Peer |-> None]
    /\ pin = [p \in Peer |-> None]

(* create_invite.                                                              *)
Create(t) ==
    /\ expires[t] = None
    /\ expires' = [expires EXCEPT ![t] = now + Lifetime]
    /\ UNCHANGED <<now, loaded, spent, file, handed, carried, joining, pin>>

Issued(t) == expires[t] # None
Expired(t) == now > expires[t] + Skew       \* is_expired

(* cmd_setup: the token is parsed and validated, and its hints become           *)
(* defaults.  Nothing else of it is kept: the daemon started afterwards has    *)
(* no _pending_invite.                                                         *)
SetupFromInvite(p, t) ==
    /\ handed[p] = None /\ pin[p] = None
    /\ Issued(t) /\ ~Expired(t)
    /\ handed' = [handed EXCEPT ![p] = t]
    /\ UNCHANGED <<now, expires, loaded, spent, file, carried, joining, pin>>

(* A program that embeds the daemon gives it the parsed token.                  *)
EmbedInvite(p, t) ==
    /\ carried[p] # t /\ Issued(t)
    /\ carried' = [carried EXCEPT ![p] = t]
    /\ UNCHANGED <<now, expires, loaded, spent, file, handed, joining, pin>>

----------------------------------------------------------------------------
KeptUntilExpiry(nonces) == {t \in nonces : expires[t] >= now}
Kept(nonces) == {t \in nonces : expires[t] + Retention >= now}      \* _prune

Ledger == IF loaded THEN spent ELSE Kept(file)  \* _get_invite_ledger, _load

(* _validate_incoming_invite.                                                   *)
Acceptable(t) == ~Expired(t) /\ t \notin Ledger

(* The first half of _check_tofu for a new peer that presents a token: it is    *)
(* refused, or its nonce goes to the ledger.  When writing the file fails the  *)
(* error ends the handshake with the nonce spent in memory only.               *)
Reserve(p) ==
    /\ carried[p] # None /\ pin[p] = None /\ joining[p] = None
    /\ Acceptable(carried[p])
    /\ loaded' = TRUE
    /\ spent' = Kept(Ledger \cup {carried[p]})
    /\ \/ /\ file' = spent'
          /\ joining' = [joining EXCEPT ![p] = carried[p]]
       \/ UNCHANGED <<file, joining>>
    /\ UNCHANGED <<now, expires, handed, carried, pin>>

Refuse(p) ==
    /\ carried[p] # None /\ ~loaded
    /\ ~Acceptable(carried[p])
    /\ loaded' = TRUE
    /\ spent' = Kept(file)
    /\ UNCHANGED <<now, expires, file, handed, carried, joining, pin>>

(* pin_peer: an invited joiner is always pending; a pin that does not reach     *)
(* the disk ends the handshake, and the token is burned.                       *)
PinInvited(p) ==
    /\ joining[p] # None
    /\ joining' = [joining EXCEPT ![p] = None]
    /\ \/ pin' = [pin EXCEPT ![p] = [state |-> "pending", via |-> joining[p]]]
       \/ UNCHANGED pin
    /\ UNCHANGED <<now, expires, loaded, spent, file, handed, carried>>

(* _check_tofu for a new peer without a token.                                  *)
PinPlain(p) ==
    /\ carried[p] = None /\ pin[p] = None
    /\ pin' = [pin EXCEPT ![p] =
                  [state |-> IF Gate THEN "pending" ELSE "trusted", via |-> None]]
    /\ UNCHANGED <<now, expires, loaded, spent, file, handed, carried, joining>>

(* The inviter dies and starts again, at any point of a handshake.              *)
Restart ==
    /\ loaded' = FALSE /\ spent' = {}
    /\ joining' = [p \in Peer |-> None]
    /\ UNCHANGED <<now, expires, file, handed, carried, pin>>

Tick ==
    /\ now < MaxClock
    /\ now' = now + 1
    /\ UNCHANGED <<expires, loaded, spent, file, handed, carried, joining, pin>>

Next ==
    \/ \E t \in Token : Create(t)
    \/ \E p \in Peer, t \in Token : SetupFromInvite(p, t) \/ EmbedInvite(p, t)
    \/ \E p \in Peer : Reserve(p) \/ Refuse(p) \/ PinInvited(p) \/ PinPlain(p)
    \/ Restart
    \/ Tick

Spec == Init /\ [][Next]_inviteVars

----------------------------------------------------------------------------
(* Token t is p's: reserved in its handshake, or the one it was pinned with.    *)
Holds(p, t) == joining[p] = t \/ (pin[p] # None /\ pin[p].via = t)

(* A token admits at most one peer, whatever crashes, failed writes and         *)
(* pruning happen between its uses.                                            *)
SingleUse ==
    \A t \in Token, p, q \in Peer : Holds(p, t) /\ Holds(q, t) => p = q

(* "lands in the inviter's pending-trust gate for approval" (cli.py:4228): a   *)
(* node set up from an invite is pinned as pending.                            *)
InvitedLandsPending ==
    \A p \in Peer : handed[p] # None /\ pin[p] # None => pin[p].state = "pending"
============================================================================
