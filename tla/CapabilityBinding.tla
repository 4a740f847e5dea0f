------------------------- MODULE CapabilityBinding --------------------------
(***************************************************************************)
(* The record TrustStore keeps of one pinned peer: its trust_state, the    *)
(* capability set accepted as baseline and the set stashed while a change  *)
(* awaits the operator.  A CAPABILITY_ANNOUNCE is compared with the record *)
(* (observe_capabilities, _handle_cap_observation); operators answer over  *)
(* the GUI, MCP or the CLI.                                                *)
(*                                                                         *)
(* Every handler opens the file afresh, runs without an await and writes   *)
(* the file once or twice.  Each write may fail (MaxFaults of them in a    *)
(* behaviour); a handler that dies between two writes leaves what a        *)
(* failing second write leaves.                                            *)
(***************************************************************************)
EXTENDS Naturals

CONSTANTS
    CapSet,         \* the capability sets the peer may announce
    NoCaps,         \* "no hash stored"
    MaxFaults       \* bound: writes of the trust file that fail

TrustState == {"pending", "trusted", "blocked", "pending-cap-change"}

VARIABLES
    trust,          \* trust_state on disk
    baseline,       \* capability_hash / capability_set
    stash,          \* capability_hash_pending / capability_set_pending
    faults,         \* writes that failed so far
    status,         \* verdict on the last announcement, or the operator's act
    announced,      \* history: the set announced last
    reviewed        \* history: an operator acted since "announced" changed

record == <<trust, baseline, stash>>
vars == <<record, faults, status, announced, reviewed>>

\* _check_tofu pins a new peer "pending" when require_message_promotion is
\* on and "trusted" when it is off.
Init ==
    /\ trust \in {"pending", "trusted"}
    /\ baseline = NoCaps /\ stash = NoCaps
    /\ faults = 0
    /\ status = "none"
    /\ announced = NoCaps
    /\ reviewed = FALSE

\* One or two writes, TRUE when written (or not made): the ones that fail are
\* paid from the bound.
Writes(first, second) ==
    LET failed == (IF first THEN 0 ELSE 1) + (IF second THEN 0 ELSE 1)
    IN  faults + failed <= MaxFaults /\ faults' = faults + failed

-----------------------------------------------------------------------------
(***************************************************************************)
(* Announcements                                                           *)
(***************************************************************************)
Heard(c) ==
    /\ announced' = c
    /\ reviewed' = (reviewed /\ announced = c)

\* First observation: the set becomes the baseline.
ObserveFirst(c) ==
    /\ baseline = NoCaps
    /\ \E ok \in BOOLEAN :
         /\ Writes(ok, TRUE)
         /\ baseline' = IF ok THEN c ELSE baseline
    /\ status' = "first-observation"
    /\ Heard(c)
    /\ UNCHANGED <<trust, stash>>

RevertForgetsNothing(ok) == stash

\* The stash after the peer went back to its baseline.
Cleared(ok) == IF ok THEN NoCaps ELSE stash

\* The accepted baseline again: a stash is cleared, the trust state is left
\* to the operator.
ObserveBaseline(c) ==
    /\ baseline = c
    /\ \/ /\ stash = NoCaps
          /\ status' = "match"
          /\ UNCHANGED <<stash, faults>>
       \/ /\ stash # NoCaps
          /\ \E ok \in BOOLEAN : Writes(ok, TRUE) /\ stash' = Cleared(ok)
          /\ status' = "reverted"
    /\ Heard(c)
    /\ UNCHANGED <<trust, baseline>>

\* The set that is already stashed: silent.
ObservePending(c) ==
    /\ baseline \notin {NoCaps, c}
    /\ stash = c
    /\ status' = "pending-match"
    /\ Heard(c)
    /\ UNCHANGED <<record, faults>>

\* PEER_CAP_SET_CHANGED when both writes reached the disk, else
\* PEER_CAP_BINDING_PARTIAL.
ChangeEvent(stashed, demoted) == IF stashed /\ demoted THEN "changed" ELSE "partial"

\* A new set: stash it, then demote the peer, each with its own write and
\* each rolled back when its write fails.  An already demoted peer needs no
\* second write.
ObserveChange(c) ==
    /\ baseline \notin {NoCaps, c}
    /\ stash # c
    /\ \E stashed, demoted \in BOOLEAN :
         /\ trust = "pending-cap-change" => demoted
         /\ Writes(stashed, demoted)
         /\ stash' = IF stashed THEN c ELSE stash
         /\ trust' = IF demoted THEN "pending-cap-change" ELSE trust
         /\ status' = ChangeEvent(stashed, demoted)
    /\ Heard(c)
    /\ UNCHANGED baseline

Announce(c) ==
    ObserveFirst(c) \/ ObserveBaseline(c) \/ ObservePending(c) \/ ObserveChange(c)

-----------------------------------------------------------------------------
(***************************************************************************)
(* Operators                                                               *)
(***************************************************************************)
\* set_trust_state: promote, block, and "ironmesh trust set-state".
SetTrustState(s) ==
    /\ \E ok \in BOOLEAN :
         /\ Writes(ok, TRUE)
         /\ trust' = IF ok THEN s ELSE trust
         /\ reviewed' = (ok \/ reviewed)
    /\ status' = "operator"
    /\ UNCHANGED <<baseline, stash, announced>>

\* The stash becomes the baseline (one write), then the peer "trusted" (a
\* second write whose result nobody looks at).
Accept ==
    /\ stash # NoCaps
    /\ \/ /\ Writes(FALSE, TRUE)
          /\ status' = "operator"
          /\ UNCHANGED <<record, reviewed>>
       \/ \E ok \in BOOLEAN :
            /\ Writes(TRUE, ok)
            /\ baseline' = stash
            /\ stash' = NoCaps
            /\ trust' = IF ok THEN "trusted" ELSE trust
            /\ reviewed' = TRUE
            /\ status' = "accepted"
    /\ UNCHANGED announced

\* GUI and MCP: only for a demoted peer.
AcceptPendingCapChange == trust = "pending-cap-change" /\ Accept

\* "ironmesh trust cap-promote" asks for a stash only.
CliCapPromote == Accept

\* cap_reject: drop the stash, then "blocked" or "trusted".
CapReject(s) ==
    /\ stash # NoCaps
    /\ s \in {"blocked", "trusted"}
    /\ \E cleared, set \in BOOLEAN :
         /\ ~cleared => set     \* no second write after a failed first
         /\ Writes(cleared, set)
         /\ stash' = IF cleared THEN NoCaps ELSE stash
         /\ trust' = IF cleared /\ set THEN s ELSE trust
         /\ reviewed' = ((cleared /\ set) \/ reviewed)
    /\ status' = "operator"
    /\ UNCHANGED <<baseline, announced>>

OperatorActs ==
    \/ \E s \in TrustState : SetTrustState(s)
    \/ AcceptPendingCapChange
    \/ CliCapPromote
    \/ \E s \in TrustState : CapReject(s)

Next == (\E c \in CapSet : Announce(c)) \/ OperatorActs

Spec == Init /\ [][Next]_vars

-----------------------------------------------------------------------------
(***************************************************************************)
(* Properties                                                              *)
(***************************************************************************)
\* Every variable keeps its type.
TypeOK ==
    /\ trust \in TrustState
    /\ baseline \in CapSet \cup {NoCaps}
    /\ stash \in CapSet \cup {NoCaps}
    /\ faults \in 0 .. MaxFaults
    /\ status \in {"none", "first-observation", "match", "reverted", "pending-match",
                   "changed", "partial", "operator", "accepted"}
    /\ announced \in CapSet \cup {NoCaps}
    /\ reviewed \in BOOLEAN

\* A peer whose announced set is not the accepted one stays trusted only by
\* an operator's act since it began to announce that set (the demotion that
\* _handle_cap_observation exists for), as long as no write of the file failed.
ChangeHeld ==
    (faults = 0 /\ trust = "trusted" /\ baseline \notin {NoCaps, announced}) => reviewed

\* When PEER_CAP_SET_CHANGED is written to the audit log the peer is demoted
\* and the set it announced is stashed, whatever writes failed.
ChangeEventTruthful ==
    status = "changed" => trust = "pending-cap-change" /\ stash = announced
=============================================================================
