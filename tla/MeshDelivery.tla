---------------------------- MODULE MeshDelivery ----------------------------
(***************************************************************************)
(* What the mesh promises of a routed message: it is published on the bus  *)
(* of its destination, of no other node, and there at most once; it may be *)
(* lost.                                                                   *)
(***************************************************************************)
CONSTANTS Msg, Node, Dest

VARIABLES
    sent,           \* messages handed to the mesh
    published       \* published[n]: how often each message was, on n's bus

Init ==
    /\ sent = {}
    /\ published = [n \in Node |-> [m \in Msg |-> 0]]

Send(m) ==
    /\ m \notin sent
    /\ sent' = sent \cup {m}
    /\ UNCHANGED published

Deliver(m) ==
    /\ m \in sent
    /\ published[Dest[m]][m] = 0
    /\ published' = [published EXCEPT ![Dest[m]][m] = 1]
    /\ UNCHANGED sent

Next == \E m \in Msg : Send(m) \/ Deliver(m)

Spec == Init /\ [][Next]_<<sent, published>>
=============================================================================
