------------------------- MODULE SessionRekeyProofs -------------------------
(***************************************************************************)
(* A connection with one peer, for every value of the constants: theorems  *)
(* about SessionRekey, whatever the network loses or reorders and however  *)
(* many rekeys overlap, and about MCSession's instances of Handshake and   *)
(* OfflineQueue.                                                           *)
(***************************************************************************)
EXTENDS MCSession, SequenceTheorems, TLAPS

\* The frames whose keys n has held: those it accepted and those it sealed.
Handled(n) == accepted[n] \cup sent[Peer(n)]

\* e is part of no key that n holds or has held.
Unused(n, e) ==
    /\ e \notin sessionKey[n]
    /\ e \notin prevKey[n]
    /\ \A f \in Handled(n) : e \notin f.key

\* Everything on the wire was sent, so its ephemerals were drawn from fresh.
WireInv ==
    /\ \A n \in Node : wire[n] \in Seq(sent[n])
    /\ \A n \in Node : \A f \in sent[n] : f.eph < fresh

\* The ephemerals of all keys were drawn from fresh.
FreshInv ==
    /\ fresh > 0
    /\ \A n \in Node :
        /\ \A e \in sessionKey[n] \cup prevKey[n] : e < fresh
        /\ \A f \in Handled(n) : \A e \in f.key : e < fresh
        /\ pending[n] < fresh
        /\ responding[n].mine < fresh
        /\ responding[n].theirs < fresh

\* The ephemeral a node will derive its next key from is in no earlier key.
NextKeyInv ==
    \A n \in Node :
        /\ sessionKey[n] # NoKey
        /\ sessionKey[n] # prevKey[n]
        /\ pending[n] # NoRekey => Unused(n, pending[n])
        /\ responding[n] # Idle => Unused(n, responding[n].mine)
        /\ responding[n] # Idle /\ pending[n] # NoRekey =>
              pending[n] # responding[n].mine /\ pending[n] # responding[n].theirs

\* The high-water marks cover everything accepted in their epoch.
ReplayInv ==
    \A n \in Node : \A f \in accepted[n] :
        /\ f.key = sessionKey[n] => f.seq <= lastSeq[n]
        /\ f.key = prevKey[n] /\ prevKey[n] # NoKey => f.seq <= prevLastSeq[n]

\* The send counter is ahead of everything sealed under the current key.
SendInv ==
    \A n \in Node : \A f \in sent[Peer(n)] : f.key = sessionKey[n] => f.seq < nextSeq[n]

IInv ==
    /\ TypeOK
    /\ WireInv
    /\ FreshInv
    /\ NextKeyInv
    /\ ReplayInv
    /\ SendInv
    /\ SequenceUnique

-----------------------------------------------------------------------------
\* The two nodes are each other's peer.
LEMMA PeerFacts ==
    \A n \in Node : Peer(n) \in Node /\ Peer(n) # n /\ Peer(Peer(n)) = n
  <1>1. PICK m \in Node : Node = {Smaller, m} /\ m # Smaller
    BY NodeAssumption
  <1>2. \A n \in Node : \E x \in Node : x # n
    BY <1>1, NodeAssumption
  <1>3. \A n \in Node : Peer(n) \in Node /\ Peer(n) # n
    BY <1>2 DEF Peer
  <1> QED
    BY <1>1, <1>3, NodeAssumption

\* Taking a frame off the wire leaves a sequence of the same frames.
LEMMA DropAtType ==
    ASSUME NEW S, NEW s \in Seq(S), NEW i \in 1 .. Len(s)
    PROVE  DropAt(s, i) \in Seq(S)
  <1>1. SubSeq(s, 1, i - 1) \in Seq(S)
    <2>1. \A j \in 1 .. i - 1 : s[j] \in S
      BY ElementOfSeq
    <2> QED
      BY <2>1, SubSeqProperties, LenProperties
  <1>2. SubSeq(s, i + 1, Len(s)) \in Seq(S)
    BY SubSeqProperties, LenProperties
  <1> QED
    BY <1>1, <1>2, ConcatProperties DEF DropAt

\* A sequence over a set is one over every larger set.
LEMMA SeqMonotone ==
    ASSUME NEW S, NEW T, S \subseteq T, NEW s \in Seq(S)
    PROVE  s \in Seq(T)
  BY SeqMonotonic

-----------------------------------------------------------------------------
(***************************************************************************)
(* Type correctness.                                                       *)
(***************************************************************************)
\* A frame sealed from a well-typed state is a frame.
LEMMA SealedType ==
    ASSUME TypeOK, NEW n \in Node, NEW kind \in Kinds, NEW id \in Nat, NEW eph \in Nat
    PROVE  Sealed(n, kind, id, eph) \in Frame
  BY DEF TypeOK, Sealed, Frame

\* What an arriving frame is, and what taking it off the wire leaves.
LEMMA ArrivesType ==
    ASSUME TypeOK, NEW n \in Node, NEW i \in 1 .. Len(wire[n])
    PROVE  /\ wire[n][i] \in Frame
           /\ Consumed(n, i) \in [Node -> Seq(Frame)]
  <1>1. wire[n] \in Seq(Frame)
    BY DEF TypeOK
  <1>2. wire[n][i] \in Frame
    BY <1>1, ElementOfSeq
  <1>3. DropAt(wire[n], i) \in Seq(Frame)
    BY <1>1, DropAtType
  <1> QED
    BY <1>2, <1>3 DEF TypeOK, Consumed

\* _send_frame keeps the types of what it changes.
LEMMA SendType ==
    ASSUME TypeOK, NEW n \in Node, NEW f \in Frame, NEW rest \in [Node -> Seq(Frame)],
           SendFrame(n, f, rest)
    PROVE  wire' \in [Node -> Seq(Frame)] /\ sent' \in [Node -> SUBSET Frame]
  <1>1. Append(rest[Peer(n)], f) \in Seq(Frame)
    BY PeerFacts, AppendProperties
  <1> QED
    BY <1>1, PeerFacts DEF TypeOK, SendFrame

\* Installing a session key keeps the types of the key state.
LEMMA SwitchType ==
    ASSUME TypeOK, NEW n \in Node, NEW key \in SUBSET Nat, NEW last \in Nat, SwitchKey(n, key, last)
    PROVE  /\ prevKey' \in [Node -> SUBSET Nat] /\ sessionKey' \in [Node -> SUBSET Nat]
           /\ prevLastSeq' \in [Node -> Nat] /\ lastSeq' \in [Node -> Nat]
           /\ graceOpen' \in [Node -> BOOLEAN] /\ nextSeq' \in [Node -> Nat \ {0}]
  BY DEF TypeOK, SwitchKey

\* Every action keeps every variable's type.
LEMMA TypeStep == TypeOK /\ [Next]_vars => TypeOK'
  <1> SUFFICES ASSUME TypeOK, [Next]_vars PROVE TypeOK'
    OBVIOUS
  <1>1. ASSUME NEW n \in Node, SendData(n) PROVE TypeOK'
    <2>1. wire \in [Node -> Seq(Frame)] /\ NoRekey \in Nat /\ "DATA" \in Kinds
      BY DEF TypeOK, NoRekey, Kinds
    <2>2. wire' \in [Node -> Seq(Frame)] /\ sent' \in [Node -> SUBSET Frame]
      BY <1>1, <2>1, SealedType, SendType DEF SendData, Spend
    <2>3. data' \in [Node -> Nat] /\ nextSeq' \in [Node -> Nat \ {0}]
      BY <1>1 DEF TypeOK, SendData, Spend
    <2>4. UNCHANGED <<sessionKey, prevKey, graceOpen, lastSeq, prevLastSeq, pending,
                      responding, fresh, accepted, rekeys>>
      BY <1>1 DEF SendData, rxVars, Spend
    <2> QED
      BY <2>2, <2>3, <2>4 DEF TypeOK
  <1>2. ASSUME NEW n \in Node, InitiateRekey(n) PROVE TypeOK'
    <2>1. wire \in [Node -> Seq(Frame)] /\ fresh \in Nat /\ "REKEY_REQUEST" \in Kinds
      BY DEF TypeOK, Kinds
    <2>2. wire' \in [Node -> Seq(Frame)] /\ sent' \in [Node -> SUBSET Frame]
      BY <1>2, <2>1, SealedType, SendType DEF InitiateRekey, Spend
    <2>3. /\ rekeys' \in [Node -> Nat] /\ nextSeq' \in [Node -> Nat \ {0}]
          /\ pending' \in [Node -> Nat] /\ fresh' \in Nat
      BY <1>2, SMTT(30) DEF TypeOK, InitiateRekey, Spend
    <2>4. UNCHANGED <<sessionKey, prevKey, graceOpen, lastSeq, prevLastSeq, responding,
                      accepted, data>>
      BY <1>2 DEF InitiateRekey, rxVars, Spend
    <2> QED
      BY <2>2, <2>3, <2>4 DEF TypeOK
  <1>3. ASSUME NEW n \in Node, NEW i \in 1 .. Len(wire[n]), NEW age \in AgeClasses,
               ReceiveRejected(n, i, age)
        PROVE  TypeOK'
    BY <1>3, ArrivesType DEF TypeOK, ReceiveRejected, NoKey, bounds
  <1>4. ASSUME NEW n \in Node, NEW i \in 1 .. Len(wire[n]), NEW age \in AgeClasses,
               \/ ReceiveData(n, i, age)
               \/ ReceiveCompetingRequest(n, i, age)
               \/ ReceiveStrayResponse(n, i, age)
        PROVE  TypeOK'
    <2>1. wire' = Consumed(n, i) /\ AfterAccept(n, wire[n][i])
          /\ UNCHANGED <<nextSeq, pending, responding, fresh, sent, rekeys, data>>
      BY <1>4 DEF ReceiveData, ReceiveCompetingRequest, ReceiveStrayResponse, bounds
    <2> QED
      BY <2>1, ArrivesType DEF TypeOK, AfterAccept, Frame, NoKey
  <1>5. ASSUME NEW n \in Node, NEW i \in 1 .. Len(wire[n]), NEW age \in AgeClasses,
               ReceiveRequest(n, i, age)
        PROVE  TypeOK'
    <2>1. wire[n][i] \in Frame /\ Consumed(n, i) \in [Node -> Seq(Frame)]
      BY ArrivesType
    <2>2. wire[n][i].id \in Nat /\ wire[n][i].eph \in Nat /\ wire[n][i].seq \in Nat
          /\ fresh \in Nat /\ "REKEY_RESPONSE" \in Kinds
      BY <2>1 DEF TypeOK, Frame, Kinds
    <2>3. Sealed(n, "REKEY_RESPONSE", wire[n][i].id, fresh) \in Frame
      BY <2>2, SealedType
    <2>4. wire' \in [Node -> Seq(Frame)] /\ sent' \in [Node -> SUBSET Frame]
      BY <1>5, <2>1, <2>3, SendType DEF ReceiveRequest, Spend, Abandon
    <2>5. /\ lastSeq' \in [Node -> Nat] /\ prevLastSeq' \in [Node -> Nat]
          /\ prevKey' \in [Node -> SUBSET Nat] /\ accepted' \in [Node -> SUBSET Frame]
      BY <1>5, <2>1, <2>2 DEF TypeOK, ReceiveRequest, AfterAccept, NoKey, Spend, Abandon
    <2>6a. pending' \in [Node -> Nat] /\ nextSeq' \in [Node -> Nat \ {0}] /\ fresh' \in Nat
      BY <1>5, SMTT(30) DEF TypeOK, ReceiveRequest, NoRekey, Spend, Abandon
    <2>6b. [theirs |-> wire[n][i].eph, mine |-> fresh] \in [theirs : Nat, mine : Nat]
      BY <2>2
    <2>6. responding' \in [Node -> [theirs : Nat, mine : Nat]]
      BY <1>5, <2>6b DEF TypeOK, ReceiveRequest, Spend, Abandon
    <2>7. UNCHANGED <<sessionKey, graceOpen, rekeys, data>>
      BY <1>5 DEF ReceiveRequest, AfterAccept, bounds, Spend, Abandon
    <2> QED
      BY <2>4, <2>5, <2>6, <2>6a, <2>7 DEF TypeOK
  <1>6. ASSUME NEW n \in Node, NEW i \in 1 .. Len(wire[n]), NEW age \in AgeClasses,
               ReceiveResponse(n, i, age)
        PROVE  TypeOK'
    <2>1. wire[n][i] \in Frame /\ Consumed(n, i) \in [Node -> Seq(Frame)]
      BY ArrivesType
    <2>2. wire[n][i].eph \in Nat /\ wire[n][i].seq \in Nat
      BY <2>1 DEF Frame
    <2> DEFINE last == IF UsesPrev(n, wire[n][i]) THEN lastSeq[n] ELSE wire[n][i].seq
    <2>3. last \in Nat /\ {pending[n], wire[n][i].eph} \in SUBSET Nat
      BY <2>2 DEF TypeOK
    <2>4. SwitchKey(n, {pending[n], wire[n][i].eph}, last)
      BY <1>6 DEF ReceiveResponse, Ecdh
    <2>5. /\ pending' \in [Node -> Nat] /\ accepted' \in [Node -> SUBSET Frame]
          /\ wire' = Consumed(n, i) /\ UNCHANGED <<responding, fresh, sent, rekeys, data>>
      BY <1>6, <2>1 DEF TypeOK, ReceiveResponse, NoRekey, bounds
    <2> HIDE DEF last
    <2> QED
      BY <2>1, <2>3, <2>4, <2>5, SwitchType DEF TypeOK
  <1>7. ASSUME NEW n \in Node, FinishResponse(n) PROVE TypeOK'
    <2>1. Idle \in [theirs : Nat, mine : Nat]
      BY DEF Idle
    <2> DEFINE key == {responding[n].mine, responding[n].theirs}
    <2>2. SwitchKey(n, key, lastSeq[n]) /\ key \in SUBSET Nat /\ lastSeq[n] \in Nat
      BY <1>7 DEF FinishResponse, Ecdh, TypeOK
    <2>3. /\ responding' \in [Node -> [theirs : Nat, mine : Nat]]
          /\ UNCHANGED <<pending, fresh, wire, sent, accepted, rekeys, data>>
      BY <1>7, <2>1 DEF TypeOK, FinishResponse, bounds
    <2> HIDE DEF key
    <2> QED
      BY <2>2, <2>3, SwitchType DEF TypeOK
  <1>8. ASSUME NEW n \in Node, GraceElapses(n) PROVE TypeOK'
    BY <1>8 DEF TypeOK, GraceElapses, bounds
  <1>9. ASSUME NEW n \in Node, NEW i \in 1 .. Len(wire[n]), Lose(n, i) PROVE TypeOK'
    BY <1>9, ArrivesType DEF TypeOK, Lose, rxVars, bounds
  <1>10. CASE UNCHANGED vars
    BY <1>10 DEF TypeOK, vars
  <1> QED
    BY <1>1, <1>2, <1>3, <1>4, <1>5, <1>6, <1>7, <1>8, <1>9, <1>10 DEF Next, Receive

\* Every reachable state of a session is well typed.
THEOREM TypeCorrect == Spec => []TypeOK
  <1>1. Init => TypeOK
    <2>1. Idle \in [theirs : Nat, mine : Nat]
      BY DEF Idle
    <2>2. <<>> \in Seq(Frame)
      BY EmptySeq
    <2> QED
      BY <2>1, <2>2 DEF Init, TypeOK, HandshakeKey, NoKey, NoRekey
  <1> QED
    BY <1>1, TypeStep, PTL DEF Spec

-----------------------------------------------------------------------------
(***************************************************************************)
(* The inductive invariant.                                                *)
(***************************************************************************)
\* The fields of a frame have the types Frame gives them.
LEMMA FrameFields ==
    \A f \in Frame : /\ f.key \in SUBSET Nat /\ f.seq \in Nat
                     /\ f.id \in Nat /\ f.eph \in Nat
  BY DEF Frame

\* The frames of the histories are frames.
LEMMA HistoryFields ==
    ASSUME TypeOK, NEW n \in Node, NEW f \in sent[n] \cup accepted[n]
    PROVE  /\ f \in Frame /\ f.key \in SUBSET Nat /\ f.seq \in Nat
           /\ f.id \in Nat /\ f.eph \in Nat
  <1>1. f \in Frame
    BY DEF TypeOK
  <1> QED
    BY <1>1, FrameFields

\* The arriving frame was sent, and so is everything that stays on the wire.
LEMMA ArrivesInv ==
    ASSUME WireInv, TypeOK, NEW n \in Node, NEW i \in 1 .. Len(wire[n])
    PROVE  /\ wire[n][i] \in sent[n]
           /\ \A m \in Node : Consumed(n, i)[m] \in Seq(sent[m])
  <1>1. wire[n] \in Seq(sent[n])
    BY DEF WireInv
  <1>2. wire[n][i] \in sent[n]
    BY <1>1, ElementOfSeq
  <1>3. DropAt(wire[n], i) \in Seq(sent[n])
    BY <1>1, DropAtType
  <1> QED
    BY <1>2, <1>3 DEF WireInv, TypeOK, Consumed

\* Sealing a frame with an ephemeral below the next fresh keeps WireInv.
LEMMA SendWireInv ==
    ASSUME WireInv, TypeOK, NEW n \in Node, NEW f \in Frame,
           NEW rest \in [Node -> Seq(Frame)], \A m \in Node : rest[m] \in Seq(sent[m]),
           SendFrame(n, f, rest), fresh' \in Nat, fresh' >= fresh, f.eph < fresh'
    PROVE  WireInv'
  <1>1. \A m \in Node : sent[m] \subseteq sent'[m]
    BY DEF SendFrame, TypeOK
  <1>2. f \in sent'[Peer(n)]
    BY PeerFacts DEF SendFrame, TypeOK
  <1>3. \A m \in Node : rest[m] \in Seq(sent'[m])
    BY <1>1, SeqMonotone
  <1>4. Append(rest[Peer(n)], f) \in Seq(sent'[Peer(n)])
    BY <1>2, <1>3, PeerFacts, AppendProperties
  <1>5. \A m \in Node : wire'[m] \in Seq(sent'[m])
    BY <1>3, <1>4, PeerFacts DEF SendFrame
  <1>6. \A m \in Node : \A g \in sent'[m] : g.eph < fresh'
    <2> SUFFICES ASSUME NEW m \in Node, NEW g \in sent'[m] PROVE g.eph < fresh'
      OBVIOUS
    <2>1. CASE g \in sent[m]
      <3>1. g.eph \in Nat
        BY <2>1, HistoryFields
      <3>2. g.eph < fresh /\ fresh \in Nat
        BY <2>1 DEF WireInv, TypeOK
      <3> QED
        BY <3>1, <3>2
    <2>2. CASE g \notin sent[m]
      <3>1. g = f
        BY <2>2, PeerFacts DEF SendFrame, TypeOK
      <3> QED
        BY <3>1
    <2> QED
      BY <2>1, <2>2
  <1> QED
    BY <1>5, <1>6 DEF WireInv

\* Sealing a frame with the current key and sequence number keeps what the
\* invariant says of the frames sent.
LEMMA SendSendInv ==
    ASSUME TypeOK, SendInv, SequenceUnique, NEW n \in Node, NEW f \in Frame, NEW rest,
           f.key = sessionKey[n], f.seq = nextSeq[n], SendFrame(n, f, rest),
           nextSeq' = [nextSeq EXCEPT ![n] = @ + 1], UNCHANGED sessionKey
    PROVE  SendInv' /\ SequenceUnique'
  <1>1. \A m \in Node : \A g \in sent[Peer(m)] : g.key = sessionKey[m] => g.seq < nextSeq[m]
    BY DEF SendInv
  <1>2. sent' = [sent EXCEPT ![Peer(n)] = @ \cup {f}]
    BY DEF SendFrame
  <1>3. \A m \in Node : nextSeq[m] \in Nat /\ (\A g \in sent[Peer(m)] : g.seq \in Nat)
    BY PeerFacts, HistoryFields DEF TypeOK
  <1>4. SendInv'
    <2> SUFFICES ASSUME NEW m \in Node, NEW g \in sent'[Peer(m)], g.key = sessionKey[m]
                 PROVE  g.seq < nextSeq'[m]
      BY DEF SendInv
    <2>1. CASE g \in sent[Peer(m)]
      <3>1. g.seq < nextSeq[m] /\ g.seq \in Nat /\ nextSeq[m] \in Nat
        BY <1>1, <1>3, <2>1
      <3>2. nextSeq'[m] = nextSeq[m] \/ nextSeq'[m] = nextSeq[m] + 1
        BY DEF TypeOK
      <3> QED
        BY <3>1, <3>2
    <2>2. CASE g \notin sent[Peer(m)]
      <3>1. g = f /\ Peer(m) = Peer(n)
        BY <1>2, <2>2, PeerFacts DEF TypeOK
      <3>2. m = n
        BY <3>1, PeerFacts
      <3> QED
        BY <1>3, <3>1, <3>2 DEF TypeOK
    <2> QED
      BY <2>1, <2>2
  <1>5. SequenceUnique'
    <2> SUFFICES ASSUME NEW m \in Node, NEW g \in sent'[m], NEW h \in sent'[m],
                        g.key = h.key, g.seq = h.seq
                 PROVE  g = h
      BY DEF SequenceUnique
    <2>1. \A x \in sent[Peer(n)] : ~(x.key = f.key /\ x.seq = f.seq)
      BY <1>1, <1>3
    <2>2. CASE m = Peer(n)
      BY <1>2, <2>1, <2>2, PeerFacts DEF SequenceUnique, TypeOK
    <2>3. CASE m # Peer(n)
      BY <1>2, <2>3, PeerFacts DEF SequenceUnique, TypeOK
    <2> QED
      BY <2>2, <2>3
  <1> QED
    BY <1>4, <1>5

\* Only node n's part of the session changed.
OnlyNode(n) ==
    \A m \in Node \ {n} :
        /\ sessionKey'[m] = sessionKey[m] /\ prevKey'[m] = prevKey[m]
        /\ pending'[m] = pending[m] /\ responding'[m] = responding[m]
        /\ accepted'[m] = accepted[m] /\ sent'[Peer(m)] = sent[Peer(m)]

\* What n newly handled is under one of the two keys it held.
HandledUnderHeldKeys(n) ==
    \A f \in accepted'[n] \cup sent'[Peer(n)] :
        f \in Handled(n) \/ f.key = sessionKey[n] \/ f.key = prevKey[n]

\* The other node's part of the key invariants survives a step of n.
LEMMA OtherNode ==
    ASSUME FreshInv, NextKeyInv, fresh \in Nat, fresh' \in Nat, fresh' >= fresh, TypeOK,
           NEW n \in Node, OnlyNode(n), NEW m \in Node \ {n}
    PROVE  /\ \A e \in sessionKey'[m] \cup prevKey'[m] : e < fresh'
           /\ \A f \in Handled(m)' : \A e \in f.key : e < fresh'
           /\ pending'[m] < fresh' /\ responding'[m].mine < fresh' /\ responding'[m].theirs < fresh'
           /\ sessionKey'[m] # NoKey /\ sessionKey'[m] # prevKey'[m]
           /\ pending'[m] # NoRekey => Unused(m, pending[m])'
           /\ responding'[m] # Idle => Unused(m, responding[m].mine)'
           /\ responding'[m] # Idle /\ pending'[m] # NoRekey =>
                 pending'[m] # responding'[m].mine /\ pending'[m] # responding'[m].theirs
  <1>1. Handled(m)' = Handled(m)
    BY DEF OnlyNode, Handled
  <1>2. /\ sessionKey'[m] = sessionKey[m] /\ prevKey'[m] = prevKey[m]
        /\ pending'[m] = pending[m] /\ responding'[m] = responding[m]
    BY DEF OnlyNode
  <1>3. /\ \A e \in sessionKey[m] \cup prevKey[m] : e \in Nat
        /\ pending[m] \in Nat /\ responding[m].mine \in Nat /\ responding[m].theirs \in Nat
    BY DEF TypeOK
  <1>4. \A f \in Handled(m) : \A e \in f.key : e \in Nat
    <2> SUFFICES ASSUME NEW f \in Handled(m), NEW e \in f.key PROVE e \in Nat
      OBVIOUS
    <2>1. f \in sent[Peer(m)] \/ f \in accepted[m]
      BY DEF Handled
    <2>2. f.key \in SUBSET Nat
      BY <2>1, PeerFacts, HistoryFields
    <2> QED
      BY <2>2
  <1>5. \A e \in sessionKey[m] \cup prevKey[m] : e < fresh
    BY DEF FreshInv
  <1>6. \A f \in Handled(m) : \A e \in f.key : e < fresh
    BY DEF FreshInv
  <1>7. pending[m] < fresh /\ responding[m].mine < fresh /\ responding[m].theirs < fresh
    BY DEF FreshInv
  <1>8. /\ \A e \in sessionKey[m] \cup prevKey[m] : e < fresh'
        /\ \A f \in Handled(m) : \A e \in f.key : e < fresh'
        /\ pending[m] < fresh' /\ responding[m].mine < fresh' /\ responding[m].theirs < fresh'
    BY <1>3, <1>4, <1>5, <1>6, <1>7
  <1>9. /\ pending[m] # NoRekey => Unused(m, pending[m])
        /\ responding[m] # Idle => Unused(m, responding[m].mine)
    BY DEF NextKeyInv
  <1>10. /\ Unused(m, pending[m])' <=> Unused(m, pending[m])
         /\ Unused(m, responding[m].mine)' <=> Unused(m, responding[m].mine)
    BY <1>1, <1>2 DEF Unused
  <1> QED
    BY <1>1, <1>2, <1>8, <1>9, <1>10 DEF NextKeyInv

\* A step of n that installs no key keeps the key invariants.
LEMMA KeepKey ==
    ASSUME TypeOK, TypeOK', FreshInv, NextKeyInv, NEW n \in Node, OnlyNode(n),
           HandledUnderHeldKeys(n), fresh' >= fresh,
           sessionKey'[n] = sessionKey[n], prevKey'[n] = prevKey[n] \/ prevKey'[n] = NoKey,
           \/ pending'[n] = pending[n] \/ pending'[n] = NoRekey
           \/ pending'[n] = fresh /\ fresh' > fresh,
           \/ responding'[n] = responding[n]
           \/ responding'[n].mine = fresh /\ responding'[n].theirs < fresh /\ fresh' > fresh
              /\ pending'[n] = NoRekey
    PROVE  FreshInv' /\ NextKeyInv'
  <1>1. fresh \in Nat /\ fresh' \in Nat /\ fresh > 0
    BY DEF TypeOK, FreshInv
  <1>2. \A e \in sessionKey[n] \cup prevKey[n] : e \in Nat /\ e < fresh
    BY DEF TypeOK, FreshInv
  <1>3. \A f \in Handled(n)' : \A e \in f.key : e \in Nat /\ e < fresh
    <2> SUFFICES ASSUME NEW f \in Handled(n)', NEW e \in f.key PROVE e \in Nat /\ e < fresh
      OBVIOUS
    <2>1. f \in Handled(n) \/ f.key = sessionKey[n] \/ f.key = prevKey[n]
      BY DEF HandledUnderHeldKeys, Handled
    <2>2. CASE f \in Handled(n)
      <3>1. f.key \in SUBSET Nat
        BY <2>2, PeerFacts, HistoryFields DEF Handled
      <3> QED
        BY <2>2, <3>1 DEF FreshInv
    <2> QED
      BY <1>2, <2>1, <2>2
  <1>4. pending[n] \in Nat /\ pending[n] < fresh /\ pending'[n] \in Nat
    BY DEF TypeOK, FreshInv
  <1>5. /\ responding[n].mine \in Nat /\ responding[n].theirs \in Nat
        /\ responding'[n].mine \in Nat /\ responding'[n].theirs \in Nat
        /\ responding[n].mine < fresh /\ responding[n].theirs < fresh
    BY DEF TypeOK, FreshInv
  <1>6. /\ \A e \in sessionKey'[n] \cup prevKey'[n] : e < fresh'
        /\ \A f \in Handled(n)' : \A e \in f.key : e < fresh'
    BY <1>1, <1>2, <1>3 DEF NoKey
  <1>7. pending'[n] < fresh' /\ responding'[n].mine < fresh' /\ responding'[n].theirs < fresh'
    BY <1>1, <1>4, <1>5 DEF NoRekey
  <1>8. sessionKey'[n] # NoKey /\ sessionKey'[n] # prevKey'[n]
    BY DEF NextKeyInv
  <1> DEFINE Gone(x) == /\ x \notin sessionKey'[n] /\ x \notin prevKey'[n]
                       /\ \A f \in Handled(n)' : x \notin f.key
  <1>9. \A x \in Nat : Unused(n, x) => Gone(x)
    BY DEF Unused, HandledUnderHeldKeys, Handled, NoKey
  <1>10. Gone(fresh)
    BY <1>1, <1>2, <1>3 DEF NoKey
  <1>11. pending'[n] # NoRekey => Unused(n, pending[n])'
    <2>1. pending[n] # NoRekey => Gone(pending[n])
      BY <1>4, <1>9 DEF NextKeyInv
    <2>2. pending'[n] # NoRekey => Gone(pending'[n])
      BY <1>10, <2>1
    <2> QED
      BY <2>2 DEF Unused
  <1>12. responding'[n] # Idle => Unused(n, responding[n].mine)'
    <2>1. responding[n] # Idle => Gone(responding[n].mine)
      BY <1>5, <1>9 DEF NextKeyInv
    <2>2. responding'[n] # Idle => Gone(responding'[n].mine)
      BY <1>10, <2>1
    <2> QED
      BY <2>2 DEF Unused
  <1>13. responding'[n] # Idle /\ pending'[n] # NoRekey =>
            pending'[n] # responding'[n].mine /\ pending'[n] # responding'[n].theirs
    BY <1>1, <1>4, <1>5 DEF NextKeyInv
  <1>14. FreshInv'
    BY <1>1, <1>6, <1>7, OtherNode DEF FreshInv
  <1>15. NextKeyInv'
    BY <1>1, <1>8, <1>11, <1>12, <1>13, OtherNode DEF NextKeyInv
  <1> QED
    BY <1>14, <1>15

\* Installing a key that contains an ephemeral n has not used keeps the key
\* invariants, and nothing n handled so far is under the new key.
LEMMA NewKey ==
    ASSUME TypeOK, TypeOK', FreshInv, NextKeyInv, NEW n \in Node, OnlyNode(n),
           HandledUnderHeldKeys(n), fresh' = fresh,
           NEW x \in Nat, NEW y \in Nat, x < fresh, y < fresh, Unused(n, x),
           sessionKey'[n] = {x, y}, prevKey'[n] = sessionKey[n], responding'[n] = Idle,
           \/ pending'[n] = NoRekey
           \/ pending'[n] = pending[n] /\ pending[n] # x /\ pending[n] # y
    PROVE  /\ FreshInv' /\ NextKeyInv'
           /\ \A f \in Handled(n)' : f.key # sessionKey'[n]
  <1>1. fresh \in Nat /\ fresh' \in Nat /\ fresh > 0
    BY DEF TypeOK, FreshInv
  <1>2. \A e \in sessionKey[n] \cup prevKey[n] : e \in Nat /\ e < fresh
    BY DEF TypeOK, FreshInv
  <1>3. \A f \in Handled(n)' : \A e \in f.key : e \in Nat /\ e < fresh
    <2> SUFFICES ASSUME NEW f \in Handled(n)', NEW e \in f.key PROVE e \in Nat /\ e < fresh
      OBVIOUS
    <2>1. f \in Handled(n) \/ f.key = sessionKey[n] \/ f.key = prevKey[n]
      BY DEF HandledUnderHeldKeys, Handled
    <2>2. CASE f \in Handled(n)
      <3>1. f.key \in SUBSET Nat
        BY <2>2, PeerFacts, HistoryFields DEF Handled
      <3> QED
        BY <2>2, <3>1 DEF FreshInv
    <2> QED
      BY <1>2, <2>1, <2>2
  <1>4. pending'[n] < fresh' /\ pending'[n] \in Nat
    BY <1>1 DEF TypeOK, FreshInv, NoRekey
  <1>5. responding'[n].mine < fresh' /\ responding'[n].theirs < fresh'
    BY <1>1 DEF Idle
  <1>6. \A e \in sessionKey'[n] \cup prevKey'[n] : e < fresh'
    BY <1>1, <1>2
  <1>7. \A f \in Handled(n)' : x \notin f.key
    BY DEF Unused, HandledUnderHeldKeys, Handled
  <1>8. sessionKey'[n] # NoKey /\ sessionKey'[n] # prevKey'[n]
    BY DEF NoKey, Unused
  <1>9. pending'[n] # NoRekey =>
           /\ pending'[n] \notin sessionKey'[n] /\ pending'[n] \notin prevKey'[n]
           /\ \A f \in Handled(n)' : pending'[n] \notin f.key
    <2> SUFFICES ASSUME pending'[n] = pending[n], pending[n] # NoRekey, pending[n] # x, pending[n] # y
                 PROVE  /\ pending[n] \notin sessionKey'[n] /\ pending[n] \notin prevKey'[n]
                        /\ \A f \in Handled(n)' : pending[n] \notin f.key
      OBVIOUS
    <2>1. Unused(n, pending[n])
      BY DEF NextKeyInv
    <2> QED
      BY <2>1 DEF Unused, HandledUnderHeldKeys, Handled
  <1>10. pending'[n] # NoRekey => Unused(n, pending[n])'
    BY <1>9 DEF Unused
  <1>11. FreshInv'
    BY <1>1, <1>3, <1>4, <1>5, <1>6, OtherNode DEF FreshInv
  <1>12. NextKeyInv'
    BY <1>1, <1>8, <1>10, OtherNode DEF NextKeyInv
  <1> QED
    BY <1>7, <1>11, <1>12

\* Accepting a frame keeps ReplayInv.
LEMMA AcceptReplayInv ==
    ASSUME TypeOK, TypeOK', NextKeyInv, ReplayInv, NEW n \in Node, NEW f \in Frame, NEW age,
           Acceptable(n, f, age), AfterAccept(n, f)
    PROVE  ReplayInv'
  <1> SUFFICES ASSUME NEW m \in Node, NEW g \in accepted'[m]
               PROVE  /\ g.key = sessionKey'[m] => g.seq <= lastSeq'[m]
                      /\ g.key = prevKey'[m] /\ prevKey'[m] # NoKey => g.seq <= prevLastSeq'[m]
    BY DEF ReplayInv
  <1>1. g \in Frame /\ g.seq \in Nat /\ f.seq \in Nat
    BY FrameFields DEF TypeOK
  <1>2. lastSeq[m] \in Nat /\ prevLastSeq[m] \in Nat
    BY DEF TypeOK
  <1>3. sessionKey' = sessionKey
    BY DEF AfterAccept
  <1>4. CASE m # n
    BY <1>4 DEF AfterAccept, ReplayInv, TypeOK
  <1>5. CASE m = n /\ g # f
    <2>1. g \in accepted[n]
      BY <1>5 DEF AfterAccept, TypeOK
    <2>2. CASE UsesPrev(n, f)
      <3>1. ~RetireExpired(n) /\ f.seq > prevLastSeq[n]
        BY <2>2 DEF Acceptable, ReplayOk, UsesPrev, LivePrev, RetireExpired
      <3>2. /\ lastSeq'[n] = lastSeq[n] /\ prevLastSeq'[n] = f.seq
            /\ prevKey'[n] = prevKey[n]
        BY <2>2, <3>1 DEF AfterAccept, TypeOK
      <3>3. /\ g.key = sessionKey[n] => g.seq <= lastSeq[n]
            /\ g.key = prevKey[n] /\ prevKey[n] # NoKey => g.seq <= prevLastSeq[n]
        BY <2>1 DEF ReplayInv
      <3> QED
        BY <1>1, <1>2, <1>3, <1>5, <3>1, <3>2, <3>3
    <2>3. CASE ~UsesPrev(n, f)
      <3>1. f.seq > lastSeq[n]
        BY <2>3 DEF Acceptable, ReplayOk
      <3>2. /\ lastSeq'[n] = f.seq
            /\ \/ prevKey'[n] = NoKey
               \/ prevKey'[n] = prevKey[n] /\ prevLastSeq'[n] = prevLastSeq[n]
        BY <2>3 DEF AfterAccept, TypeOK
      <3>3. /\ g.key = sessionKey[n] => g.seq <= lastSeq[n]
            /\ g.key = prevKey[n] /\ prevKey[n] # NoKey => g.seq <= prevLastSeq[n]
        BY <2>1 DEF ReplayInv
      <3> QED
        BY <1>1, <1>2, <1>3, <1>5, <3>1, <3>2, <3>3
    <2> QED
      BY <2>2, <2>3
  <1>6. CASE m = n /\ g = f
    <2>1. CASE UsesPrev(n, f)
      <3>1. ~RetireExpired(n) /\ f.key # sessionKey[n]
        BY <2>1 DEF UsesPrev, LivePrev, RetireExpired
      <3>2. prevLastSeq'[n] = f.seq
        BY <2>1, <3>1 DEF AfterAccept, TypeOK
      <3> QED
        BY <1>1, <1>3, <1>6, <3>1, <3>2
    <2>2. CASE ~UsesPrev(n, f)
      <3>1. f.key = sessionKey[n] /\ sessionKey[n] # prevKey[n]
        BY <2>2 DEF Acceptable, Opens, NextKeyInv
      <3> QED
        BY <1>1, <1>3, <1>6, <2>2, <3>1, SMTT(30) DEF AfterAccept, TypeOK
    <2> QED
      BY <2>1, <2>2
  <1> QED
    BY <1>4, <1>5, <1>6

\* A node that installs a key nothing is under, and keeps the old one with a
\* mark that covers its epoch, keeps ReplayInv, SendInv and SequenceUnique.
LEMMA SwitchInv ==
    ASSUME TypeOK, TypeOK', ReplayInv, SendInv, SequenceUnique, NEW n \in Node,
           NEW key, NEW last \in Nat, SwitchKey(n, key, last), sent' = sent,
           \A m \in Node \ {n} : accepted'[m] = accepted[m],
           \A f \in Handled(n)' : f.key # key,
           \A f \in accepted'[n] : f.key = sessionKey[n] => f.seq <= last
    PROVE  ReplayInv' /\ SendInv' /\ SequenceUnique'
  <1>1. /\ sessionKey'[n] = key /\ prevKey'[n] = sessionKey[n] /\ prevLastSeq'[n] = last
        /\ \A m \in Node \ {n} : /\ sessionKey'[m] = sessionKey[m] /\ prevKey'[m] = prevKey[m]
                                 /\ lastSeq'[m] = lastSeq[m] /\ prevLastSeq'[m] = prevLastSeq[m]
                                 /\ nextSeq'[m] = nextSeq[m]
    BY DEF SwitchKey, TypeOK
  <1>2. ReplayInv'
    <2> SUFFICES ASSUME NEW m \in Node, NEW g \in accepted'[m]
                 PROVE  /\ g.key = sessionKey'[m] => g.seq <= lastSeq'[m]
                        /\ g.key = prevKey'[m] /\ prevKey'[m] # NoKey => g.seq <= prevLastSeq'[m]
      BY DEF ReplayInv
    <2>1. CASE m = n
      BY <1>1, <2>1 DEF Handled
    <2>2. CASE m # n
      BY <1>1, <2>2 DEF ReplayInv
    <2> QED
      BY <2>1, <2>2
  <1>3. SendInv'
    BY <1>1 DEF SendInv, Handled
  <1>4. SequenceUnique'
    BY DEF SequenceUnique
  <1> QED
    BY <1>2, <1>3, <1>4

-----------------------------------------------------------------------------
\* Every action, and every verdict on an arriving frame, keeps IInv.
LEMMA InvStep == IInv /\ [Next]_vars => IInv'
  <1> SUFFICES ASSUME IInv, [Next]_vars PROVE IInv'
    OBVIOUS
  <1>0. TypeOK /\ TypeOK' /\ WireInv /\ FreshInv /\ NextKeyInv /\ ReplayInv /\ SendInv /\ SequenceUnique
    BY TypeStep DEF IInv
  <1>1. ASSUME NEW n \in Node, SendData(n) PROVE IInv'
    <2> DEFINE f == Sealed(n, "DATA", NoRekey, 0)
    <2>1. f \in Frame /\ f.key = sessionKey[n] /\ f.seq = nextSeq[n] /\ f.eph = 0
      BY <1>0, SealedType DEF Sealed, Kinds, NoRekey
    <2> HIDE DEF f
    <2>2. SendFrame(n, f, wire) /\ nextSeq' = [nextSeq EXCEPT ![n] = @ + 1]
      BY <1>1 DEF SendData, f, Spend
    <2>3. UNCHANGED <<sessionKey, prevKey, lastSeq, prevLastSeq, pending, responding, fresh, accepted>>
      BY <1>1 DEF SendData, rxVars, Spend
    <2>4. wire \in [Node -> Seq(Frame)] /\ (\A m \in Node : wire[m] \in Seq(sent[m]))
          /\ fresh \in Nat /\ fresh > 0
      BY <1>0 DEF TypeOK, WireInv, FreshInv
    <2>5. WireInv'
      BY <1>0, <2>1, <2>2, <2>3, <2>4, SendWireInv
    <2>6. SendInv' /\ SequenceUnique'
      BY <1>0, <2>1, <2>2, <2>3, SendSendInv
    <2>7. OnlyNode(n) /\ HandledUnderHeldKeys(n)
      BY <1>0, <2>1, <2>2, <2>3, PeerFacts DEF OnlyNode, HandledUnderHeldKeys, Handled, SendFrame, TypeOK
    <2>8. FreshInv' /\ NextKeyInv'
      BY <1>0, <2>3, <2>4, <2>7, KeepKey
    <2>9. ReplayInv'
      BY <1>0, <2>3 DEF ReplayInv
    <2> QED
      BY <1>0, <2>5, <2>6, <2>8, <2>9 DEF IInv
  <1>2. ASSUME NEW n \in Node, InitiateRekey(n) PROVE IInv'
    <2> DEFINE f == Sealed(n, "REKEY_REQUEST", fresh, fresh)
    <2>0. fresh \in Nat /\ "REKEY_REQUEST" \in Kinds
      BY <1>0 DEF TypeOK, Kinds
    <2>1. f \in Frame /\ f.key = sessionKey[n] /\ f.seq = nextSeq[n] /\ f.eph = fresh
      BY <1>0, <2>0, SealedType DEF Sealed
    <2> HIDE DEF f
    <2>2. SendFrame(n, f, wire) /\ nextSeq' = [nextSeq EXCEPT ![n] = @ + 1]
      BY <1>2 DEF InitiateRekey, f, Spend
    <2>3. UNCHANGED <<sessionKey, prevKey, lastSeq, prevLastSeq, responding, accepted>>
          /\ pending' = [pending EXCEPT ![n] = fresh] /\ fresh' = fresh + 1
      BY <1>2 DEF InitiateRekey, rxVars, Spend
    <2>4. wire \in [Node -> Seq(Frame)] /\ (\A m \in Node : wire[m] \in Seq(sent[m]))
          /\ fresh' \in Nat /\ fresh' > fresh /\ fresh' >= fresh
      BY <1>0, <2>0, <2>3 DEF TypeOK, WireInv
    <2>5. WireInv'
      BY <1>0, <2>1, <2>2, <2>4, SendWireInv
    <2>6. SendInv' /\ SequenceUnique'
      BY <1>0, <2>1, <2>2, <2>3, SendSendInv
    <2>7. OnlyNode(n) /\ HandledUnderHeldKeys(n)
      BY <1>0, <2>1, <2>2, <2>3, PeerFacts DEF OnlyNode, HandledUnderHeldKeys, Handled, SendFrame, TypeOK
    <2>8. pending'[n] = fresh
      BY <1>0, <2>3 DEF TypeOK
    <2>9. FreshInv' /\ NextKeyInv'
      BY <1>0, <2>3, <2>4, <2>7, <2>8, KeepKey
    <2>10. ReplayInv'
      BY <1>0, <2>3 DEF ReplayInv
    <2> QED
      BY <1>0, <2>5, <2>6, <2>9, <2>10 DEF IInv
  <1>3. ASSUME NEW n \in Node, NEW i \in 1 .. Len(wire[n]), NEW age \in AgeClasses,
               ReceiveRejected(n, i, age)
        PROVE  IInv'
    <2>1. /\ wire' = Consumed(n, i)
          /\ UNCHANGED <<sessionKey, lastSeq, nextSeq, pending, responding, fresh, sent, accepted>>
          /\ prevKey' = [prevKey EXCEPT ![n] = IF RetireExpired(n) THEN NoKey ELSE @]
          /\ prevLastSeq' = [prevLastSeq EXCEPT ![n] = IF RetireExpired(n) THEN 0 ELSE @]
      BY <1>3 DEF ReceiveRejected
    <2>2. WireInv'
      BY <1>0, <2>1, ArrivesInv DEF WireInv
    <2>3. OnlyNode(n) /\ HandledUnderHeldKeys(n)
      BY <1>0, <2>1 DEF OnlyNode, HandledUnderHeldKeys, Handled, TypeOK
    <2>4. fresh' >= fresh /\ (prevKey'[n] = prevKey[n] \/ prevKey'[n] = NoKey)
      BY <1>0, <2>1 DEF TypeOK
    <2>5. FreshInv' /\ NextKeyInv'
      BY <1>0, <2>1, <2>3, <2>4, KeepKey
    <2>6. ReplayInv'
      <3>1. \A m \in Node : \/ prevKey'[m] = NoKey
                            \/ prevKey'[m] = prevKey[m] /\ prevLastSeq'[m] = prevLastSeq[m]
        BY <1>0, <2>1 DEF TypeOK
      <3> QED
        BY <1>0, <2>1, <3>1 DEF ReplayInv
    <2>7. SendInv' /\ SequenceUnique'
      BY <1>0, <2>1 DEF SendInv, SequenceUnique
    <2> QED
      BY <1>0, <2>2, <2>5, <2>6, <2>7 DEF IInv
  <1>4. ASSUME NEW n \in Node, NEW i \in 1 .. Len(wire[n]), NEW age \in AgeClasses,
               \/ ReceiveData(n, i, age)
               \/ ReceiveCompetingRequest(n, i, age)
               \/ ReceiveStrayResponse(n, i, age)
        PROVE  IInv'
    <2> DEFINE f == wire[n][i]
    <2>1. /\ wire' = Consumed(n, i) /\ Acceptable(n, f, age) /\ AfterAccept(n, f)
          /\ UNCHANGED <<nextSeq, pending, responding, fresh, sent>>
      BY <1>4 DEF ReceiveData, ReceiveCompetingRequest, ReceiveStrayResponse
    <2>2. f \in Frame
      BY <1>0, ArrivesType
    <2>3. WireInv'
      BY <1>0, <2>1, ArrivesInv DEF WireInv
    <2> HIDE DEF f
    <2>4. f.key = sessionKey[n] \/ f.key = prevKey[n]
      BY <2>1 DEF Acceptable, Opens, UsesPrev, LivePrev
    <2>5. OnlyNode(n) /\ HandledUnderHeldKeys(n)
      BY <1>0, <2>1, <2>4 DEF OnlyNode, HandledUnderHeldKeys, Handled, AfterAccept, TypeOK
    <2>6. /\ fresh' >= fresh /\ (prevKey'[n] = prevKey[n] \/ prevKey'[n] = NoKey)
          /\ sessionKey' = sessionKey
      BY <1>0, <2>1 DEF AfterAccept, TypeOK
    <2>7. FreshInv' /\ NextKeyInv'
      BY <1>0, <2>1, <2>5, <2>6, KeepKey
    <2>8. ReplayInv'
      BY <1>0, <2>1, <2>2, AcceptReplayInv
    <2>9. SendInv' /\ SequenceUnique'
      BY <1>0, <2>1, <2>6 DEF SendInv, SequenceUnique
    <2> QED
      BY <1>0, <2>3, <2>7, <2>8, <2>9 DEF IInv
  <1>5. ASSUME NEW n \in Node, NEW i \in 1 .. Len(wire[n]), NEW age \in AgeClasses,
               ReceiveRequest(n, i, age)
        PROVE  IInv'
    <2> DEFINE f == wire[n][i]
               g == Sealed(n, "REKEY_RESPONSE", f.id, fresh)
               rest == Consumed(n, i)
    <2>1. /\ f \in Frame /\ f \in sent[n] /\ f.id \in Nat /\ f.eph \in Nat /\ f.eph < fresh
          /\ rest \in [Node -> Seq(Frame)] /\ (\A m \in Node : rest[m] \in Seq(sent[m]))
      BY <1>0, ArrivesType, ArrivesInv, FrameFields DEF WireInv
    <2>2. fresh \in Nat /\ "REKEY_RESPONSE" \in Kinds
      BY <1>0 DEF TypeOK, Kinds
    <2>3. g \in Frame /\ g.key = sessionKey[n] /\ g.seq = nextSeq[n] /\ g.eph = fresh
      BY <1>0, <2>1, <2>2, SealedType DEF Sealed
    <2>4. /\ Acceptable(n, f, age) /\ AfterAccept(n, f) /\ SendFrame(n, g, rest)
          /\ pending' = [pending EXCEPT ![n] = NoRekey] /\ fresh' = fresh + 1
          /\ responding' = [responding EXCEPT ![n] = [theirs |-> f.eph, mine |-> fresh]]
          /\ nextSeq' = [nextSeq EXCEPT ![n] = @ + 1]
      BY <1>5 DEF ReceiveRequest, Spend, Abandon
    <2> HIDE DEF f, g, rest
    <2>5. sessionKey' = sessionKey /\ fresh' \in Nat /\ fresh' > fresh /\ fresh' >= fresh
      BY <2>2, <2>4 DEF AfterAccept
    <2>6. WireInv'
      BY <1>0, <2>1, <2>3, <2>4, <2>5, SendWireInv
    <2>7. SendInv' /\ SequenceUnique'
      BY <1>0, <2>3, <2>4, <2>5, SendSendInv
    <2>8. f.key = sessionKey[n] \/ f.key = prevKey[n]
      BY <2>4 DEF Acceptable, Opens, UsesPrev, LivePrev
    <2>9. OnlyNode(n)
      BY <1>0, <2>4, PeerFacts DEF OnlyNode, AfterAccept, SendFrame, TypeOK
    <2>10. HandledUnderHeldKeys(n)
      <3>1. accepted'[n] = accepted[n] \cup {f}
        BY <1>0, <2>4 DEF AfterAccept, TypeOK
      <3>2. sent'[Peer(n)] = sent[Peer(n)] \cup {g}
        BY <1>0, <2>4, PeerFacts DEF SendFrame, TypeOK
      <3> QED
        BY <2>3, <2>8, <3>1, <3>2 DEF HandledUnderHeldKeys, Handled
    <2>11. /\ prevKey'[n] = prevKey[n] \/ prevKey'[n] = NoKey
           /\ pending'[n] = NoRekey
           /\ responding'[n] = [theirs |-> f.eph, mine |-> fresh]
      BY <1>0, <2>4 DEF AfterAccept, TypeOK
    <2>11a. responding'[n].mine = fresh /\ responding'[n].theirs < fresh
      BY <2>1, <2>11
    <2>12. FreshInv' /\ NextKeyInv'
      BY <1>0, <2>5, <2>9, <2>10, <2>11, <2>11a, KeepKey
    <2>13. ReplayInv'
      BY <1>0, <2>1, <2>4, AcceptReplayInv
    <2> QED
      BY <1>0, <2>6, <2>7, <2>12, <2>13 DEF IInv
  <1>6. ASSUME NEW n \in Node, NEW i \in 1 .. Len(wire[n]), NEW age \in AgeClasses,
               ReceiveResponse(n, i, age)
        PROVE  IInv'
    <2> DEFINE f == wire[n][i]
               last == IF UsesPrev(n, f) THEN lastSeq[n] ELSE f.seq
    <2>1. f \in Frame /\ f \in sent[n] /\ f.seq \in Nat /\ f.eph \in Nat /\ f.eph < fresh
      BY <1>0, ArrivesType, ArrivesInv, FrameFields DEF WireInv
    <2>2. /\ Acceptable(n, f, age) /\ SwitchKey(n, {pending[n], f.eph}, last)
          /\ responding[n] = Idle /\ pending[n] # NoRekey
          /\ pending' = [pending EXCEPT ![n] = NoRekey]
          /\ accepted' = [accepted EXCEPT ![n] = @ \cup {f}]
          /\ wire' = Consumed(n, i)
          /\ UNCHANGED <<responding, fresh, sent>>
      BY <1>6 DEF ReceiveResponse, Arrives, Ecdh
    <2>3. WireInv'
      BY <1>0, <2>2, ArrivesInv DEF WireInv
    <2>4. lastSeq[n] \in Nat /\ last \in Nat
      BY <1>0, <2>1 DEF TypeOK
    <2>5. f.key = sessionKey[n] \/ f.key = prevKey[n]
      BY <2>2 DEF Acceptable, Opens, UsesPrev, LivePrev
    <2>6. /\ UsesPrev(n, f) => f.key # sessionKey[n] /\ last = lastSeq[n]
          /\ ~UsesPrev(n, f) => last = f.seq /\ f.seq > lastSeq[n]
      BY <2>2 DEF Acceptable, ReplayOk, UsesPrev
    <2> HIDE DEF f, last
    <2>7. OnlyNode(n) /\ HandledUnderHeldKeys(n)
      BY <1>0, <2>2, <2>5 DEF OnlyNode, HandledUnderHeldKeys, Handled, SwitchKey, TypeOK
    <2>8. /\ pending[n] \in Nat /\ pending[n] < fresh /\ Unused(n, pending[n])
          /\ pending'[n] = NoRekey /\ responding'[n] = Idle
          /\ sessionKey'[n] = {pending[n], f.eph} /\ prevKey'[n] = sessionKey[n]
      BY <1>0, <2>2 DEF TypeOK, FreshInv, NextKeyInv, SwitchKey
    <2>9. FreshInv' /\ NextKeyInv' /\ \A h \in Handled(n)' : h.key # {pending[n], f.eph}
      BY <1>0, <2>1, <2>2, <2>7, <2>8, NewKey
    <2>10. \A h \in accepted'[n] : h.key = sessionKey[n] => h.seq <= last
      <3> SUFFICES ASSUME NEW h \in accepted'[n], h.key = sessionKey[n] PROVE h.seq <= last
        OBVIOUS
      <3>1. CASE h = f
        BY <2>1, <2>6, <3>1
      <3>2. CASE h # f
        <4>1. h \in accepted[n]
          BY <1>0, <2>2, <3>2 DEF TypeOK
        <4>2. h.seq \in Nat /\ h.seq <= lastSeq[n]
          BY <1>0, <4>1, HistoryFields DEF ReplayInv
        <4> QED
          BY <2>1, <2>4, <2>6, <4>2
      <3> QED
        BY <3>1, <3>2
    <2>11. \A m \in Node \ {n} : accepted'[m] = accepted[m]
      BY <1>0, <2>2 DEF TypeOK
    <2>12. ReplayInv' /\ SendInv' /\ SequenceUnique'
      BY <1>0, <2>2, <2>4, <2>9, <2>10, <2>11, SwitchInv
    <2> QED
      BY <1>0, <2>3, <2>9, <2>12 DEF IInv
  <1>7. ASSUME NEW n \in Node, FinishResponse(n) PROVE IInv'
    <2> DEFINE x == responding[n].mine
               y == responding[n].theirs
    <2>1. /\ responding[n] # Idle /\ SwitchKey(n, {x, y}, lastSeq[n])
          /\ responding' = [responding EXCEPT ![n] = Idle]
          /\ UNCHANGED <<pending, fresh, wire, sent, accepted>>
      BY <1>7 DEF FinishResponse, Ecdh
    <2>2. /\ x \in Nat /\ y \in Nat /\ x < fresh /\ y < fresh /\ lastSeq[n] \in Nat
          /\ Unused(n, x) /\ (pending[n] # NoRekey => pending[n] # x /\ pending[n] # y)
      BY <1>0, <2>1 DEF TypeOK, FreshInv, NextKeyInv
    <2> HIDE DEF x, y
    <2>3. OnlyNode(n) /\ HandledUnderHeldKeys(n)
      BY <1>0, <2>1 DEF OnlyNode, HandledUnderHeldKeys, Handled, SwitchKey, TypeOK
    <2>4. /\ responding'[n] = Idle /\ pending'[n] = pending[n]
          /\ sessionKey'[n] = {x, y} /\ prevKey'[n] = sessionKey[n]
      BY <1>0, <2>1 DEF TypeOK, SwitchKey
    <2>5. FreshInv' /\ NextKeyInv' /\ \A h \in Handled(n)' : h.key # {x, y}
      BY <1>0, <2>1, <2>2, <2>3, <2>4, NewKey
    <2>6. \A h \in accepted'[n] : h.key = sessionKey[n] => h.seq <= lastSeq[n]
      BY <1>0, <2>1 DEF ReplayInv
    <2>7. ReplayInv' /\ SendInv' /\ SequenceUnique'
      BY <1>0, <2>1, <2>2, <2>5, <2>6, SwitchInv
    <2>8. WireInv'
      BY <1>0, <2>1 DEF WireInv
    <2> QED
      BY <1>0, <2>5, <2>7, <2>8 DEF IInv
  <1>8. ASSUME NEW n \in Node, GraceElapses(n) PROVE IInv'
    BY <1>0, <1>8 DEF GraceElapses, IInv, WireInv, FreshInv, NextKeyInv, ReplayInv, SendInv,
                      SequenceUnique, Unused, Handled
  <1>9. ASSUME NEW n \in Node, NEW i \in 1 .. Len(wire[n]), Lose(n, i) PROVE IInv'
    <2>1. wire' = Consumed(n, i)
          /\ UNCHANGED <<sessionKey, prevKey, lastSeq, prevLastSeq, nextSeq, pending, responding,
                         fresh, sent, accepted>>
      BY <1>9 DEF Lose, rxVars
    <2>2. WireInv'
      BY <1>0, <2>1, ArrivesInv DEF WireInv
    <2> QED
      BY <1>0, <2>1, <2>2 DEF IInv, FreshInv, NextKeyInv, ReplayInv, SendInv, SequenceUnique,
                              Unused, Handled
  <1>10. CASE UNCHANGED vars
    BY <1>0, <1>10 DEF vars, IInv, WireInv, FreshInv, NextKeyInv, ReplayInv, SendInv,
                       SequenceUnique, Unused, Handled
  <1> QED
    BY <1>1, <1>2, <1>3, <1>4, <1>5, <1>6, <1>7, <1>8, <1>9, <1>10 DEF Next, Receive

\* A session that has just been set up satisfies IInv.
LEMMA InvInit == Init => IInv
  <1> SUFFICES ASSUME Init PROVE IInv
    OBVIOUS
  <1>1. TypeOK
    <2>1. Idle \in [theirs : Nat, mine : Nat]
      BY DEF Idle
    <2>2. <<>> \in Seq(Frame)
      BY EmptySeq
    <2> QED
      BY <2>1, <2>2 DEF Init, TypeOK, HandshakeKey, NoKey, NoRekey
  <1>2. WireInv
    BY EmptySeq DEF Init, WireInv
  <1>3. FreshInv
    BY PeerFacts DEF Init, FreshInv, HandshakeKey, NoKey, NoRekey, Idle, Handled
  <1>4. NextKeyInv
    BY DEF Init, NextKeyInv, HandshakeKey, NoKey, NoRekey
  <1>5. ReplayInv /\ SendInv /\ SequenceUnique
    BY PeerFacts DEF Init, ReplayInv, SendInv, SequenceUnique
  <1> QED
    BY <1>1, <1>2, <1>3, <1>4, <1>5 DEF IInv

\* No frame is ever accepted twice, whatever the network does and however
\* many rekeys run or overlap.
THEOREM ReplaySafety == Spec => []NoReplay
  <1>1. IInv => NoReplay
    <2> SUFFICES ASSUME IInv, NEW n \in Node, NEW f \in accepted[n], Acceptable(n, f, "fresh")
                 PROVE  FALSE
      BY DEF NoReplay
    <2>1. f.seq \in Nat /\ lastSeq[n] \in Nat /\ prevLastSeq[n] \in Nat
      BY HistoryFields DEF IInv, TypeOK
    <2>2. CASE UsesPrev(n, f)
      <3>1. f.key = prevKey[n] /\ prevKey[n] # NoKey
        BY <2>2 DEF UsesPrev, LivePrev
      <3>2. f.seq <= prevLastSeq[n]
        BY <3>1 DEF IInv, ReplayInv
      <3> QED
        BY <2>1, <2>2, <3>2 DEF Acceptable, ReplayOk
    <2>3. CASE ~UsesPrev(n, f)
      <3>1. f.key = sessionKey[n]
        BY <2>3 DEF Acceptable, Opens
      <3>2. f.seq <= lastSeq[n]
        BY <3>1 DEF IInv, ReplayInv
      <3> QED
        BY <2>1, <2>3, <3>2 DEF Acceptable, ReplayOk
    <2> QED
      BY <2>2, <2>3
  <1> QED
    BY <1>1, InvInit, InvStep, PTL DEF Spec

\* No sender ever uses a sequence number twice under one key.
THEOREM SequenceSafety == Spec => []SequenceUnique
  <1>1. IInv => SequenceUnique
    BY DEF IInv
  <1> QED
    BY <1>1, InvInit, InvStep, PTL DEF Spec

-----------------------------------------------------------------------------
(***************************************************************************)
(* OfflineQueue                                                            *)
(***************************************************************************)
\* A send that is about to delete has found a row it may displace.
VictimInv ==
    /\ task \in [Msg -> {"new", "direct", "count", "select", "delete", "insert", "done"}]
    /\ DOMAIN victim = Msg
    /\ \A m \in Msg : task[m] = "delete" => Waiting!MayDisplace(victim[m], m)

LEMMA VictimInit == Waiting!Init => VictimInv
  BY DEF Waiting!Init, VictimInv

\* Every step that leaves the selected rows alone leaves them selected.
LEMMA VictimKept ==
    ASSUME VictimInv, NEW m \in Msg,
           NEW s \in {"direct", "count", "select", "insert", "done"},
           Waiting!Goto(m, s), UNCHANGED victim
    PROVE  VictimInv'
<1>1. /\ task' \in [Msg -> {"new", "direct", "count", "select", "delete", "insert", "done"}]
      /\ task'[m] = s /\ \A x \in Msg \ {m} : task'[x] = task[x]
  BY DEF VictimInv, Waiting!Goto
<1> QED
  BY <1>1 DEF VictimInv, Waiting!MayDisplace

LEMMA VictimStep ==
    ASSUME VictimInv, [Waiting!Next]_Waiting!vars
    PROVE  VictimInv'
<1>1. ASSUME UNCHANGED <<task, victim>> PROVE VictimInv'
  BY <1>1 DEF VictimInv, Waiting!MayDisplace
<1>2. ASSUME NEW m \in Msg, Waiting!SelectVictim(m) PROVE VictimInv'
  <2>1. CASE \E i \in DOMAIN queue : /\ Waiting!MayDisplace(queue[i], m)
                                     /\ victim' = [victim EXCEPT ![m] = queue[i]]
                                     /\ Waiting!Goto(m, "delete")
    <3>1. PICK i \in DOMAIN queue : /\ Waiting!MayDisplace(queue[i], m)
                                    /\ victim' = [victim EXCEPT ![m] = queue[i]]
                                    /\ Waiting!Goto(m, "delete")
      BY <2>1
    <3>2. /\ task' \in [Msg -> {"new", "direct", "count", "select", "delete", "insert", "done"}]
          /\ \A x \in Msg \ {m} : task'[x] = task[x]
      BY <3>1 DEF VictimInv, Waiting!Goto
    <3>3. DOMAIN victim' = Msg /\ victim'[m] = queue[i] /\ \A x \in Msg \ {m} : victim'[x] = victim[x]
      BY <3>1 DEF VictimInv
    <3> QED
      BY <3>1, <3>2, <3>3 DEF VictimInv, Waiting!MayDisplace
  <2>2. CASE Waiting!Goto(m, "done") /\ UNCHANGED victim
    BY <2>2, VictimKept
  <2> QED
    BY <1>2, <2>1, <2>2 DEF Waiting!SelectVictim
<1>3. ASSUME NEW m \in Msg, Waiting!SendStep(m) PROVE VictimInv'
  <2>1. CASE Waiting!ChoosePath(m)
    BY <2>1, VictimKept DEF Waiting!ChoosePath
  <2>2. CASE Waiting!SendDirect(m)
    BY <2>2, VictimKept DEF Waiting!SendDirect
  <2>3. CASE Waiting!CountPending(m)
    BY <2>3, VictimKept DEF Waiting!CountPending
  <2>4. CASE Waiting!DeleteVictim(m)
    BY <2>4, VictimKept DEF Waiting!DeleteVictim
  <2>5. CASE Waiting!InsertPending(m)
    BY <2>5, VictimKept DEF Waiting!InsertPending
  <2> QED
    BY <1>2, <1>3, <2>1, <2>2, <2>3, <2>4, <2>5 DEF Waiting!SendStep
<1>4. ASSUME NEW f \in Flusher, Waiting!FlushStep(f) PROVE VictimInv'
  BY <1>1, <1>4 DEF Waiting!FlushStep, Waiting!StartFlush, Waiting!ReadPending,
                    Waiting!FlushSend, Waiting!FlushMark
<1>5. CASE Waiting!LinkLost \/ Waiting!LinkRestored \/ Waiting!ExpireOldest
  BY <1>1, <1>5 DEF Waiting!LinkLost, Waiting!LinkRestored, Waiting!ExpireOldest
<1>6. CASE UNCHANGED Waiting!vars
  BY <1>1, <1>6 DEF Waiting!vars
<1> QED
  BY <1>3, <1>4, <1>5, <1>6 DEF Waiting!Next

\* Rows are evicted in one place only.
LEMMA EvictedBy ==
    ASSUME VictimInv, [Waiting!Next]_Waiting!vars, NEW v \in evicted' \ evicted
    PROVE  \E m \in Msg : task[m] = "delete" /\ task'[m] = "insert" /\ Rank[v] >= Rank[m]
<1>1. PICK m \in Msg : Waiting!DeleteVictim(m)
  <2>1. ASSUME NEW m \in Msg, Waiting!SendStep(m), ~Waiting!DeleteVictim(m) PROVE evicted' = evicted
    BY <2>1 DEF Waiting!SendStep, Waiting!ChoosePath, Waiting!SendDirect, Waiting!CountPending,
                Waiting!SelectVictim, Waiting!InsertPending
  <2>2. ASSUME NEW f \in Flusher, Waiting!FlushStep(f) PROVE evicted' = evicted
    BY <2>2 DEF Waiting!FlushStep, Waiting!StartFlush, Waiting!ReadPending,
                Waiting!FlushSend, Waiting!FlushMark
  <2>3. CASE Waiting!LinkLost \/ Waiting!LinkRestored \/ Waiting!ExpireOldest \/ UNCHANGED Waiting!vars
    BY <2>3 DEF Waiting!LinkLost, Waiting!LinkRestored, Waiting!ExpireOldest, Waiting!vars
  <2> QED
    BY <2>1, <2>2, <2>3 DEF Waiting!Next
<1>2. v = victim[m] /\ task[m] = "delete" /\ task'[m] = "insert"
  BY <1>1 DEF Waiting!DeleteVictim, Waiting!Goto, VictimInv
<1> QED
  BY <1>2 DEF VictimInv, Waiting!MayDisplace

\* store.py, _evict_to_make_room, whose SELECT and DELETE are separate statements: for
\* any messages and ranks, any number of senders and flushers and any cap, a queued
\* message gives way only to one of the same or a higher priority.
THEOREM EvictionsFair == Waiting!Spec => EvictionByPriority
<1>1. VictimInv /\ [Waiting!Next]_Waiting!vars => VictimInv'
  BY VictimStep
<1>2. VictimInv /\ [Waiting!Next]_Waiting!vars =>
          [\A v \in evicted' \ evicted : \E m \in Msg :
              task[m] = "delete" /\ task'[m] = "insert" /\ Rank[v] >= Rank[m]]_Waiting!vars
  BY EvictedBy
<1> QED
  BY <1>1, <1>2, VictimInit, PTL DEF Waiting!Spec, EvictionByPriority, Waiting!EvictionByPriority

-----------------------------------------------------------------------------
(***************************************************************************)
(* Handshake                                                               *)
(***************************************************************************)
\* What can be in transit: a HELLO names the version of the node that sent it, and
\* the server's first message tells whether it skipped stage 1.
Bindings == {Attempt!Sentinel, Attempt!Nonce}
Schemes == {"context-v1", "legacy"}
Body(me) == [ver : {me}, binding : Bindings, link : {Attempt!LinkId, None}]
Hellos(me) == [type : {"HELLO"}, body : Body(me), sig : [scheme : Schemes, body : Body(me)]]
Firsts == [type : {"SKIP_OFFER", "CHALLENGE"}, binding : Bindings, ver : {0, 8, 9}]
Verdicts == [type : {"VERIFIED", "REJECTED", "ERROR"}]
Proofs == [type : {"PROOF"}, key : {"mesh", "else"}]

Servers == [pc : {"open", "proof", "hello", "done", "failed"}, skip : BOOLEAN,
            scheme : Schemes \cup {None}]
Clients == [pc : {"first", "verified", "hello", "done", "failed"}, skip : BOOLEAN,
            adv : {0, 8, 9}, scheme : Schemes \cup {None}]

AttemptTypes ==
    /\ setup \in Attempt!SetupType
    /\ server \in Servers /\ client \in Clients
    /\ toServer \in {None} \cup Proofs \cup Hellos(setup.cver)
    /\ toClient \in {None} \cup Firsts \cup Verdicts \cup Hellos(setup.sver)

\* The client knows what the server decided from its first message on.
SkipInv ==
    /\ server.pc = "open" => client.pc = "first" /\ toClient = None
    /\ client.pc = "first" => ~client.skip
    /\ client.pc \in {"verified", "hello", "done"} => client.skip = server.skip
    /\ toClient # None /\ toClient.type = "SKIP_OFFER" => server.skip
    /\ toClient # None /\ toClient.type = "CHALLENGE" => ~server.skip

AttemptInv == AttemptTypes /\ SkipInv /\ Attempt!NoDowngrade

LEMMA AttemptInit == Attempt!Init => AttemptInv
  BY DEF Attempt!Init, AttemptInv, AttemptTypes, SkipInv, Attempt!NoDowngrade, Servers, Clients

\* A HELLO is typed by who sends it; one that verifies has the scheme its version
\* calls for.
LEMMA HelloTyped ==
    ASSUME NEW me \in {8, 9}, NEW peer \in {0, 8, 9}, NEW b \in Bindings
    PROVE  Attempt!Hello(me, peer, b) \in Hellos(me)
<1>1. Attempt!LinkBinding(me, peer) \in {Attempt!LinkId, None}
  BY DEF Attempt!LinkBinding
<1>2. Attempt!Scheme(me, peer) \in Schemes
  BY DEF Attempt!Scheme, Schemes
<1>3. [ver |-> me, binding |-> b, link |-> Attempt!LinkBinding(me, peer)] \in Body(me)
  BY <1>1 DEF Body
<1> QED
  BY <1>2, <1>3 DEF Attempt!Hello, Hellos

LEMMA SchemeCalledFor ==
    ASSUME NEW h \in Hellos(9), NEW b, Attempt!SignatureOk(9, h, b)
    PROVE  h.sig.scheme = "context-v1"
<1>1. h.body.ver = 9
  BY DEF Hellos, Body
<1>2. h.sig.scheme = Attempt!Scheme(9, 9)
  BY <1>1 DEF Attempt!SignatureOk
<1> QED
  BY <1>2 DEF Attempt!Scheme, Attempt!Ctx

LEMMA SetupFacts ==
    ASSUME setup \in Attempt!SetupType
    PROVE  setup.cver \in {8, 9} /\ setup.sver \in {8, 9} /\ Attempt!Advertised \in {0, 8, 9}
  BY DEF Attempt!SetupType, Attempt!Advertised

LEMMA ServerFirstStep == ASSUME AttemptInv, Attempt!ServerFirst PROVE AttemptInv'
<1>0. AttemptTypes /\ SkipInv /\ Attempt!NoDowngrade
  BY DEF AttemptInv
<1>1. /\ server.pc = "open" /\ client' = client /\ setup' = setup /\ toServer' = toServer
      /\ server' = [server EXCEPT !.pc = IF Attempt!SkipEligible THEN "hello" ELSE "proof",
                                  !.skip = Attempt!SkipEligible]
      /\ toClient' = [type |-> IF Attempt!SkipEligible THEN "SKIP_OFFER" ELSE "CHALLENGE",
                      binding |-> IF Attempt!SkipEligible THEN Attempt!Sentinel ELSE Attempt!Nonce,
                      ver |-> Attempt!Advertised]
  BY DEF Attempt!ServerFirst
<1>2. Attempt!SkipEligible \in BOOLEAN
  BY DEF Attempt!SkipEligible
<1>3. /\ server'.pc \in {"hello", "proof"} /\ server'.skip = Attempt!SkipEligible
      /\ server' \in Servers
  BY <1>0, <1>1, <1>2 DEF AttemptTypes, Servers
<1>4. /\ toClient' \in Firsts
      /\ toClient'.type = "SKIP_OFFER" => Attempt!SkipEligible
      /\ toClient'.type = "CHALLENGE" => ~Attempt!SkipEligible
  <2>1. Attempt!Advertised \in {0, 8, 9}
    BY <1>0, SetupFacts DEF AttemptTypes
  <2> QED
    BY <1>1, <2>1 DEF Firsts, Bindings
<1>5. AttemptTypes'
  BY <1>0, <1>1, <1>3, <1>4 DEF AttemptTypes
<1>6. client.pc = "first"
  BY <1>0, <1>1 DEF SkipInv
<1>7. SkipInv'
  BY <1>0, <1>1, <1>3, <1>4, <1>6 DEF SkipInv
<1>8. Attempt!NoDowngrade'
  BY <1>1, <1>3, <1>6 DEF Attempt!NoDowngrade
<1> QED
  BY <1>5, <1>7, <1>8 DEF AttemptInv

LEMMA ServerProofStep == ASSUME AttemptInv, Attempt!ServerProof PROVE AttemptInv'
<1>0. AttemptTypes /\ SkipInv /\ Attempt!NoDowngrade
  BY DEF AttemptInv
<1>1. /\ server.pc = "proof" /\ client' = client /\ setup' = setup /\ toServer' = None
      /\ \E pc \in {"hello", "failed"}, v \in {"VERIFIED", "REJECTED"} :
            server' = [server EXCEPT !.pc = pc] /\ toClient' = [type |-> v]
  BY DEF Attempt!ServerProof
<1>2. server'.pc \in {"hello", "failed"} /\ server'.skip = server.skip /\ server' \in Servers
  BY <1>0, <1>1 DEF AttemptTypes, Servers
<1>3. toClient' \in Verdicts
  BY <1>1 DEF Verdicts
<1>4. toClient'.type # "SKIP_OFFER" /\ toClient'.type # "CHALLENGE"
  BY <1>3 DEF Verdicts
<1>5. AttemptTypes'
  BY <1>0, <1>1, <1>2, <1>3 DEF AttemptTypes
<1>6. SkipInv'
  BY <1>0, <1>1, <1>2, <1>4 DEF SkipInv
<1>7. Attempt!NoDowngrade'
  BY <1>0, <1>1, <1>2 DEF Attempt!NoDowngrade
<1> QED
  BY <1>5, <1>6, <1>7 DEF AttemptInv

LEMMA ServerHelloStep == ASSUME AttemptInv, Attempt!ServerHello PROVE AttemptInv'
<1>0. AttemptTypes /\ SkipInv /\ Attempt!NoDowngrade
  BY DEF AttemptInv
<1>1. /\ server.pc = "hello" /\ client' = client /\ setup' = setup /\ toServer' = None
      /\ toServer # None
  BY DEF Attempt!ServerHello
<1>2. CASE /\ Attempt!ServerHelloOk(toServer)
           /\ toClient' = Attempt!Hello(setup.sver, toServer.body.ver, Attempt!ServerBinding)
           /\ server' = [server EXCEPT
                 !.pc = IF setup.tofu /\ toServer.body.ver >= setup.floor THEN "done" ELSE "failed",
                 !.scheme = toServer.sig.scheme]
  <2>1. toServer.type = "HELLO" /\ Attempt!SignatureOk(setup.sver, toServer, Attempt!ServerBinding)
    BY <1>2 DEF Attempt!ServerHelloOk
  <2>2. toServer \in Hellos(setup.cver)
    BY <1>0, <1>1, <2>1 DEF AttemptTypes, Proofs
  <2>3. setup.cver \in {8, 9} /\ setup.sver \in {8, 9}
    BY <1>0, SetupFacts DEF AttemptTypes
  <2>4. toServer.body.ver = setup.cver /\ toServer.sig.scheme \in Schemes
    BY <2>2 DEF Hellos, Body
  <2>5. toClient' \in Hellos(setup.sver)
    <3>1. Attempt!ServerBinding \in Bindings
      BY DEF Attempt!ServerBinding, Bindings
    <3> QED
      BY <1>2, <2>3, <2>4, <3>1, HelloTyped
  <2>6. toClient'.type = "HELLO"
    BY <2>5 DEF Hellos
  <2>7. /\ server'.pc \in {"done", "failed"} /\ server'.skip = server.skip /\ server' \in Servers
        /\ server'.scheme = toServer.sig.scheme
    BY <1>0, <1>2, <2>4 DEF AttemptTypes, Servers
  <2>8. AttemptTypes'
    BY <1>0, <1>1, <2>5, <2>7 DEF AttemptTypes
  <2>9. SkipInv'
    BY <1>0, <1>1, <2>6, <2>7 DEF SkipInv
  <2>10. setup.cver = 9 /\ setup.sver = 9 => toServer.sig.scheme = "context-v1"
    BY <2>1, <2>2, SchemeCalledFor
  <2>11. Attempt!NoDowngrade'
    BY <1>0, <1>1, <2>7, <2>10 DEF Attempt!NoDowngrade
  <2> QED
    BY <2>8, <2>9, <2>11 DEF AttemptInv
<1>3. CASE toClient' = [type |-> "ERROR"] /\ server' = [server EXCEPT !.pc = "failed"]
  <2>1. server'.pc = "failed" /\ server'.skip = server.skip /\ server' \in Servers
    BY <1>0, <1>3 DEF AttemptTypes, Servers
  <2>2. toClient' \in Verdicts /\ toClient'.type = "ERROR"
    BY <1>3 DEF Verdicts
  <2>3. AttemptTypes'
    BY <1>0, <1>1, <2>1, <2>2 DEF AttemptTypes
  <2>4. SkipInv'
    BY <1>0, <1>1, <2>1, <2>2 DEF SkipInv
  <2>5. Attempt!NoDowngrade'
    BY <1>0, <1>1, <2>1 DEF Attempt!NoDowngrade
  <2> QED
    BY <2>3, <2>4, <2>5 DEF AttemptInv
<1> QED
  BY <1>2, <1>3 DEF Attempt!ServerHello

LEMMA ClientFirstStep == ASSUME AttemptInv, Attempt!ClientFirst PROVE AttemptInv'
<1>0. AttemptTypes /\ SkipInv /\ Attempt!NoDowngrade
  BY DEF AttemptInv
<1>1. /\ client.pc = "first" /\ toClient # None /\ toClient' = None
      /\ server' = server /\ setup' = setup /\ server.pc # "open"
  BY <1>0 DEF Attempt!ClientFirst, SkipInv
<1>2. setup.cver \in {8, 9}
  BY <1>0, SetupFacts DEF AttemptTypes
<1>3. ASSUME client' \in Clients, client'.pc \in {"verified", "hello", "failed"},
             client'.pc # "failed" => client'.skip = server.skip,
             toServer' \in {None} \cup Proofs \cup Hellos(setup.cver)
      PROVE  AttemptInv'
  <2>1. AttemptTypes'
    BY <1>0, <1>1, <1>3 DEF AttemptTypes
  <2>2. SkipInv'
    BY <1>1, <1>3 DEF SkipInv
  <2>3. Attempt!NoDowngrade'
    BY <1>0, <1>1, <1>3 DEF Attempt!NoDowngrade
  <2> QED
    BY <2>1, <2>2, <2>3 DEF AttemptInv
<1>4. ASSUME toClient.type \in {"SKIP_OFFER", "CHALLENGE"}
      PROVE  toClient.binding \in Bindings /\ toClient.ver \in {0, 8, 9}
  <2>1. toClient \in Firsts
    BY <1>0, <1>1, <1>4 DEF AttemptTypes, Verdicts, Hellos
  <2> QED
    BY <2>1 DEF Firsts
<1>5. CASE /\ toClient.type = "SKIP_OFFER"
           /\ client' = [client EXCEPT !.pc = "hello", !.skip = TRUE, !.adv = toClient.ver]
           /\ Attempt!SendHello(toClient)
  <2>1. client' \in Clients /\ client'.pc = "hello" /\ client'.skip = TRUE /\ client'.adv = toClient.ver
    BY <1>0, <1>4, <1>5 DEF AttemptTypes, Clients
  <2>2. server.skip = TRUE
    BY <1>0, <1>1, <1>5 DEF SkipInv, AttemptTypes, Servers
  <2>3. toServer' \in Hellos(setup.cver)
    BY <1>2, <1>4, <1>5, <2>1, HelloTyped DEF Attempt!SendHello
  <2> QED
    BY <1>3, <2>1, <2>2, <2>3
<1>6. CASE client' = [client EXCEPT !.pc = "failed"] /\ UNCHANGED toServer
  <2>1. client' \in Clients /\ client'.pc = "failed"
    BY <1>0, <1>6 DEF AttemptTypes, Clients
  <2> QED
    BY <1>0, <1>3, <1>6, <2>1 DEF AttemptTypes
<1>7. CASE /\ toClient.type = "CHALLENGE"
           /\ client' = [client EXCEPT !.pc = "verified", !.adv = toClient.ver]
           /\ toServer' = [type |-> "PROOF", key |-> IF setup.same THEN "mesh" ELSE "else"]
  <2>1. client' \in Clients /\ client'.pc = "verified" /\ client'.skip = client.skip
    BY <1>0, <1>4, <1>7 DEF AttemptTypes, Clients
  <2>2. server.skip = FALSE /\ client.skip = FALSE
    BY <1>0, <1>1, <1>7 DEF SkipInv, AttemptTypes, Servers, Clients
  <2>3. toServer' \in Proofs
    BY <1>7 DEF Proofs
  <2> QED
    BY <1>3, <2>1, <2>2, <2>3
<1> QED
  BY <1>5, <1>6, <1>7 DEF Attempt!ClientFirst

LEMMA ClientVerifiedStep == ASSUME AttemptInv, Attempt!ClientVerified PROVE AttemptInv'
<1>0. AttemptTypes /\ SkipInv /\ Attempt!NoDowngrade
  BY DEF AttemptInv
<1>1. /\ client.pc = "verified" /\ toClient' = None
      /\ server' = server /\ setup' = setup /\ server.pc # "open"
  BY <1>0 DEF Attempt!ClientVerified, SkipInv
<1>2. \/ /\ client' = [client EXCEPT !.pc = "hello"]
         /\ toServer' = Attempt!Hello(setup.cver, client'.adv, Attempt!Nonce)
      \/ client' = [client EXCEPT !.pc = "failed"] /\ UNCHANGED toServer
  BY DEF Attempt!ClientVerified, Attempt!SendHello
<1>3. client' \in Clients /\ client'.pc \in {"hello", "failed"} /\ client'.skip = client.skip
  BY <1>0, <1>2 DEF AttemptTypes, Clients
<1>4. toServer' \in {None} \cup Proofs \cup Hellos(setup.cver)
  <2>1. setup.cver \in {8, 9} /\ client'.adv \in {0, 8, 9} /\ Attempt!Nonce \in Bindings
    BY <1>0, <1>3, SetupFacts DEF AttemptTypes, Clients, Bindings
  <2>2. CASE toServer' = Attempt!Hello(setup.cver, client'.adv, Attempt!Nonce)
    BY <2>1, <2>2, HelloTyped
  <2>3. CASE UNCHANGED toServer
    BY <1>0, <2>3 DEF AttemptTypes
  <2> QED
    BY <1>2, <2>2, <2>3
<1>5. AttemptTypes'
  BY <1>0, <1>1, <1>3, <1>4 DEF AttemptTypes
<1>6. SkipInv'
  BY <1>0, <1>1, <1>3 DEF SkipInv
<1>7. Attempt!NoDowngrade'
  BY <1>0, <1>1, <1>3 DEF Attempt!NoDowngrade
<1> QED
  BY <1>5, <1>6, <1>7 DEF AttemptInv

LEMMA ClientHelloStep == ASSUME AttemptInv, Attempt!ClientHello PROVE AttemptInv'
<1>0. AttemptTypes /\ SkipInv /\ Attempt!NoDowngrade
  BY DEF AttemptInv
<1>1. /\ client.pc = "hello" /\ toClient # None /\ toClient' = None /\ toServer' = toServer
      /\ server' = server /\ setup' = setup /\ server.pc # "open"
  BY <1>0 DEF Attempt!ClientHello, SkipInv
<1>2. \/ /\ Attempt!ClientHelloOk(toClient)
         /\ client' = [client EXCEPT !.pc = "done", !.scheme = toClient.sig.scheme]
      \/ client' = [client EXCEPT !.pc = "failed", !.scheme = None]
  BY DEF Attempt!ClientHello
<1>3. ASSUME Attempt!ClientHelloOk(toClient)
      PROVE  /\ toClient.sig.scheme \in Schemes
             /\ setup.cver = 9 /\ setup.sver = 9 => toClient.sig.scheme = "context-v1"
  <2>1. toClient.type = "HELLO" /\ Attempt!SignatureOk(setup.cver, toClient, toClient.body.binding)
    BY <1>3 DEF Attempt!ClientHelloOk
  <2>2. toClient \in Hellos(setup.sver)
    BY <1>0, <1>1, <2>1 DEF AttemptTypes, Firsts, Verdicts
  <2>3. toClient.sig.scheme \in Schemes
    BY <2>2 DEF Hellos
  <2> QED
    BY <2>1, <2>2, <2>3, SchemeCalledFor
<1>4. /\ client' \in Clients /\ client'.pc \in {"done", "failed"} /\ client'.skip = client.skip
      /\ client'.pc = "done" => Attempt!ClientHelloOk(toClient) /\ client'.scheme = toClient.sig.scheme
  BY <1>0, <1>2, <1>3 DEF AttemptTypes, Clients
<1>5. AttemptTypes'
  BY <1>0, <1>1, <1>4 DEF AttemptTypes
<1>6. SkipInv'
  BY <1>0, <1>1, <1>4 DEF SkipInv
<1>7. Attempt!NoDowngrade'
  BY <1>0, <1>1, <1>3, <1>4 DEF Attempt!NoDowngrade
<1> QED
  BY <1>5, <1>6, <1>7 DEF AttemptInv

LEMMA GiveUpStep ==
    ASSUME AttemptInv, Attempt!ServerGivesUp \/ Attempt!ClientGivesUp \/ Attempt!Identify
    PROVE  AttemptInv'
<1>0. AttemptTypes /\ SkipInv /\ Attempt!NoDowngrade
  BY DEF AttemptInv
<1>1. UNCHANGED <<setup, toClient, toServer>>
  BY DEF Attempt!ServerGivesUp, Attempt!ClientGivesUp, Attempt!Identify
<1>2. /\ server' \in Servers /\ client' \in Clients
      /\ server'.skip = server.skip /\ server'.scheme = server.scheme
      /\ client'.skip = client.skip /\ client'.scheme = client.scheme
      /\ server'.pc = server.pc \/ server'.pc = "failed"
      /\ \/ client'.pc = client.pc
         \/ client'.pc = "failed" /\ server.pc = "failed" /\ server'.pc = "failed"
  <2>1. CASE Attempt!ServerGivesUp
    <3>1. server' = [server EXCEPT !.pc = "failed"] /\ client' = client
      BY <2>1 DEF Attempt!ServerGivesUp
    <3> QED
      BY <1>0, <3>1 DEF AttemptTypes, Servers
  <2>2. CASE Attempt!ClientGivesUp
    <3>1. client' = [client EXCEPT !.pc = "failed"] /\ server' = server /\ server.pc = "failed"
      BY <2>2 DEF Attempt!ClientGivesUp
    <3> QED
      BY <1>0, <3>1 DEF AttemptTypes, Clients
  <2>3. CASE Attempt!Identify
    BY <1>0, <2>3 DEF Attempt!Identify, AttemptTypes
  <2> QED
    BY <2>1, <2>2, <2>3
<1>3. AttemptTypes'
  BY <1>0, <1>1, <1>2 DEF AttemptTypes
<1>4. SkipInv'
  BY <1>0, <1>1, <1>2 DEF SkipInv
<1>5. Attempt!NoDowngrade'
  BY <1>0, <1>1, <1>2 DEF Attempt!NoDowngrade
<1> QED
  BY <1>3, <1>4, <1>5 DEF AttemptInv

\* handshake.py, _do_client_handshake, against bridge.py, _handle_connection: in every
\* mix of versions, transports and settings, two 0.9 nodes never end with a legacy
\* signature, and the ends agree on whether stage 1 was skipped, whichever way the
\* race with the link's identify proof went.
THEOREM HandshakeSafety == Attempt!Spec => []NoDowngrade
<1>1. AttemptInv /\ [Attempt!Next]_Attempt!hsVars => AttemptInv'
  <2>1. ASSUME AttemptInv, UNCHANGED Attempt!hsVars PROVE AttemptInv'
    BY <2>1 DEF Attempt!hsVars, AttemptInv, AttemptTypes, SkipInv, Attempt!NoDowngrade
  <2> QED
    BY <2>1, ServerFirstStep, ServerProofStep, ServerHelloStep, ClientFirstStep, ClientVerifiedStep,
       ClientHelloStep, GiveUpStep DEF Attempt!Next, Attempt!Step
<1>2. AttemptInv => NoDowngrade
  BY DEF NoDowngrade, AttemptInv, SkipInv, Attempt!SkipAgreed
<1> QED
  BY <1>1, <1>2, AttemptInit, PTL DEF Attempt!Spec
=============================================================================
