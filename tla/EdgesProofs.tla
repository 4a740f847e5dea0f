---------------------------- MODULE EdgesProofs ----------------------------
(* What stands between the daemon and the world, for every value of the        *)
(* constants: theorems about Bridges and MCEdges' instances of Lifecycle,      *)
(* Resolver, McpServer and A2AGateway.                                         *)
EXTENDS MCEdges, FiniteSetTheorems, TLAPS

(* What each gateway makes of the mark sequences it lets through.               *)
LEMMA FederationMarks ==
    ASSUME NEW s, MeshMarks(s), s = << >> \/ Head(s) # FED
    PROVE  MeshMarks(<<FED>> \o s)
<1>0. Len(s) # 2
  <2>1. SUFFICES ASSUME Len(s) = 2 PROVE FALSE
    OBVIOUS
  <2>2. Head(s) = FED
    BY <2>1 DEF MeshMarks
  <2>3. s # << >>
    BY <2>1
  <2> QED
    BY <2>2, <2>3
<1>1. s \in Seq(Marks) /\ Len(s) <= 1
  <2>1. s \in Seq(Marks) /\ Len(s) <= 2
    BY DEF MeshMarks
  <2>2. Len(s) \in Nat
    BY <2>1
  <2>3. \A n \in Nat : n <= 2 /\ n # 2 => n <= 1
    OBVIOUS
  <2> QED
    BY <1>0, <2>1, <2>2, <2>3
<1>2. <<FED>> \in Seq(Marks) /\ Len(<<FED>>) = 1 /\ <<FED>>[1] = FED
  BY DEF Marks
<1> QED
  BY <1>1, <1>2 DEF MeshMarks

LEMMA InboundMarks ==
    ASSUME NEW s, LxmfMarks(s), s = << >> \/ Head(s) # IM
    PROVE  MeshMarks(<<LXMF>> \o s)
<1>1. s = << >>
  BY DEF LxmfMarks
<1>2. <<LXMF>> \in Seq(Marks) /\ Len(<<LXMF>>) = 1 /\ <<LXMF>>[1] = LXMF
  BY DEF Marks
<1> QED
  BY <1>1, <1>2 DEF MeshMarks

LEMMA OutboundMarks ==
    ASSUME NEW s, MeshMarks(s)
    PROVE  LxmfMarks(<<IM>> \o s)
<1>1. <<IM>> \in Seq(Marks) /\ Len(<<IM>>) = 1 /\ <<IM>>[1] = IM
  BY DEF Marks
<1> QED
  BY <1>1 DEF MeshMarks, LxmfMarks

LEMMA NoMarks == MeshMarks(<< >>) /\ LxmfMarks(<< >>) /\ LxmfMarks(<<IM>>)
  BY DEF MeshMarks, LxmfMarks, Marks

Typed == \A m \in flight : m.net \in Mesh \cup {Lxmf}
IInv == Typed /\ MarksPossible

LEMMA StepKeeps ==
    ASSUME IInv, [Next]_bridgeVars, Home \in [Listener -> Mesh]
    PROVE  IInv'
<1>1. CASE UNCHANGED bridgeVars
  BY <1>1 DEF IInv, Typed, MarksPossible, bridgeVars
<1>2. ASSUME NEW net \in Mesh \cup {Lxmf}, NEW u, NEW to, Write(net, u, to) PROVE IInv'
  BY <1>2, NoMarks DEF IInv, Typed, MarksPossible, Write
<1>3. ASSUME NEW l, NEW to, Publish(l, to) PROVE IInv'
  BY <1>3, NoMarks DEF IInv, Typed, MarksPossible, Publish, Lxmf
<1>4. ASSUME NEW m \in flight, NEW g, Forward(g, m) PROVE IInv'
  <2>1. PICK carried : flight' = (flight \ {m}) \cup ForwardedFed(g, m, carried)
    BY <1>4 DEF Forward
  <2>2. m.net \in Mesh /\ MeshMarks(m.marks)
    BY <1>4 DEF Forward, IInv, MarksPossible, Mesh, Lxmf
  <2>3. ~StartsWith(m, FED) => MeshMarks(<<FED>> \o m.marks)
    BY <2>2, FederationMarks DEF StartsWith
  <2>4. \A n \in ForwardedFed(g, m, carried) : n.net \in Mesh /\ MeshMarks(n.marks)
    <3>1. CASE StartsWith(m, FED)
      BY <3>1 DEF ForwardedFed
    <3>2. CASE ~StartsWith(m, FED)
      <4>1. SUFFICES ASSUME NEW n \in ForwardedFed(g, m, carried)
                     PROVE  n.net \in Mesh /\ MeshMarks(n.marks)
        OBVIOUS
      <4>2. n.net = Other(m.net) /\ n.marks = <<FED>> \o m.marks
        BY <3>2, <4>1 DEF ForwardedFed
      <4> QED
        BY <2>3, <3>2, <4>2 DEF Other, Mesh
    <3> QED
      BY <3>1, <3>2
  <2> QED
    BY <2>1, <2>4 DEF IInv, Typed, MarksPossible, Mesh, Lxmf
<1>5. ASSUME NEW m \in flight, NEW l \in Listener, OnLxmfMessage(l, m) PROVE IInv'
  <2>1. PICK out \in {{}, InboundFrom(l, m)} : flight' = (flight \ {m}) \cup out
    BY <1>5 DEF OnLxmfMessage
  <2>2. LxmfMarks(m.marks)
    BY <1>5 DEF OnLxmfMessage, IInv, MarksPossible
  <2>3. ~StartsWith(m, IM) => MeshMarks(<<LXMF>> \o m.marks)
    BY <2>2, InboundMarks DEF StartsWith
  <2>4. \A n \in InboundFrom(l, m) : n.net \in Mesh /\ MeshMarks(n.marks)
    <3>1. CASE StartsWith(m, IM)
      BY <3>1 DEF InboundFrom
    <3>2. CASE ~StartsWith(m, IM)
      <4>1. SUFFICES ASSUME NEW n \in InboundFrom(l, m)
                     PROVE  n.net \in Mesh /\ MeshMarks(n.marks)
        OBVIOUS
      <4>2. n.net = Home[l] /\ n.marks = <<LXMF>> \o m.marks
        BY <3>2, <4>1 DEF InboundFrom
      <4> QED
        BY <2>3, <3>2, <4>2
    <3> QED
      BY <3>1, <3>2
  <2> QED
    BY <2>1, <2>4 DEF IInv, Typed, MarksPossible, Mesh, Lxmf
<1>6. ASSUME NEW m \in flight, NEW l \in Listener, OnIronmeshMessage(l, m) PROVE IInv'
  <2>1. MeshMarks(m.marks)
    BY <1>6 DEF OnIronmeshMessage, IInv, MarksPossible, Mesh, Lxmf
  <2>2. ~StartsWith(m, LXMF) => LxmfMarks(<<IM>> \o m.marks)
    BY <2>1, OutboundMarks DEF StartsWith
  <2>3. \A dest : \A n \in OutboundTo(l, m, dest) : n.net = Lxmf /\ LxmfMarks(n.marks)
    <3>1. CASE StartsWith(m, LXMF)
      BY <3>1 DEF OutboundTo
    <3>2. CASE ~StartsWith(m, LXMF)
      <4>1. SUFFICES ASSUME NEW dest, NEW n \in OutboundTo(l, m, dest)
                     PROVE  n.net = Lxmf /\ LxmfMarks(n.marks)
        OBVIOUS
      <4>2. n.net = Lxmf /\ n.marks = <<IM>> \o m.marks
        BY <3>2, <4>1 DEF OutboundTo
      <4> QED
        BY <2>2, <3>2, <4>2
    <3> QED
      BY <3>1, <3>2
  <2>4. PICK dest : flight' \subseteq flight \cup OutboundTo(l, m, dest)
    BY <1>6 DEF OnIronmeshMessage
  <2> QED
    BY <2>3, <2>4 DEF IInv, Typed, MarksPossible
<1>7. ASSUME NEW m \in flight, Read(m) PROVE IInv'
  BY <1>7 DEF IInv, Typed, MarksPossible, Read
<1> QED
  BY <1>1, <1>2, <1>3, <1>4, <1>5, <1>6, <1>7 DEF Next, Handle

(* CarriedAtMostThrice for every choice of gateways, policies and routes: no   *)
(* arrangement of gateways makes a text go round.                              *)
THEOREM NoRoundTrips == ASSUME Home \in [Listener -> Mesh] PROVE Spec => []CarriedAtMostThrice
<1>1. Init => IInv
  BY DEF Init, IInv, Typed, MarksPossible
<1>2. IInv /\ [Next]_bridgeVars => IInv'
  BY StepKeeps
<1>3. IInv => CarriedAtMostThrice
  BY DEF IInv, MarksPossible, MeshMarks, LxmfMarks, CarriedAtMostThrice
<1> QED
  BY <1>1, <1>2, <1>3, PTL DEF Spec

----------------------------------------------------------------------------
(* Lifecycle                                                                   *)

(* One instance, started once; a second signal is the subject of the run       *)
(* "double_signal".                                                            *)
OneStop == MaxSignals = 1 /\ MaxStarts = 1

AllDone == \A t \in Loop : bg[t] = "done"

(* What each stage of a shutdown has left behind.                              *)
StopInv ==
    /\ signals \in Nat /\ starts \in Nat /\ DOMAIN bg = Loop
    /\ loop \in {"none", "running", "closed"}
    /\ pc \in {"none", "gather", "teardown", "done"}
    /\ loop = "none" => pc = "none" /\ store = "closed" /\ starts = 0 /\ opened = FALSE
    /\ loop # "none" => starts >= 1
    /\ loop = "running" /\ pc = "none" => latch = FALSE
    /\ loop = "running" /\ pc # "none" => latch = TRUE /\ (mode = "daemon" => signals >= 1)
    /\ loop = "running" /\ mode = "agent" /\ stopper = "none" => pc = "none"
    /\ loop = "running" /\ pc \in {"none", "gather"} => store = "open" /\ up = Daemon!Resources
    /\ loop = "running" /\ pc = "teardown" => store = "open" /\ AllDone
    /\ loop = "running" /\ pc = "done" => store = "closed" /\ AllDone
    /\ loop = "closed" => store = "closed" /\ AllDone

LEMMA StopStep == ASSUME OneStop, StopInv, [Daemon!Next]_Daemon!lifeVars PROVE StopInv'
<1> USE DEF StopInv, AllDone
<1>1. CASE Daemon!Start
  BY <1>1 DEF OneStop, Daemon!Start, Daemon!OpenStore
<1>2. CASE Daemon!Gathered
  BY <1>2 DEF Daemon!Gathered
<1>3. CASE Daemon!TakeDown \/ Daemon!CloseStore \/ Daemon!StopLoop
  BY <1>3 DEF Daemon!TakeDown, Daemon!CloseStore, Daemon!StopLoop
<1>4. CASE Daemon!Signal
  BY <1>4 DEF OneStop, Daemon!Signal, Daemon!Begin
<1>5. CASE Daemon!AgentStop
  BY <1>5 DEF Daemon!AgentStop, Daemon!Begin
<1>6. CASE Daemon!Drain
  BY <1>6 DEF Daemon!Drain
<1>7. ASSUME NEW t \in Loop, Daemon!LoopEnds(t) PROVE StopInv'
  BY <1>7 DEF Daemon!LoopEnds
<1>8. CASE UNCHANGED Daemon!lifeVars
  BY <1>8 DEF Daemon!lifeVars
<1> QED
  BY <1>1, <1>2, <1>3, <1>4, <1>5, <1>6, <1>7, <1>8 DEF Daemon!Next

(* bridge.py, shutdown ("Cancel the long-lived background loops BEFORE tearing  *)
(* down the DB / transports they touch"), and agent.py, stop: for any           *)
(* background loops, in the foreground and driven by an Agent, none is alive    *)
(* once anything it uses is down, and the event loop ends with the store closed.*)
THEOREM StopsCleanly == ASSUME OneStop PROVE Daemon!Spec => []CleanExit
<1>1. Daemon!Init => StopInv
  BY DEF Daemon!Init, StopInv, AllDone
<1>2. StopInv /\ [Daemon!Next]_Daemon!lifeVars => StopInv'
  BY StopStep
<1>3. StopInv => CleanExit
  BY DEF CleanExit, StopInv, AllDone, Daemon!CleanExit
<1> QED
  BY <1>1, <1>2, <1>3, PTL DEF Daemon!Spec

----------------------------------------------------------------------------
(* Resolver                                                                    *)

(* Agent names are the peers' own: with shared names a call may reach a peer   *)
(* that advertised nothing.                                                    *)
NamesDiffer ==
    /\ \A p, q \in Peer : NameOf[p] = NameOf[q] => p = q
    /\ NoPeer \notin Peer /\ Capability # {}

Candidate == Peer \X Capability
Stages == {"idle", "try", "link", "send", "ok", "error"}
Calls == [pc : Stages, strategy : Names!Strategy, todo : SUBSET Candidate, best : SUBSET Candidate,
          to : Peer \cup {NoPeer}, tier : 0..2, matched : SUBSET Peer, oks : Nat, gaveUp : BOOLEAN]

TableTypes ==
    /\ online \subseteq peers /\ peers \subseteq Peer /\ discovered \subseteq Peer
    /\ caps \subseteq Candidate

(* The candidates of a call, and the peer it is about to send to, are among    *)
(* those it matched.                                                           *)
Fitting(c) ==
    /\ c \in Calls /\ c.best \subseteq c.todo
    /\ \A x \in c.todo : x[1] \in c.matched
    /\ c.pc \in {"link", "send"} => c.to \in c.matched
    /\ c.pc = "link" => c.tier = 2

(* Outside a fan-out: the sends to peers that were evicted meanwhile count for  *)
(* nothing, and the first other one ends the call.                              *)
Spent(s, n) == \A i \in 1..n : s[i] \in evicted
Counted(c, s) ==
    /\ c.pc \in {"idle", "try", "link", "send"} => c.oks = 0
    /\ c.pc = "ok" => Len(s) > 0 /\ Spent(s, Len(s) - 1)
    /\ c.pc # "ok" => Spent(s, Len(s))

ResolveInv ==
    /\ TableTypes /\ Fitting(call)
    /\ sent \in Seq(Peer) /\ evicted \subseteq Peer
    /\ \A i \in 1..Len(sent) : sent[i] \in call.matched
    /\ call.pc = "idle" => sent = << >>
    /\ call.strategy # "all" => Counted(call, sent)
    /\ call.pc = "send" /\ call.tier = 1 => call.to \in peers \cup evicted

LEMMA NoCallYet ==
    /\ Names!NoCall \in Calls /\ Names!NoCall.pc = "idle" /\ Names!NoCall.oks = 0
    /\ Names!NoCall.todo = {} /\ Names!NoCall.best = {}
  BY DEF Names!NoCall, Calls, Stages, Names!Strategy

LEMMA ResolveInit == ASSUME NamesDiffer PROVE Names!Init => ResolveInv
<1> SUFFICES ASSUME Names!Init PROVE ResolveInv
  OBVIOUS
<1>1. call = Names!NoCall
  BY DEF Names!Init
<1>2. Fitting(call)
  BY <1>1, NoCallYet DEF Fitting
<1>3. TableTypes /\ sent \in Seq(Peer) /\ Len(sent) = 0 /\ sent = << >> /\ evicted = {}
  BY DEF Names!Init, TableTypes
<1>4. Counted(call, sent)
  BY <1>1, <1>3, NoCallYet DEF Counted, Spent
<1>5. \A i \in 1..Len(sent) : sent[i] \in call.matched
  BY <1>3
<1> QED
  BY <1>1, <1>2, <1>3, <1>4, <1>5, NoCallYet DEF ResolveInv

(* A call begins with what the registry matched.                               *)
LEMMA ResolveBegins ==
    ASSUME NamesDiffer, ResolveInv, call.pc = "idle", Fitting(call'), call'.pc \in {"try", "error"},
           call'.oks = 0, UNCHANGED <<peers, online, discovered, caps, sent, evicted>>
    PROVE  ResolveInv'
<1>1. sent = << >> /\ Len(sent) = 0
  BY DEF ResolveInv
<1>2. Counted(call', sent)
  BY <1>1 DEF Counted, Spent
<1>3. Counted(call, sent)' /\ \A i \in 1..Len(sent') : sent'[i] \in call'.matched
  BY <1>1, <1>2 DEF Counted, Spent
<1> QED
  BY <1>1, <1>3 DEF ResolveInv, TableTypes

LEMMA BeginStep ==
    ASSUME NamesDiffer, ResolveInv, NEW s \in Names!Strategy \ {"name"}, Names!Begin(s)
    PROVE  ResolveInv'
<1>1. /\ call.pc = "idle" /\ UNCHANGED <<peers, online, discovered, caps, sent, evicted>>
      /\ call' = [Names!NoCall EXCEPT !.pc = IF caps = {} THEN "error" ELSE "try", !.strategy = s,
                    !.todo = caps, !.best = Names!Best(s), !.matched = {c[1] : c \in caps}]
  BY DEF Names!Begin, Names!tableVars
<1>2. Names!Best(s) \subseteq caps /\ caps \subseteq Candidate /\ {c[1] : c \in caps} \subseteq Peer
  BY DEF Names!Best, ResolveInv, TableTypes, Candidate
<1>3. /\ call'.pc \in {"try", "error"} /\ call'.oks = 0 /\ call'.todo = caps
      /\ call'.best = Names!Best(s) /\ call'.matched = {c[1] : c \in caps}
  BY <1>1, NoCallYet DEF Calls
<1>3a. call' \in Calls
  BY <1>1, <1>2, NoCallYet DEF Calls, Stages
<1>4. \A x \in caps : x[1] \in {c[1] : c \in caps}
  OBVIOUS
<1>5. Fitting(call')
  BY <1>2, <1>3, <1>3a, <1>4 DEF Fitting
<1> QED
  BY <1>1, <1>3, <1>5, ResolveBegins

LEMMA BeginNameStep ==
    ASSUME NamesDiffer, ResolveInv, NEW p \in Peer, Names!BeginName(p)
    PROVE  ResolveInv'
<1> DEFINE k == CHOOSE c \in Capability : TRUE
<1>0. k \in Capability
  BY DEF NamesDiffer
<1>1. /\ call.pc = "idle" /\ UNCHANGED <<peers, online, discovered, caps, sent, evicted>>
      /\ call' = [Names!NoCall EXCEPT !.pc = "try", !.strategy = "name", !.todo = {<<p, k>>},
                    !.matched = {q \in Peer : NameOf[q] = NameOf[p]}]
  BY DEF Names!BeginName, Names!tableVars
<1> HIDE DEF k
<1>2. <<p, k>> \in Candidate
  BY <1>0 DEF Candidate
<1>3. /\ call'.pc = "try" /\ call'.oks = 0 /\ call'.todo = {<<p, k>>} /\ call'.best = {}
      /\ call'.matched = {q \in Peer : NameOf[q] = NameOf[p]}
  BY <1>1, NoCallYet DEF Calls
<1>4. call' \in Calls
  BY <1>1, <1>2, NoCallYet DEF Calls, Stages, Names!Strategy
<1>5. Fitting(call')
  BY <1>3, <1>4 DEF Fitting
<1> QED
  BY <1>1, <1>3, <1>5, ResolveBegins

(* A call that moves to another stage.                                          *)
Moves(c, s, q, t) == [c EXCEPT !.pc = s, !.to = q, !.tier = t]

LEMMA CallMoves ==
    ASSUME NEW c \in Calls, NEW s \in Stages, NEW q \in Peer \cup {NoPeer}, NEW t \in 0..2
    PROVE  /\ Moves(c, s, q, t) \in Calls /\ Moves(c, s, q, t).pc = s
           /\ Moves(c, s, q, t).to = q /\ Moves(c, s, q, t).tier = t
           /\ Moves(c, s, q, t).strategy = c.strategy /\ Moves(c, s, q, t).matched = c.matched
           /\ Moves(c, s, q, t).oks = c.oks /\ Moves(c, s, q, t).todo = c.todo
           /\ Moves(c, s, q, t).best = c.best
<1> DEFINE d == Moves(c, s, q, t)
<1>1. d.pc = s /\ d.to = q /\ d.tier = t
  BY DEF Calls, Moves
<1>2. /\ d.strategy = c.strategy /\ d.matched = c.matched /\ d.oks = c.oks
      /\ d.todo = c.todo /\ d.best = c.best
  BY DEF Calls, Moves
<1>3. d \in Calls
  BY DEF Calls, Moves
<1> QED
  BY <1>1, <1>2, <1>3

(* What is left of a call when a candidate is done with.                        *)
LEMMA AfterFits ==
    ASSUME NEW c \in Calls, c.best \subseteq c.todo, \A x \in c.todo : x[1] \in c.matched
    PROVE  /\ Fitting(Names!After(c))
           /\ Names!After(c).strategy = c.strategy /\ Names!After(c).matched = c.matched
           /\ Names!After(c).oks = c.oks /\ Names!After(c).pc \in {"try", "ok", "error"}
           /\ Names!After(c).pc = "ok" => c.oks > 0
<1> DEFINE d(s) == Moves(c, s, NoPeer, 0)
<1>1. ASSUME NEW s \in {"try", "ok", "error"}
      PROVE  /\ d(s) \in Calls /\ d(s).pc = s /\ d(s).strategy = c.strategy /\ d(s).matched = c.matched
             /\ d(s).oks = c.oks /\ d(s).todo = c.todo /\ d(s).best = c.best
  <2>1. s \in Stages /\ 0 \in 0..2 /\ NoPeer \in Peer \cup {NoPeer}
    BY DEF Stages
  <2> QED
    BY <2>1, CallMoves
<1>2. Names!After(c) = d("try") \/ (Names!After(c) = d("ok") /\ c.oks > 0) \/ Names!After(c) = d("error")
  BY DEF Names!After, Moves
<1> HIDE DEF d
<1> QED
  BY <1>1, <1>2 DEF Fitting

(* A call goes on without a send.                                              *)
LEMMA ResolveGoesOn ==
    ASSUME ResolveInv, call.pc \in {"try", "link"}, Fitting(call'),
           call'.strategy = call.strategy, call'.matched = call.matched, call'.oks = call.oks,
           call'.pc # "idle", call'.pc = "ok" => call.oks > 0,
           call'.pc = "send" /\ call'.tier = 1 => call'.to \in peers,
           UNCHANGED <<peers, online, discovered, caps, sent, evicted>>
    PROVE  ResolveInv'
<1>1. call.strategy # "all" => Counted(call, sent)'
  <2> SUFFICES ASSUME call.strategy # "all" PROVE Counted(call, sent)'
    OBVIOUS
  <2>1. call.oks = 0 /\ Spent(sent, Len(sent)) /\ call'.pc # "ok"
    BY DEF ResolveInv, Counted
  <2>2. Spent(sent, Len(sent))'
    BY <2>1 DEF Spent
  <2> QED
    BY <2>1, <2>2 DEF Counted
<1> QED
  BY <1>1 DEF ResolveInv, TableTypes

LEMMA TryStep ==
    ASSUME NamesDiffer, ResolveInv, NEW c \in Candidate, Names!Try(c)
    PROVE  ResolveInv'
<1> DEFINE left == [call EXCEPT !.todo = @ \ {c}, !.best = @ \ {c}]
           On1(q) == Moves(left, "send", q, 1)
           On2(q) == Moves(left, "link", q, 2)
<1>0. Fitting(call) /\ call \in Calls /\ TableTypes
  BY DEF ResolveInv, Fitting
<1>1. /\ call.pc = "try" /\ c \in Names!Ahead
      /\ UNCHANGED <<peers, online, discovered, caps, sent, evicted>>
      /\ \/ \E q \in Names!Named(c[1], online) : call' = On1(q)
         \/ \E q \in Names!Named(c[1], discovered) : call' = On2(q)
         \/ call' = Names!After(left)
  BY DEF Names!Try, Names!tableVars, Moves
<1>2. /\ left \in Calls /\ left.todo = call.todo \ {c} /\ left.best = call.best \ {c}
      /\ left.strategy = call.strategy /\ left.matched = call.matched /\ left.oks = call.oks
  BY <1>0 DEF Calls
<1> HIDE DEF left
<1>3. left.best \subseteq left.todo /\ \A x \in left.todo : x[1] \in left.matched
  BY <1>0, <1>2 DEF Fitting
<1>4. c[1] \in call.matched
  BY <1>0, <1>1 DEF Fitting, Names!Ahead
<1>5. ASSUME NEW set \in SUBSET Peer, NEW q \in Names!Named(c[1], set) PROVE q = c[1] /\ q \in Peer /\ q \in set
  BY <1>5 DEF Names!Named, NamesDiffer, Candidate
<1>6. CASE \E q \in Names!Named(c[1], online) : call' = On1(q)
  <2>1. PICK q \in Names!Named(c[1], online) : call' = On1(q)
    BY <1>6
  <2>2. q = c[1] /\ q \in Peer /\ q \in peers
    BY <1>0, <1>5, <2>1 DEF TableTypes
  <2>3. /\ call' \in Calls /\ call'.pc = "send" /\ call'.to = q
        /\ call'.todo = left.todo /\ call'.best = left.best /\ call'.matched = left.matched
        /\ call'.strategy = left.strategy /\ call'.oks = left.oks
    <3>1. "send" \in Stages /\ 1 \in 0..2 /\ q \in Peer \cup {NoPeer}
      BY <2>2 DEF Stages
    <3> QED
      BY <1>2, <2>1, <3>1, CallMoves
  <2>4. Fitting(call')
    BY <1>2, <1>3, <1>4, <2>2, <2>3 DEF Fitting
  <2> QED
    BY <1>1, <1>2, <2>2, <2>3, <2>4, ResolveGoesOn
<1>7. CASE \E q \in Names!Named(c[1], discovered) : call' = On2(q)
  <2>1. PICK q \in Names!Named(c[1], discovered) : call' = On2(q)
    BY <1>7
  <2>2. q = c[1] /\ q \in Peer
    BY <1>0, <1>5, <2>1 DEF TableTypes
  <2>3. /\ call' \in Calls /\ call'.pc = "link" /\ call'.to = q /\ call'.tier = 2
        /\ call'.todo = left.todo /\ call'.best = left.best /\ call'.matched = left.matched
        /\ call'.strategy = left.strategy /\ call'.oks = left.oks
    <3>1. "link" \in Stages /\ 2 \in 0..2 /\ q \in Peer \cup {NoPeer}
      BY <2>2 DEF Stages
    <3> QED
      BY <1>2, <2>1, <3>1, CallMoves
  <2>4. Fitting(call')
    BY <1>2, <1>3, <1>4, <2>2, <2>3 DEF Fitting
  <2> QED
    BY <1>1, <1>2, <2>3, <2>4, ResolveGoesOn
<1>8. CASE call' = Names!After(left)
  BY <1>1, <1>2, <1>3, <1>8, AfterFits, ResolveGoesOn
<1> QED
  BY <1>1, <1>6, <1>7, <1>8

LEMMA LinkStep ==
    ASSUME ResolveInv, Names!Linked \/ Names!LinkTimeout
    PROVE  ResolveInv'
<1>0. Fitting(call) /\ call \in Calls
  BY DEF ResolveInv, Fitting
<1>1. call.pc = "link" /\ UNCHANGED <<peers, online, discovered, caps, sent, evicted>>
  BY DEF Names!Linked, Names!LinkTimeout, Names!tableVars
<1>2. CASE call' = [call EXCEPT !.pc = "send"]
  <2>1. /\ call' \in Calls /\ call'.pc = "send" /\ call'.to = call.to /\ call'.tier = call.tier
        /\ call'.todo = call.todo /\ call'.best = call.best /\ call'.matched = call.matched
        /\ call'.strategy = call.strategy /\ call'.oks = call.oks
    BY <1>0, <1>2 DEF Calls, Stages
  <2>2. Fitting(call') /\ call'.tier = 2
    BY <1>0, <1>1, <2>1 DEF Fitting
  <2> QED
    BY <1>1, <2>1, <2>2, ResolveGoesOn
<1>3. CASE call' = Names!After(call)
  <2>1. call.best \subseteq call.todo /\ \A x \in call.todo : x[1] \in call.matched
    BY <1>0 DEF Fitting
  <2> QED
    BY <1>0, <1>1, <1>3, <2>1, AfterFits, ResolveGoesOn
<1> QED
  BY <1>2, <1>3 DEF Names!Linked, Names!LinkTimeout

(* The send: tier 1 looks the peer up again, and finds it or it was evicted.    *)
LEMMA SentStep ==
    ASSUME NamesDiffer, ResolveInv, Names!Sent
    PROVE  ResolveInv'
<1> DEFINE fails == call.tier = 1 /\ call.to \notin peers
           counted == [call EXCEPT !.oks = IF fails THEN @ ELSE @ + 1]
           over == Moves(counted, "ok", NoPeer, 0)
<1>0. Fitting(call) /\ call \in Calls
  BY DEF ResolveInv, Fitting
<1>1. /\ call.pc = "send" /\ sent' = Append(sent, call.to)
      /\ UNCHANGED <<peers, online, discovered, caps, evicted>>
      /\ call' = IF fails \/ call.strategy = "all" THEN Names!After(counted) ELSE over
  BY DEF Names!Sent, Names!tableVars, Moves
<1>2. call.to \in call.matched /\ call.to \in Peer
  BY <1>0, <1>1 DEF Fitting, Calls
<1>3. /\ counted \in Calls /\ counted.todo = call.todo /\ counted.best = call.best
      /\ counted.strategy = call.strategy /\ counted.matched = call.matched
  BY <1>0 DEF Calls
<1>4. /\ over \in Calls /\ over.pc = "ok" /\ over.todo = call.todo /\ over.best = call.best
      /\ over.strategy = call.strategy /\ over.matched = call.matched
  <2>1. "ok" \in Stages /\ 0 \in 0..2 /\ NoPeer \in Peer \cup {NoPeer}
    BY DEF Stages
  <2> HIDE DEF counted
  <2> QED
    BY <1>3, <2>1, CallMoves
<1>5. /\ fails => call.to \in evicted
      /\ fails => counted.oks = call.oks
  BY <1>0, <1>1 DEF ResolveInv, Calls
<1> HIDE DEF fails, counted, over
<1>6. counted.best \subseteq counted.todo /\ \A x \in counted.todo : x[1] \in counted.matched
  BY <1>0, <1>3 DEF Fitting
<1>7. /\ Fitting(call') /\ call'.strategy = call.strategy /\ call'.matched = call.matched
      /\ call'.pc \in {"try", "ok", "error"}
  <2>1. CASE call' = Names!After(counted)
    BY <1>3, <1>6, <2>1, AfterFits
  <2>2. CASE call' = over
    BY <1>0, <1>4, <2>2 DEF Fitting
  <2> QED
    BY <1>1, <2>1, <2>2
<1>8. /\ sent' \in Seq(Peer) /\ Len(sent) \in Nat /\ Len(sent') = Len(sent) + 1
      /\ \A i \in 1..Len(sent) : sent'[i] = sent[i]
      /\ sent'[Len(sent')] = call.to
      /\ \A i \in 1..Len(sent') : sent'[i] \in call.matched
  BY <1>1, <1>2 DEF ResolveInv
<1>9. call.strategy # "all" => Counted(call, sent)'
  <2> SUFFICES ASSUME call.strategy # "all" PROVE Counted(call, sent)'
    OBVIOUS
  <2>1. call.oks = 0 /\ \A i \in 1..Len(sent) : sent[i] \in evicted
    BY <1>1 DEF ResolveInv, Counted, Spent
  <2>2. \A i \in 1..Len(sent') - 1 : sent'[i] \in evicted'
    BY <1>1, <1>8, <2>1
  <2>3. CASE fails
    <3>1. call' = Names!After(counted) /\ counted.oks = 0
      BY <1>1, <1>5, <2>1, <2>3
    <3>2. call'.oks = 0 /\ call'.pc # "ok"
      BY <1>3, <1>6, <3>1, AfterFits
    <3>3. \A i \in 1..Len(sent') : sent'[i] \in evicted'
      BY <1>1, <1>5, <1>8, <2>2, <2>3
    <3> QED
      BY <3>2, <3>3 DEF Counted, Spent
  <2>4. CASE ~fails
    <3>1. call'.pc = "ok"
      BY <1>1, <1>4, <2>4
    <3> QED
      BY <1>8, <2>2, <3>1 DEF Counted, Spent
  <2> QED
    BY <2>3, <2>4
<1>10. TableTypes' /\ evicted' \subseteq Peer
  BY <1>1 DEF ResolveInv, TableTypes
<1> QED
  BY <1>1, <1>7, <1>8, <1>9, <1>10 DEF ResolveInv

LEMMA GivesUpStep == ASSUME ResolveInv, Names!CallerGivesUp PROVE ResolveInv'
<1>0. Fitting(call) /\ call \in Calls
  BY DEF ResolveInv, Fitting
<1>1. /\ call' = [call EXCEPT !.gaveUp = TRUE]
      /\ UNCHANGED <<peers, online, discovered, caps, sent, evicted>>
  BY DEF Names!CallerGivesUp, Names!tableVars
<1>2. /\ call' \in Calls /\ call'.pc = call.pc /\ call'.to = call.to /\ call'.tier = call.tier
      /\ call'.todo = call.todo /\ call'.best = call.best /\ call'.matched = call.matched
      /\ call'.strategy = call.strategy /\ call'.oks = call.oks
  BY <1>0, <1>1 DEF Calls
<1>3. Fitting(call')
  BY <1>0, <1>2 DEF Fitting
<1>4. Counted(call, sent) => Counted(call, sent)'
  BY <1>1, <1>2 DEF Counted, Spent
<1>5. TableTypes' /\ sent' \in Seq(Peer) /\ evicted' \subseteq Peer
  BY <1>1 DEF ResolveInv, TableTypes
<1> QED
  BY <1>1, <1>2, <1>3, <1>4, <1>5 DEF ResolveInv

(* Peers come, go, are evicted, are heard of and announce.                      *)
LEMMA TableStep ==
    ASSUME ResolveInv, NEW p \in Peer,
           \/ Names!Connect(p) \/ Names!Disconnect(p) \/ Names!Evict(p) \/ Names!Discover(p)
           \/ Names!Announce(p)
    PROVE  ResolveInv'
<1>0. TableTypes /\ evicted \subseteq Peer
  BY DEF ResolveInv
<1>1. UNCHANGED <<call, sent>>
  BY DEF Names!Connect, Names!Disconnect, Names!Evict, Names!Discover, Names!Announce
<1>2. TableTypes'
  <2>1. CASE Names!Announce(p)
    <3>1. PICK cs \in SUBSET Capability : caps' = {c \in caps : c[1] # p} \cup ({p} \X cs)
      BY <2>1 DEF Names!Announce
    <3>2. caps' \subseteq Candidate
      BY <1>0, <3>1 DEF TableTypes, Candidate
    <3> QED
      BY <1>0, <2>1, <3>2 DEF TableTypes, Names!Announce
  <2>2. CASE ~Names!Announce(p)
    BY <1>0, <2>2 DEF TableTypes, Names!Connect, Names!Disconnect, Names!Evict, Names!Discover
  <2> QED
    BY <2>1, <2>2
<1>3. /\ evicted \subseteq evicted' /\ evicted' \subseteq Peer
      /\ call.pc = "send" => peers \subseteq peers' \cup evicted'
  <2>1. CASE Names!Evict(p)
    BY <1>0, <2>1 DEF Names!Evict, Names!Running
  <2>2. CASE ~Names!Evict(p)
    BY <1>0, <2>2 DEF Names!Connect, Names!Disconnect, Names!Discover, Names!Announce
  <2> QED
    BY <2>1, <2>2
<1>4. Counted(call, sent) => Counted(call, sent)'
  BY <1>1, <1>3 DEF Counted, Spent
<1> QED
  BY <1>1, <1>2, <1>3, <1>4 DEF ResolveInv

(* routing.py, send_to_name and send_to_capability: for any peers with names of *)
(* their own, any capabilities and any history of the peer table under the      *)
(* call, only peers that fit are sent to, and outside a fan-out every send but  *)
(* the last of a call that succeeds went to a peer that was evicted meanwhile.  *)
THEOREM ResolvesOnce == ASSUME NamesDiffer PROVE Names!Spec => []ResolvedOnce
<1>1. ResolveInv /\ [Names!Next]_Names!resolveVars => ResolveInv'
  <2> SUFFICES ASSUME ResolveInv, [Names!Next]_Names!resolveVars PROVE ResolveInv'
    OBVIOUS
  <2>1. CASE UNCHANGED Names!resolveVars
    BY <2>1 DEF Names!resolveVars, ResolveInv, TableTypes, Counted, Spent
  <2> QED
    BY <2>1, BeginStep, BeginNameStep, TryStep, LinkStep, SentStep, GivesUpStep, TableStep
       DEF Names!Next, Names!CallStep, Candidate
<1>2. ResolveInv => ResolvedOnce
  <2> SUFFICES ASSUME ResolveInv PROVE Names!ResolvedOnce
    BY DEF ResolvedOnce
  <2>1. ASSUME call.strategy # "all", call.pc \in {"ok", "error"}
        PROVE  /\ \A i \in 1..Len(sent) : sent[i] \in evicted \/ (call.pc = "ok" /\ i = Len(sent))
               /\ call.pc = "ok" => sent # << >>
    <3>1. Counted(call, sent) /\ Len(sent) \in Nat
      BY <2>1 DEF ResolveInv
    <3> QED
      BY <2>1, <3>1 DEF Counted, Spent
  <2> QED
    BY <2>1 DEF ResolveInv, Names!ResolvedOnce
<1> QED
  BY <1>1, <1>2, ResolveInit, PTL DEF Names!Spec

----------------------------------------------------------------------------
(* McpServer                                                                   *)

McpConstants == BufferSize \in Nat \ {0} /\ "msg" \in Kind

Event == [seq : Nat, kind : Kind]

(* The ring holds the last events, numbered without a gap; what it no longer   *)
(* holds was returned or lost.                                                 *)
RingInv ==
    /\ events \in Seq(Event) /\ eventSeq \in Nat /\ cursor \in Nat
    /\ Len(events) <= eventSeq
    /\ \A i \in 1..Len(events) : events[i].seq = eventSeq - Len(events) + i
    /\ \A n \in 1..eventSeq - Len(events) : n \in seen \cup lost

(* The slot is closed only by the peer that was asked, with its own id.         *)
Slot == [cid : Nat, peer : Peer \cup {"none"}, from : Peer \cup {"none"}, response : Nat]
Owns(s) == s \in Slot /\ (s.response # 0 => s.response = s.cid /\ s.from = s.peer)
SlotInv ==
    /\ calls \in Nat /\ Owns(slot) /\ Owns(result)
    /\ requests \subseteq [cid : Nat, peer : Peer]

McpInv == RingInv /\ SlotInv

LEMMA NoCallOwns == Owns(Mcp!NoCall) /\ Mcp!NoCall \in Slot /\ Mcp!NoCall.response = 0
  BY DEF Owns, Slot, Mcp!NoCall

LEMMA McpInit == Mcp!Init => McpInv
<1> SUFFICES ASSUME Mcp!Init PROVE McpInv
  OBVIOUS
<1>1. RingInv
  BY DEF Mcp!Init, RingInv
<1>2. SlotInv
  BY NoCallOwns DEF Mcp!Init, SlotInv
<1> QED
  BY <1>1, <1>2 DEF McpInv

(* _record_event on the full ring drops the oldest.                            *)
LEMMA RingRecords ==
    ASSUME McpConstants, RingInv, NEW k \in Kind, Mcp!Recorded(k), UNCHANGED <<cursor, seen>>
    PROVE  RingInv'
<1> DEFINE e == [seq |-> eventSeq + 1, kind |-> k]
           all == Append(events, e)
<1>1. e \in Event /\ e.seq = eventSeq + 1
  BY DEF Event, RingInv
<1>2. /\ eventSeq' = eventSeq + 1
      /\ events' = IF Len(all) > BufferSize THEN Tail(all) ELSE all
      /\ lost' = IF Len(all) > BufferSize THEN lost \cup ({Head(all).seq} \ seen) ELSE lost
  BY DEF Mcp!Recorded
<1> HIDE DEF e
<1>3. /\ all \in Seq(Event) /\ Len(all) = Len(events) + 1 /\ all[Len(events) + 1] = e
      /\ \A i \in 1..Len(events) : all[i] = events[i]
  BY <1>1 DEF RingInv
<1>4. \A i \in 1..Len(all) : all[i].seq = eventSeq - Len(events) + i
  BY <1>1, <1>3 DEF RingInv
<1> HIDE DEF all
<1>5. CASE Len(all) > BufferSize
  <2>1. events' = Tail(all) /\ lost' = lost \cup ({all[1].seq} \ seen)
    BY <1>2, <1>3, <1>5 DEF RingInv
  <2>2. events' \in Seq(Event) /\ Len(events') = Len(events) /\ \A i \in 1..Len(events') : events'[i] = all[i + 1]
    BY <1>3, <2>1 DEF RingInv
  <2>3. \A i \in 1..Len(events') : events'[i].seq = eventSeq' - Len(events') + i
    <3> SUFFICES ASSUME NEW i \in 1..Len(events) PROVE events'[i].seq = eventSeq' - Len(events) + i
      BY <2>2
    <3>1. i \in Int /\ i + 1 \in 1..Len(all) /\ Len(events) \in Nat /\ eventSeq \in Nat
      BY <1>3 DEF RingInv
    <3>2. events'[i].seq = eventSeq - Len(events) + (i + 1)
      BY <1>4, <2>2, <3>1
    <3> QED
      BY <1>2, <3>1, <3>2
  <2>4. all[1].seq = eventSeq - Len(events) + 1
    BY <1>3, <1>4 DEF RingInv
  <2>5. \A n \in 1..eventSeq' - Len(events') : n \in seen' \cup lost'
    BY <1>2, <2>1, <2>2, <2>4 DEF RingInv
  <2>6. eventSeq' \in Nat /\ cursor' \in Nat /\ Len(events') <= eventSeq'
    BY <1>2, <2>2 DEF RingInv
  <2> QED
    BY <2>2, <2>3, <2>5, <2>6 DEF RingInv
<1>6. CASE ~(Len(all) > BufferSize)
  <2>1. events' = all /\ lost' = lost
    BY <1>2, <1>6
  <2>2. eventSeq' \in Nat /\ cursor' \in Nat /\ Len(events') <= eventSeq'
    BY <1>2, <1>3, <2>1 DEF RingInv
  <2>3. eventSeq' - Len(events') = eventSeq - Len(events)
    <3>1. Len(events) \in Nat /\ eventSeq \in Nat /\ Len(events') = Len(events) + 1
      BY <1>3, <2>1 DEF RingInv
    <3> QED
      BY <1>2, <3>1
  <2>4. \A n \in 1..eventSeq' - Len(events') : n \in seen' \cup lost'
    BY <2>1, <2>3 DEF RingInv
  <2> QED
    BY <1>3, <1>4, <2>1, <2>2, <2>3, <2>4 DEF RingInv
<1> QED
  BY <1>5, <1>6

LEMMA PollKeeps ==
    ASSUME RingInv, NEW n, NEW ks, Mcp!Poll(n, ks)
    PROVE  RingInv'
<1>1. /\ UNCHANGED <<events, eventSeq, lost>> /\ seen \subseteq seen'
      /\ cursor' = cursor \/ \E i \in 1..Len(events) : cursor' = events[i].seq
  BY DEF Mcp!Poll, Mcp!Page, Mcp!Wanted
<1>2. \A i \in 1..Len(events) : events[i].seq \in Nat
  BY DEF RingInv, Event
<1> QED
  BY <1>1, <1>2 DEF RingInv

LEMMA RequestStep == ASSUME SlotInv, NEW p \in Peer, Mcp!Request(p) PROVE SlotInv'
<1>1. /\ calls' = calls + 1 /\ slot' = [Mcp!NoCall EXCEPT !.cid = calls + 1, !.peer = p]
      /\ requests' = requests \cup {[cid |-> calls + 1, peer |-> p]} /\ result' = result
  BY DEF Mcp!Request
<1>2. slot' \in Slot /\ slot'.response = 0
  <2>1. slot' = [cid |-> calls + 1, peer |-> p, from |-> "none", response |-> 0]
    BY <1>1 DEF Mcp!NoCall
  <2>2. calls + 1 \in Nat
    BY DEF SlotInv
  <2> QED
    BY <2>1, <2>2 DEF Slot
<1>3. [cid |-> calls + 1, peer |-> p] \in [cid : Nat, peer : Peer]
  BY DEF SlotInv
<1> QED
  BY <1>1, <1>2, <1>3 DEF SlotInv, Owns

LEMMA ReplyStep ==
    ASSUME SlotInv, NEW q \in requests, NEW p \in Peer, Mcp!Reply(q, p)
    PROVE  SlotInv'
<1>1. /\ requests' \subseteq requests /\ UNCHANGED <<calls, result>>
      /\ \/ slot' = slot
         \/ /\ slot.cid = q.cid /\ slot.peer = p
            /\ slot' = [slot EXCEPT !.from = p, !.response = q.cid]
  BY DEF Mcp!Reply
<1>2. slot \in Slot /\ q.cid \in Nat
  BY DEF SlotInv, Owns
<1>3. CASE slot' = slot
  BY <1>1, <1>3 DEF SlotInv
<1>4. CASE slot.cid = q.cid /\ slot.peer = p /\ slot' = [slot EXCEPT !.from = p, !.response = q.cid]
  <2>1. slot' \in Slot /\ slot'.response = slot'.cid /\ slot'.from = slot'.peer
    BY <1>2, <1>4 DEF Slot
  <2> QED
    BY <1>1, <2>1 DEF SlotInv, Owns
<1> QED
  BY <1>1, <1>3, <1>4

LEMMA ReturnsStep == ASSUME SlotInv, NEW a, Mcp!Returns(a) PROVE SlotInv'
<1>1. /\ slot' = Mcp!NoCall /\ UNCHANGED <<calls, requests>>
      /\ result' = slot \/ result' = [slot EXCEPT !.from = "none", !.response = 0]
  BY DEF Mcp!Returns
<1>2. ASSUME result' = [slot EXCEPT !.from = "none", !.response = 0] PROVE Owns(result')
  <2>1. slot \in Slot
    BY DEF SlotInv, Owns
  <2>2. result' \in Slot /\ result'.response = 0
    BY <1>2, <2>1 DEF Slot
  <2> QED
    BY <2>2 DEF Owns
<1> QED
  BY <1>1, <1>2, NoCallOwns DEF SlotInv

(* tool_subscribe_events: what is at or below the new cursor was on the page,   *)
(* or had left the ring.                                                       *)
LEMMA SameCardinality == \A S : Mcp!Cardinality(S) = Cardinality(S)
  BY Zenon DEF Mcp!Cardinality, Cardinality

LEMMA PageWhole ==
    ASSUME McpConstants, RingInv, NEW n \in 1..BufferSize, Mcp!Poll(n, Kind)
    PROVE  /\ (cursor + 1)..cursor' \subseteq seen' \cup lost
           /\ (seen' \ seen) \cap (1..cursor) = {}
<1> DEFINE W == Mcp!Wanted(Kind)
           P == Mcp!Page(n, Kind)
           UpTo(i) == {j \in W : j <= i}
<1>1. W = {i \in 1..Len(events) : events[i].seq > cursor /\ events[i].kind \in Kind}
  BY DEF Mcp!Wanted
<1>2. P = {i \in W : Cardinality(UpTo(i)) <= n}
  BY SameCardinality DEF Mcp!Page
<1>3. /\ seen' = seen \cup {events[i].seq : i \in P}
      /\ \/ P = {} /\ cursor' = cursor
         \/ \E i \in P : (\A j \in P : j <= i) /\ cursor' = events[i].seq
  BY DEF Mcp!Poll, Mcp!SeqsOf
<1> HIDE DEF W, P
<1>4. \A i \in P : events[i].seq > cursor
  BY <1>1, <1>2
<1>5. (seen' \ seen) \cap (1..cursor) = {}
  <2> SUFFICES ASSUME NEW s \in seen' \ seen, s \in 1..cursor PROVE FALSE
    OBVIOUS
  <2>1. PICK i \in P : s = events[i].seq
    BY <1>3
  <2> QED
    BY <1>4, <2>1 DEF RingInv
<1>6. ASSUME NEW s \in (cursor + 1)..cursor' PROVE s \in seen' \cup lost
  <2>0. cursor \in Nat /\ eventSeq \in Nat /\ Len(events) \in Nat /\ Len(events) <= eventSeq
    BY DEF RingInv
  <2>1. PICK m \in P : cursor' = events[m].seq
    <3>1. CASE P = {} /\ cursor' = cursor
      BY <2>0, <3>1
    <3> QED
      BY <1>3, <3>1
  <2>2. m \in W /\ m \in 1..Len(events) /\ Cardinality(UpTo(m)) <= n
    BY <1>1, <1>2
  <2>3. cursor' = eventSeq - Len(events) + m /\ s \in Nat /\ s > cursor /\ s <= cursor' /\ s >= 1
    BY <2>0, <2>1, <2>2 DEF RingInv
  <2>4. CASE s <= eventSeq - Len(events)
    <3>1. s \in seen \cup lost
      BY <2>0, <2>3, <2>4 DEF RingInv
    <3> QED
      BY <1>3, <3>1
  <2>5. CASE s > eventSeq - Len(events)
    <3> DEFINE i == s - (eventSeq - Len(events))
    <3>1. i \in 1..Len(events) /\ i <= m /\ eventSeq - Len(events) + i = s
      BY <2>0, <2>2, <2>3, <2>5
    <3> HIDE DEF i
    <3>2. events[i].seq = s /\ events[i].kind \in Kind
      <4>1. events[i] \in Event
        BY <3>1 DEF RingInv
      <4>2. events[i].seq = eventSeq - Len(events) + i
        BY <3>1 DEF RingInv
      <4> QED
        BY <3>1, <4>1, <4>2 DEF Event
    <3>3. i \in W
      BY <1>1, <2>3, <3>1, <3>2
    <3>4. Cardinality(UpTo(i)) <= n
      <4>1. IsFiniteSet(UpTo(m))
        <5>1. IsFiniteSet(1..Len(events))
          BY <2>0, FS_Interval
        <5>2. UpTo(m) \in SUBSET (1..Len(events))
          BY <1>1
        <5> QED
          BY <5>1, <5>2, FS_Subset
      <4>2. UpTo(i) \in SUBSET UpTo(m)
        <5>1. \A j \in W : j \in Int
          BY <1>1
        <5>2. i \in Int /\ m \in Int /\ i <= m
          BY <2>2, <3>1
        <5>3. ASSUME NEW j \in W, j <= i PROVE j <= m
          BY <5>1, <5>2, <5>3
        <5> QED
          BY <5>3
      <4> HIDE DEF UpTo
      <4>3. IsFiniteSet(UpTo(i)) /\ Cardinality(UpTo(i)) <= Cardinality(UpTo(m))
        BY <4>1, <4>2, FS_Subset
      <4>4. Cardinality(UpTo(i)) \in Nat /\ Cardinality(UpTo(m)) \in Nat /\ n \in Int
        BY <4>1, <4>3, FS_CardinalityType
      <4> QED
        BY <2>2, <4>3, <4>4
    <3>5. i \in P
      BY <1>2, <3>3, <3>4
    <3> QED
      BY <1>3, <3>2, <3>5
  <2> QED
    BY <2>0, <2>3, <2>4, <2>5
<1> QED
  BY <1>5, <1>6

LEMMA McpStep ==
    ASSUME McpConstants, McpInv, [Mcp!Next]_Mcp!mcpVars
    PROVE  McpInv'
<1>0. RingInv /\ SlotInv
  BY DEF McpInv
<1>1. ASSUME UNCHANGED <<events, eventSeq, cursor, seen, lost>> PROVE RingInv'
  BY <1>0, <1>1 DEF RingInv
<1>2. ASSUME UNCHANGED <<slot, calls, requests, result>> PROVE SlotInv'
  BY <1>0, <1>2 DEF SlotInv
<1>3. ASSUME NEW k \in Kind, Mcp!Record(k) PROVE McpInv'
  <2>1. Mcp!Recorded(k) /\ UNCHANGED <<cursor, seen, slot, calls, requests, result>>
    BY <1>3 DEF Mcp!Record
  <2> QED
    BY <1>0, <1>2, <2>1, RingRecords DEF McpInv
<1>4. ASSUME NEW n, NEW ks, Mcp!Poll(n, ks) PROVE McpInv'
  <2>1. UNCHANGED <<slot, calls, requests, result>>
    BY <1>4 DEF Mcp!Poll
  <2> QED
    BY <1>0, <1>2, <1>4, <2>1, PollKeeps DEF McpInv
<1>5. ASSUME NEW p \in Peer, Mcp!Request(p) PROVE McpInv'
  <2>1. UNCHANGED <<events, eventSeq, cursor, seen, lost>>
    BY <1>5 DEF Mcp!Request
  <2> QED
    BY <1>0, <1>1, <1>5, <2>1, RequestStep DEF McpInv
<1>6. ASSUME NEW q \in requests, NEW p \in Peer, Mcp!Reply(q, p) PROVE McpInv'
  <2>1. Mcp!Recorded("msg") /\ UNCHANGED <<cursor, seen>>
    BY <1>6 DEF Mcp!Reply
  <2>2. RingInv'
    BY <1>0, <2>1, RingRecords DEF McpConstants
  <2> QED
    BY <1>0, <1>6, <2>2, ReplyStep DEF McpInv
<1>7. ASSUME NEW a, Mcp!Returns(a) PROVE McpInv'
  <2>1. UNCHANGED <<events, eventSeq, cursor, seen, lost>>
    BY <1>7 DEF Mcp!Returns
  <2> QED
    BY <1>0, <1>1, <1>7, <2>1, ReturnsStep DEF McpInv
<1>8. CASE UNCHANGED Mcp!mcpVars
  BY <1>1, <1>2, <1>8 DEF Mcp!mcpVars, McpInv
<1> QED
  BY <1>3, <1>4, <1>5, <1>6, <1>7, <1>8 DEF Mcp!Next

(* ironmesh_mcp/server.py, tool_subscribe_events ("Cursor stable even after     *)
(* eviction"), tool_request_service and _on_bus_event: for any size of the ring,*)
(* page limits, kinds and peers, a client that asks for every kind skips no     *)
(* event the ring still held and gets none twice, and a call's result is the    *)
(* answer of the peer it asked to the request it made.                          *)
THEOREM CursorStable ==
    ASSUME McpConstants
    PROVE  Mcp!Spec => NothingSkipped
<1>1. McpInv /\ [Mcp!Next]_Mcp!mcpVars => McpInv'
  BY McpStep
<1>2. McpInv /\ [Mcp!Next]_Mcp!mcpVars =>
        [\A n \in 1..BufferSize : Mcp!Poll(n, Kind) =>
            /\ (cursor + 1)..cursor' \subseteq seen' \cup lost
            /\ (seen' \ seen) \cap (1..cursor) = {}]_Mcp!mcpVars
  BY PageWhole DEF McpInv
<1>3. McpInv => Mcp!ResultIsOwn
  BY DEF McpInv, SlotInv, Owns, Mcp!ResultIsOwn
<1> QED
  BY <1>1, <1>2, <1>3, McpInit, PTL DEF Mcp!Spec, NothingSkipped, Mcp!NothingSkipped

----------------------------------------------------------------------------
(* A2AGateway                                                                  *)

ThreadStages == {"new", "sending", "waiting", "leaving", "unreachable", "timeout", "answered"}
Done(c) == future[c].state = "done"
Fits(c, a) == a.state = "done" /\ (a.id = {c} \/ a = A2A!Plain(Target[c]))

(* A call with a result, or with one on its way, has left the table of futures; *)
(* its peer's entry stays only when its correlation id was named.               *)
Coming(c) == \E w \in scheduled : w[1] = c
Woken(c) == Coming(c) \/ Done(c)
Gone(c) ==
    /\ c \notin futures
    /\ c \in replyPeer =>
         /\ \A w \in scheduled : w[1] = c => w[2] = A2A!Naming(c)
         /\ Done(c) => future[c] = A2A!Naming(c)

(* A call that is given, or about to be given, a plain message of its peer.     *)
TakesPlain(c) ==
    \/ \E w \in scheduled : w[1] = c /\ w[2] = A2A!Plain(Target[c])
    \/ future[c] = A2A!Plain(Target[c])

CallTypes == /\ thread \in [Call -> ThreadStages] /\ DOMAIN future = Call /\ DOMAIN older = Call
             /\ futures \subseteq replyPeer /\ replyPeer \subseteq Call
MeantFor == /\ \A w \in scheduled : w[1] \in Call /\ Fits(w[1], w[2])
            /\ \A c \in Call : Done(c) => Fits(c, future[c])
CallsApart ==
    \A c \in Call :
        /\ thread[c] = "new" => c \notin replyPeer
        /\ Woken(c) => Gone(c) /\ thread[c] # "new"
        /\ thread[c] = "answered" => Done(c)
        /\ thread[c] \in {"unreachable", "timeout"} => c \notin replyPeer
Turns == \A c \in Call, d \in futures : TakesPlain(c) /\ Target[c] = Target[d] => c \in older[d]

CallInv == CallTypes /\ MeantFor /\ CallsApart /\ Turns

LEMMA CallInit == A2A!Init => CallInv
  BY DEF A2A!Init, A2A!Pending, A2A!Plain, CallInv, CallTypes, MeantFor, CallsApart, Turns,
         ThreadStages, Woken, Coming, Done, TakesPlain

(* A younger call comes after every call that has been woken.                  *)
LEMMA RegisterStep == ASSUME CallInv, NEW c \in Call, A2A!Register(c) PROVE CallInv'
<1>1. /\ thread[c] = "new" /\ thread' = [thread EXCEPT ![c] = "sending"]
      /\ futures' = futures \cup {c} /\ replyPeer' = replyPeer \cup {c}
      /\ older' = [older EXCEPT ![c] = {d \in Call : thread[d] # "new"}]
      /\ UNCHANGED <<future, scheduled>>
  BY DEF A2A!Register
<1>2. CallTypes' /\ MeantFor'
  BY <1>1 DEF CallInv, CallTypes, MeantFor, Fits, Done, ThreadStages
<1>3. \A d \in Call : TakesPlain(d) => Woken(d)
  BY DEF TakesPlain, Woken, Coming, Done, A2A!Plain
<1>4. CallsApart'
  BY <1>1 DEF CallInv, CallTypes, CallsApart, Woken, Coming, Done, Gone, ThreadStages
<1>5. Turns'
  <2> SUFFICES ASSUME NEW b \in Call, NEW d \in futures', TakesPlain(b), Target[b] = Target[d]
               PROVE  b \in older'[d]
    BY <1>1 DEF Turns, TakesPlain
  <2>1. CASE d = c
    BY <1>1, <1>3, <2>1 DEF CallInv, CallTypes, CallsApart
  <2>2. CASE d # c
    BY <1>1, <2>2 DEF CallInv, CallTypes, Turns
  <2> QED
    BY <2>1, <2>2
<1> QED
  BY <1>2, <1>4, <1>5 DEF CallInv

(* The other steps of a thread only move it on and take its entries away.      *)
LEMMA ThreadKeeps ==
    ASSUME CallInv, NEW c \in Call, NEW stage \in ThreadStages \ {"new"},
           thread' = [thread EXCEPT ![c] = stage], thread[c] # "new",
           UNCHANGED <<older, future, scheduled>>,
           \/ UNCHANGED <<futures, replyPeer>>
           \/ futures' = futures \ {c} /\ replyPeer' = replyPeer \ {c},
           stage = "answered" => Done(c),
           stage \in {"unreachable", "timeout"} => c \notin replyPeer'
    PROVE  CallInv'
<1>1. CallTypes' /\ MeantFor'
  BY DEF CallInv, CallTypes, MeantFor, Fits, Done
<1>2. futures' \subseteq futures /\ replyPeer' \subseteq replyPeer
  OBVIOUS
<1>3. \A d \in Call : thread'[d] = IF d = c THEN stage ELSE thread[d]
  BY DEF CallInv, CallTypes
<1>4. CallsApart'
  BY <1>2, <1>3 DEF CallInv, CallsApart, Woken, Coming, Done, Gone
<1>5. Turns'
  BY <1>2 DEF CallInv, Turns, TakesPlain
<1> QED
  BY <1>1, <1>4, <1>5 DEF CallInv

LEMMA ThreadStep ==
    ASSUME CallInv, NEW c \in Call,
           A2A!Send(c) \/ A2A!SendFails(c) \/ A2A!GiveUp(c) \/ A2A!Return(c)
    PROVE  CallInv'
<1>1. CASE A2A!Send(c)
  BY <1>1, ThreadKeeps DEF A2A!Send, ThreadStages
<1>2. CASE A2A!SendFails(c)
  BY <1>2, ThreadKeeps DEF A2A!SendFails, A2A!Forget, ThreadStages
<1>3. CASE A2A!GiveUp(c)
  BY <1>3, ThreadKeeps DEF A2A!GiveUp, A2A!Forget, ThreadStages
<1>4. CASE A2A!Return(c)
  BY <1>4, ThreadKeeps DEF A2A!Return, Done, ThreadStages
<1> QED
  BY <1>1, <1>2, <1>3, <1>4

(* Waking a call with a message that fits, once it has left the table.         *)
LEMMA WakeKeeps ==
    ASSUME CallInv, NEW c \in futures, NEW m, Fits(c, m),
           futures' = futures \ {c}, replyPeer' \subseteq replyPeer, futures' \subseteq replyPeer',
           c \in replyPeer' => m = A2A!Naming(c),
           m = A2A!Plain(Target[c]) =>
               \A d \in futures \ {c} : Target[d] = Target[c] => c \in older[d],
           scheduled' = A2A!Wake(c, m), UNCHANGED <<thread, older, future>>
    PROVE  CallInv'
<1>0. c \in Call /\ thread[c] # "new" /\ ~Woken(c)
  BY DEF CallInv, CallTypes, CallsApart, Gone
<1>1. \A w \in scheduled' : w \in scheduled \/ w = <<c, m>>
  BY DEF A2A!Wake
<1>2. CallTypes'
  BY DEF CallInv, CallTypes
<1>3. MeantFor'
  BY <1>0, <1>1 DEF CallInv, MeantFor, Fits, Done
<1>4. CallsApart'
  <2> SUFFICES ASSUME NEW d \in Call
               PROVE  /\ thread[d] = "new" => d \notin replyPeer'
                      /\ Woken(d)' => Gone(d)' /\ thread[d] # "new"
                      /\ thread[d] = "answered" => Done(d)
                      /\ thread[d] \in {"unreachable", "timeout"} => d \notin replyPeer'
    BY DEF CallsApart, Done
  <2>1. CASE d # c
    <3>1. \A w \in scheduled' : w[1] = d => w \in scheduled
      BY <1>1, <2>1
    <3>2. Woken(d)' => Woken(d)
      BY <3>1 DEF Woken, Coming, Done
    <3>3. Gone(d) => Gone(d)'
      BY <3>1 DEF Gone, Done
    <3> QED
      BY <3>2, <3>3 DEF CallInv, CallsApart
  <2>2. CASE d = c
    <3>1. \A w \in scheduled' : w[1] = c => w[2] = m
      BY <1>0, <1>1 DEF Woken, Coming
    <3>2. ~Done(c) /\ ~Done(c)'
      BY <1>0 DEF Woken, Done
    <3>3. Gone(c)'
      BY <3>1, <3>2 DEF Gone
    <3> QED
      BY <1>0, <2>2, <3>3 DEF CallInv, CallsApart
  <2> QED
    BY <2>1, <2>2
<1>5. Turns'
  <2> SUFFICES ASSUME NEW b \in Call, NEW d \in futures \ {c}, TakesPlain(b)', Target[b] = Target[d]
               PROVE  b \in older[d]
    BY DEF Turns
  <2>1. TakesPlain(b) \/ (b = c /\ m = A2A!Plain(Target[c]))
    BY <1>1 DEF TakesPlain
  <2> QED
    BY <2>1 DEF CallInv, Turns
<1> QED
  BY <1>2, <1>3, <1>4, <1>5 DEF CallInv

LEMMA CorrelatedStep == ASSUME CallInv, NEW a \in Call, A2A!Correlated(a) PROVE CallInv'
<1>1. /\ futures' = futures \ {a} /\ UNCHANGED <<thread, older, replyPeer, future>>
      /\ scheduled' = IF a \in futures THEN A2A!Wake(a, A2A!Naming(a)) ELSE scheduled
  BY DEF A2A!Correlated
<1>2. Fits(a, A2A!Naming(a)) /\ A2A!Naming(a) # A2A!Plain(Target[a])
  BY DEF Fits, A2A!Naming, A2A!Plain
<1>3. CASE a \in futures
  <2>1. futures' \subseteq replyPeer'
    BY <1>1 DEF CallInv, CallTypes
  <2> QED
    BY <1>1, <1>2, <1>3, <2>1, WakeKeeps
<1>4. CASE a \notin futures
  BY <1>1, <1>4 DEF CallInv, CallTypes, MeantFor, CallsApart, Turns, Woken, Coming, Done, Gone,
                    Fits, TakesPlain
<1> QED
  BY <1>3, <1>4

LEMMA UncorrelatedStep == ASSUME CallInv, NEW p \in Peer, A2A!Uncorrelated(p) PROVE CallInv'
<1>1. PICK c \in A2A!Candidates(p) :
        /\ \A d \in A2A!Candidates(p) \ {c} : c \in older[d]
        /\ futures' = futures \ {c} /\ replyPeer' = replyPeer \ {c}
        /\ scheduled' = A2A!Wake(c, A2A!Plain(p)) /\ UNCHANGED <<thread, older, future>>
  BY DEF A2A!Uncorrelated, A2A!Forget
<1>2. c \in futures /\ Target[c] = p
  BY DEF A2A!Candidates
<1>3. Fits(c, A2A!Plain(p))
  BY <1>2 DEF Fits, A2A!Plain
<1>4. \A d \in futures \ {c} : Target[d] = Target[c] => c \in older[d]
  BY <1>1, <1>2 DEF A2A!Candidates, CallInv, CallTypes
<1>5. futures' \subseteq replyPeer'
  BY <1>1 DEF CallInv, CallTypes
<1> QED
  BY <1>1, <1>2, <1>3, <1>4, <1>5, WakeKeeps

LEMMA SetResultStep == ASSUME CallInv, NEW w \in scheduled, A2A!SetResult(w) PROVE CallInv'
<1>0. w[1] \in Call /\ Fits(w[1], w[2]) /\ Woken(w[1])
  BY DEF CallInv, MeantFor, Woken, Coming
<1>1. /\ scheduled' = scheduled \ {w} /\ UNCHANGED <<thread, futures, older, replyPeer>>
      /\ future' = IF future[w[1]] = A2A!Pending THEN [future EXCEPT ![w[1]] = w[2]] ELSE future
  BY DEF A2A!SetResult
<1>2. /\ DOMAIN future' = Call
      /\ \A c \in Call : \/ future'[c] = future[c]
                         \/ c = w[1] /\ future'[c] = w[2] /\ ~Done(c)
  BY <1>0, <1>1 DEF CallInv, CallTypes, Done, A2A!Pending
<1>3. CallTypes' /\ MeantFor'
  BY <1>0, <1>1, <1>2 DEF CallInv, CallTypes, MeantFor, Fits, Done
<1>4. \A c \in Call : (Woken(c)' => Woken(c)) /\ (Done(c) => Done(c)')
  BY <1>0, <1>1, <1>2 DEF Woken, Coming, Done
<1>5. \A c \in Call : Gone(c) => Gone(c)'
  BY <1>1, <1>2 DEF Gone, Done
<1>6. CallsApart'
  BY <1>1, <1>4, <1>5 DEF CallInv, CallsApart
<1>7. \A c \in Call : TakesPlain(c)' => TakesPlain(c)
  BY <1>1, <1>2 DEF TakesPlain
<1>8. Turns'
  BY <1>1, <1>7 DEF CallInv, Turns
<1> QED
  BY <1>3, <1>6, <1>8 DEF CallInv

LEMMA TimesOutStep == ASSUME CallInv, NEW c \in Call, A2A!TimesOut(c) PROVE CallInv'
<1>1. /\ thread[c] = "waiting" /\ thread' = [thread EXCEPT ![c] = "leaving"]
      /\ UNCHANGED <<futures, older, replyPeer, scheduled>>
      /\ \/ UNCHANGED future
         \/ future[c] = A2A!Pending /\ future' = [future EXCEPT ![c] = A2A!Cancelled]
  BY DEF A2A!TimesOut
<1>0. /\ A2A!Pending.state = "pending" /\ A2A!Cancelled.state = "cancelled"
      /\ \A p : A2A!Plain(p).state = "done"
  BY DEF A2A!Pending, A2A!Cancelled, A2A!Plain
<1>2. /\ DOMAIN future' = Call
      /\ \A d \in Call : \/ future'[d] = future[d]
                         \/ d = c /\ ~Done(d) /\ ~Done(d)' /\ future'[d] # A2A!Plain(Target[d])
  <2>1. CASE UNCHANGED future
    BY <2>1 DEF CallInv, CallTypes
  <2>2. CASE future[c] = A2A!Pending /\ future' = [future EXCEPT ![c] = A2A!Cancelled]
    BY <1>0, <2>2 DEF CallInv, CallTypes, Done
  <2> QED
    BY <1>1, <2>1, <2>2
<1>3. CallTypes' /\ MeantFor'
  BY <1>1, <1>2 DEF CallInv, CallTypes, MeantFor, Fits, Done, ThreadStages
<1>4. \A d \in Call : thread'[d] = IF d = c THEN "leaving" ELSE thread[d]
  BY <1>1 DEF CallInv, CallTypes
<1>5. \A d \in Call : (Woken(d)' => Woken(d)) /\ (Done(d)' <=> Done(d)) /\ (Gone(d) => Gone(d)')
  BY <1>1, <1>2 DEF Woken, Coming, Done, Gone
<1>6. CallsApart'
  BY <1>1, <1>4, <1>5 DEF CallInv, CallsApart
<1>7. Turns'
  <2>1. \A d \in Call : TakesPlain(d)' => TakesPlain(d)
    BY <1>1, <1>2 DEF TakesPlain
  <2> QED
    BY <1>1, <2>1 DEF CallInv, Turns
<1> QED
  BY <1>3, <1>6, <1>7 DEF CallInv

(* ironmesh_a2a/server.py, dispatch_message_send and _on_inbound_msg: for any   *)
(* calls and peers, whatever anybody sends and however late or often, a call    *)
(* that returns an answer has a message that names it, or one that names no     *)
(* call and came from the peer it asked while no older call to that peer was    *)
(* registered; and no call that has ended is still in the table of futures for  *)
(* a message to be spent on.                                                    *)
THEOREM AnswersMatch == A2A!Spec => []AnswersFit
<1>1. CallInv /\ [A2A!Next]_A2A!a2aVars => CallInv'
  <2> SUFFICES ASSUME CallInv, [A2A!Next]_A2A!a2aVars PROVE CallInv'
    OBVIOUS
  <2>1. CASE UNCHANGED A2A!a2aVars
    BY <2>1 DEF A2A!a2aVars, CallInv, CallTypes, MeantFor, CallsApart, Turns, Woken, Coming, Done,
                Gone, Fits, TakesPlain
  <2> QED
    BY <2>1, RegisterStep, ThreadStep, CorrelatedStep, UncorrelatedStep, SetResultStep,
       TimesOutStep DEF A2A!Next
<1>2. CallInv => AnswersFit
  <2> SUFFICES ASSUME CallInv PROVE A2A!AnswersFit /\ A2A!InTurn /\ A2A!TablesDrain
    BY DEF AnswersFit
  <2>1. A2A!AnswersFit
    BY DEF CallInv, MeantFor, CallsApart, Fits, A2A!AnswersFit
  <2>2. A2A!InTurn
    BY DEF CallInv, CallTypes, Turns, TakesPlain, A2A!InTurn
  <2>3. ASSUME NEW c \in Call, thread[c] \in A2A!Ended
        PROVE  c \notin futures /\ (c \in replyPeer => thread[c] = "answered" /\ future[c].id = {c})
    <3>1. CASE thread[c] = "answered"
      <4>1. Done(c) /\ Gone(c)
        BY <3>1 DEF CallInv, CallsApart, Woken
      <4> QED
        BY <3>1, <4>1 DEF Gone, A2A!Naming
    <3>2. CASE thread[c] \in {"unreachable", "timeout"}
      BY <3>2 DEF CallInv, CallTypes, CallsApart
    <3> QED
      BY <2>3, <3>1, <3>2 DEF A2A!Ended
  <2> QED
    BY <2>1, <2>2, <2>3 DEF A2A!TablesDrain
<1> QED
  BY <1>1, <1>2, CallInit, PTL DEF A2A!Spec
============================================================================
