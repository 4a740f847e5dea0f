---------------------------- MODULE TrustProofs -----------------------------
(***************************************************************************)
(* Whom a node believes, for every value of the constants: theorems about  *)
(* TrustGate, CapabilityBinding as MCTrust instantiates it, and            *)
(* CapabilityGossip on any network.                                        *)
(***************************************************************************)
EXTENDS MCTrust, SequenceTheorems, TLAPS

CONSTANTS
    \* CapabilityGossip's, which MCTrust fixes twice
    Node, Origin, Neighbours, Pinned, MaxAge, DedupMax, Garbling, MaxClock, MaxQueue

-----------------------------------------------------------------------------
(***************************************************************************)
(* CapabilityBinding                                                       *)
(***************************************************************************)
\* "No hash stored" is not a capability set.
BindingConstants == NoCaps \notin CapSet /\ MaxBindFaults \in Nat

\* What makes ChangeHeld inductive: a set is stashed only against another
\* baseline, and while no write failed it is the one announced last.
StashInv ==
    /\ stash # NoCaps => baseline \notin {NoCaps, stash}
    /\ bindFaults = 0 /\ stash # NoCaps => announced = stash

BindingInv ==
    Binding!TypeOK /\ StashInv /\ Binding!ChangeHeld /\ Binding!ChangeEventTruthful

\* Every variable keeps its type, and a write that fails is counted.
LEMMA BindingWrites ==
  ASSUME BindingConstants, Binding!TypeOK, NEW a \in BOOLEAN, NEW b \in BOOLEAN,
         Binding!Writes(a, b)
  PROVE  bindFaults' \in 0 .. MaxBindFaults /\ (bindFaults' = 0 => bindFaults = 0 /\ a /\ b)
  BY DEF Binding!Writes, Binding!TypeOK, BindingConstants

LEMMA BindingInit == ASSUME BindingConstants PROVE Binding!Init => BindingInv
  <1> SUFFICES ASSUME Binding!Init PROVE BindingInv
    OBVIOUS
  <1>0. reviewed \in BOOLEAN
    BY Zenon DEF Binding!Init
  <1>1. Binding!TypeOK
    BY <1>0 DEF BindingConstants, Binding!Init, Binding!TypeOK, Binding!TrustState
  <1>2. StashInv /\ Binding!ChangeHeld /\ Binding!ChangeEventTruthful
    BY DEF Binding!Init, StashInv, Binding!ChangeHeld, Binding!ChangeEventTruthful
  <1> QED BY <1>1, <1>2 DEF BindingInv

LEMMA BindingObserves ==
  ASSUME BindingConstants, BindingInv, NEW c \in CapSet, Binding!Announce(c)
  PROVE  BindingInv'
  <1> USE DEF BindingInv, BindingConstants
  <1> USE DEF Binding!Heard, Binding!TypeOK, Binding!TrustState, StashInv,
              Binding!ChangeHeld, Binding!ChangeEventTruthful
  <1>1. CASE Binding!ObserveFirst(c)
    <2>1. PICK ok \in BOOLEAN :
            Binding!Writes(ok, TRUE) /\ baseline' = IF ok THEN c ELSE baseline
      BY <1>1 DEF Binding!ObserveFirst
    <2>2. bindFaults' \in 0 .. MaxBindFaults /\ (bindFaults' = 0 => bindFaults = 0 /\ ok)
      BY <2>1, BindingWrites
    <2> QED BY <1>1, <2>1, <2>2 DEF Binding!ObserveFirst
  <1>2. CASE Binding!ObserveBaseline(c)
    <2>1. CASE stash = NoCaps /\ UNCHANGED <<stash, bindFaults>> /\ status' = "match"
      BY <1>2, <2>1 DEF Binding!ObserveBaseline
    <2>2. CASE stash # NoCaps /\ status' = "reverted" /\ \E ok \in BOOLEAN :
                 Binding!Writes(ok, TRUE) /\ stash' = Binding!Cleared(ok)
      <3>1. PICK ok \in BOOLEAN : Binding!Writes(ok, TRUE) /\ stash' = Binding!Cleared(ok)
        BY <2>2
      <3>2. bindFaults' \in 0 .. MaxBindFaults /\ (bindFaults' = 0 => bindFaults = 0 /\ ok)
        BY <3>1, BindingWrites
      <3> QED BY <1>2, <2>2, <3>1, <3>2 DEF Binding!ObserveBaseline, Binding!Cleared
    <2> QED BY <1>2, <2>1, <2>2 DEF Binding!ObserveBaseline
  <1>3. CASE Binding!ObservePending(c)
    BY <1>3 DEF Binding!ObservePending, Binding!record
  <1>4. CASE Binding!ObserveChange(c)
    <2>1. PICK stashed \in BOOLEAN, demoted \in BOOLEAN :
            /\ Binding!Writes(stashed, demoted)
            /\ stash' = IF stashed THEN c ELSE stash
            /\ bound' = IF demoted THEN "pending-cap-change" ELSE bound
            /\ status' = Binding!ChangeEvent(stashed, demoted)
      BY <1>4 DEF Binding!ObserveChange
    <2>2. bindFaults' \in 0 .. MaxBindFaults /\ (bindFaults' = 0 => bindFaults = 0 /\ stashed /\ demoted)
      BY <2>1, BindingWrites
    <2> QED BY <1>4, <2>1, <2>2 DEF Binding!ObserveChange, Binding!ChangeEvent
  <1> QED BY <1>1, <1>2, <1>3, <1>4 DEF Binding!Announce

LEMMA BindingOperators ==
  ASSUME BindingConstants, BindingInv, Binding!OperatorActs
  PROVE  BindingInv'
  <1> USE DEF BindingInv, BindingConstants, Binding!TypeOK, Binding!TrustState, StashInv,
              Binding!ChangeHeld, Binding!ChangeEventTruthful
  <1>1. ASSUME NEW s \in Binding!TrustState, Binding!SetTrustState(s) PROVE BindingInv'
    <2>1. PICK ok \in BOOLEAN :
            /\ Binding!Writes(ok, TRUE)
            /\ bound' = IF ok THEN s ELSE bound
            /\ reviewed' = (ok \/ reviewed)
      BY <1>1 DEF Binding!SetTrustState
    <2>2. bindFaults' \in 0 .. MaxBindFaults /\ (bindFaults' = 0 => bindFaults = 0 /\ ok)
      BY <2>1, BindingWrites
    <2> QED BY <1>1, <2>1, <2>2 DEF Binding!SetTrustState
  <1>2. ASSUME Binding!Accept PROVE BindingInv'
    <2>1. CASE Binding!Writes(FALSE, TRUE) /\ status' = "operator" /\ UNCHANGED <<Binding!record, reviewed>>
      <3>1. bindFaults' \in 0 .. MaxBindFaults /\ bindFaults' # 0
        BY <2>1, BindingWrites
      <3> QED BY <1>2, <2>1, <3>1 DEF Binding!Accept, Binding!record
    <2>2. ASSUME NEW ok \in BOOLEAN, Binding!Writes(TRUE, ok), baseline' = stash, stash' = NoCaps,
                 bound' = IF ok THEN "trusted" ELSE bound, reviewed' = TRUE, status' = "accepted"
          PROVE  BindingInv'
      <3>1. bindFaults' \in 0 .. MaxBindFaults
        BY <2>2, BindingWrites
      <3> QED BY <1>2, <2>2, <3>1 DEF Binding!Accept
    <2> QED BY <1>2, <2>1, <2>2 DEF Binding!Accept
  <1>3. ASSUME NEW s \in Binding!TrustState, Binding!CapReject(s) PROVE BindingInv'
    <2>1. PICK cleared \in BOOLEAN, set \in BOOLEAN :
            /\ ~cleared => set
            /\ Binding!Writes(cleared, set)
            /\ stash' = IF cleared THEN NoCaps ELSE stash
            /\ bound' = IF cleared /\ set THEN s ELSE bound
            /\ reviewed' = ((cleared /\ set) \/ reviewed)
      BY <1>3 DEF Binding!CapReject
    <2>2. bindFaults' \in 0 .. MaxBindFaults /\ (bindFaults' = 0 => bindFaults = 0 /\ cleared /\ set)
      BY <2>1, BindingWrites
    <2> QED BY <1>3, <2>1, <2>2 DEF Binding!CapReject
  <1> QED BY <1>1, <1>2, <1>3
          DEF Binding!OperatorActs, Binding!AcceptPendingCapChange, Binding!CliCapPromote

\* A peer that announces a set other than the accepted one is trusted only by an
\* operator's act since (_handle_cap_observation), and the audit event "changed" is
\* written only with stash and demotion both on disk - for any number of sets
\* and of failing writes.
THEOREM CapabilityChangeHeld ==
  ASSUME BindingConstants
  PROVE  Binding!Spec => [](ChangeHeld /\ Binding!ChangeEventTruthful)
  <1>1. BindingInv /\ [Binding!Next]_Binding!vars => BindingInv'
    <2>1. CASE UNCHANGED Binding!vars
      BY <2>1 DEF Binding!vars, Binding!record, BindingInv, Binding!TypeOK, StashInv,
                  Binding!ChangeHeld, Binding!ChangeEventTruthful
    <2> QED BY <2>1, BindingObserves, BindingOperators DEF Binding!Next
  <1>2. BindingInv => ChangeHeld /\ Binding!ChangeEventTruthful
    BY DEF BindingInv, ChangeHeld
  <1> QED BY <1>1, <1>2, BindingInit, PTL DEF Binding!Spec

-----------------------------------------------------------------------------
(***************************************************************************)
(* TrustGate                                                               *)
(***************************************************************************)
\* A message is published only by a coroutine that found the peer trusted, and
\* whoever made it trusted was an operator.
VouchInv ==
    /\ trust = "trusted" => vouched
    /\ inbound.at = "store" => vouched
    /\ \A o \in Operator : task[o].at \in {"select", "delete", "publish"} => vouched

\* The row about to be inserted has room, whoever empties the table meanwhile.
RoomInv == inbound.at = "insert" => Len(rows) < Cap

\* A drain that has rows to publish holds at least one, a loop that is not idle
\* a message; nobody else holds any.
HandsInv ==
    /\ inbound.at # "idle" => inbound.msg \in Message
    /\ \A o \in Operator :
         task[o].at \in {"delete", "publish"} <=> task[o].batch # <<>>

GateInv == TypeOK /\ HandsInv /\ VouchInv /\ RoomInv /\ CapKept /\ GateHolds

LEMMA BatchFacts ==
  ASSUME NEW s \in Seq(Message), s # <<>>
  PROVE  /\ Head(s) \in Message
         /\ Len(s) # 1 => Tail(s) \in Seq(Message) /\ Tail(s) # <<>>
  <1>1. Len(s) \in Nat \ {0} /\ s[1] \in Message
    OBVIOUS
  <1>2. Head(s) = s[1]
    BY <1>1
  <1>3. Tail(s) \in Seq(Message) /\ Len(Tail(s)) = Len(s) - 1
    BY <1>1
  <1>4. Len(s) # 1 => Tail(s) # <<>>
    BY <1>1, <1>3
  <1> QED BY <1>1, <1>2, <1>3, <1>4

LEMMA GateInit == Init => GateInv
  <1> SUFFICES ASSUME Init PROVE GateInv
    OBVIOUS
  <1>1. vouched \in BOOLEAN
    BY Zenon DEF Init
  <1> QED BY <1>1, GateAssumption DEF Init, GateInv, TypeOK, HandsInv, VouchInv, RoomInv, CapKept,
         GateHolds, Idle, NoTask, NoMessage

LEMMA GateReceiveLoop ==
  ASSUME GateInv,
         (\E m \in Message : Receive(m)) \/ Deliver \/ CountRows \/ EvictOldest \/ InsertRow
  PROVE  GateInv'
  <1> USE GateAssumption DEF GateInv, TypeOK, HandsInv, VouchInv, RoomInv, CapKept, GateHolds,
          Idle, NoMessage
  <1>1. ASSUME NEW m \in Message, Receive(m) PROVE GateInv'
    <2>1. copies' \in [Message -> 0 .. 2] /\ UNCHANGED <<trust, rows, task, published, vouched, faults>>
      BY <1>1 DEF Receive
    <2>2. /\ inbound' = inbound \/ (inbound' = [at |-> "store", msg |-> m] /\ trust = "trusted")
             \/ inbound' = [at |-> "count", msg |-> m]
          /\ seen' \subseteq Message /\ dropped' \subseteq Message
      BY <1>1 DEF Receive, Passes
    <2> QED BY <2>1, <2>2
  <1>2. CASE Deliver
    BY <1>2 DEF Deliver
  <1>3. CASE CountRows
    BY <1>3 DEF CountRows, Full
  <1>4. CASE EvictOldest
    BY <1>4 DEF EvictOldest, ToSet
  <1>5. CASE InsertRow
    BY <1>5 DEF InsertRow
  <1> QED BY <1>1, <1>2, <1>3, <1>4, <1>5

TaskPlace == {"idle", "select", "delete", "publish", "tally", "discard"}

TaskInv ==
    /\ task \in [Operator -> [at : TaskPlace, batch : Seq(Message)]]
    /\ \A p \in Operator :
         /\ task[p].at \in {"delete", "publish"} <=> task[p].batch # <<>>
         /\ task[p].at \in {"select", "delete", "publish"} => vouched

\* What an operator's step must see to for the conjuncts about tasks.
LEMMA GateStep ==
  ASSUME GateInv, NEW o \in Operator, NEW at \in TaskPlace, NEW batch \in Seq(Message),
         Step(o, at, batch),
         at \in {"delete", "publish"} <=> batch # <<>>,
         at \in {"select", "delete", "publish"} => vouched',
         vouched => vouched'
  PROVE  TaskInv'
  BY DEF GateInv, TypeOK, HandsInv, VouchInv, Step, TaskPlace, TaskInv

\* The rest of a batch.
LEMMA GateRest ==
  ASSUME GateInv, NEW o \in Operator, Rest(o), task[o].at = "publish", UNCHANGED vouched
  PROVE  \E at \in TaskPlace, batch \in Seq(Message) :
            /\ Step(o, at, batch)
            /\ at \in {"delete", "publish"} <=> batch # <<>>
            /\ at \in {"select", "delete", "publish"} => vouched'
  <1>1. task[o].batch \in Seq(Message) /\ task[o].batch # <<>> /\ vouched
    BY DEF GateInv, TypeOK, HandsInv, VouchInv
  <1>2. CASE Len(task[o].batch) = 1
    <2>1. Step(o, "idle", <<>>)
      BY <1>2 DEF Rest
    <2>2. <<>> \in Seq(Message)
      OBVIOUS
    <2> QED BY <2>1, <2>2 DEF TaskPlace
  <1>3. CASE Len(task[o].batch) # 1
    <2>1. Step(o, "publish", Tail(task[o].batch))
      BY <1>3 DEF Rest
    <2> QED BY <1>1, <1>3, <2>1, BatchFacts DEF TaskPlace
  <1> QED BY <1>2, <1>3

LEMMA GateOperators ==
  ASSUME GateInv, NEW o \in Operator,
         Promote(o) \/ Block(o) \/ PublishFails(o) \/ Progress(o)
  PROVE  GateInv'
  <1> USE GateAssumption DEF GateInv, TypeOK, HandsInv, VouchInv, RoomInv, CapKept, GateHolds,
          TaskPlace
  <1>0. <<>> \in Seq(Message)
    OBVIOUS
  <1>1. CASE Promote(o)
    BY <1>0, <1>1, GateStep DEF Promote, TaskInv
  <1>2. CASE Block(o)
    BY <1>0, <1>2, GateStep DEF Block, TaskInv
  <1>3. CASE PublishFails(o)
    <2>1. TaskInv'
      BY <1>3, GateStep, GateRest, ZenonT(30) DEF PublishFails
    <2> QED BY <1>3, <2>1 DEF PublishFails, TaskInv
  <1>4. CASE SelectRows(o)
    BY <1>0, <1>4, GateStep DEF SelectRows, Selected, TaskInv
  <1>5. CASE DeleteRows(o)
    <2>1. TaskInv'
      BY <1>5, GateStep DEF DeleteRows
    <2> QED BY <1>5, <2>1 DEF DeleteRows, AfterDrain, TaskInv
  <1>6. CASE PublishNext(o)
    <2>1. TaskInv'
      BY <1>6, GateStep, GateRest DEF PublishNext
    <2>2. Head(task[o].batch) \in Message
      BY <1>6, BatchFacts DEF PublishNext
    <2>3. published' \in Seq(Message) /\ vouched
      BY <1>6, <2>2 DEF PublishNext
    <2> QED BY <1>6, <2>1, <2>3 DEF PublishNext, TaskInv
  <1>7. CASE TallyRows(o)
    BY <1>0, <1>7, GateStep DEF TallyRows, TaskInv
  <1>8. CASE DiscardRows(o)
    <2>1. TaskInv'
      BY <1>0, <1>8, GateStep DEF DiscardRows
    <2>2. ToSet(rows) \subseteq Message
      BY DEF ToSet
    <2> QED BY <1>8, <2>1, <2>2 DEF DiscardRows, TaskInv
  <1> QED BY <1>1, <1>2, <1>3, <1>4, <1>5, <1>6, <1>7, <1>8 DEF Progress

LEMMA GateNext == GateInv /\ [Next]_vars => GateInv'
  <1> SUFFICES ASSUME GateInv, [Next]_vars PROVE GateInv'
    OBVIOUS
  <1> USE GateAssumption DEF GateInv, TypeOK, HandsInv, VouchInv, RoomInv, CapKept, GateHolds,
          Idle, NoMessage, NoTask
  <1>1. CASE Demote
    BY <1>1 DEF Demote
  <1>2. CASE AcceptCapChange
    BY <1>2 DEF AcceptCapChange
  <1>3. CASE Crash
    BY <1>3 DEF Crash
  <1>4. CASE UNCHANGED vars
    BY <1>4 DEF vars
  <1> QED BY <1>1, <1>2, <1>3, <1>4, GateReceiveLoop, GateOperators DEF Next

\* The cap holds although COUNT, DELETE and INSERT are separate statements, and
\* nothing reaches the bus before an operator vouched - for any number of messages,
\* operators acting at once, restarts and failing stores.
THEOREM GateSafety == Spec => [](TypeOK /\ CapKept /\ GateHolds)
  <1>1. GateInv => TypeOK /\ CapKept /\ GateHolds
    BY DEF GateInv
  <1> QED BY <1>1, GateInit, GateNext, PTL DEF Spec

\* Where a message is.
AtMostOnce(s, m) == \A i, j \in DOMAIN s : s[i] = m /\ s[j] = m => i = j
Arriving(m) == inbound.at # "idle" /\ inbound.msg = m
Drained(m) == \E o \in Operator : Contains(task[o].batch, m)

\* A message that came once is in one place: arriving, waiting, in a drain's batch or
\* published.  Between its SELECT and its DELETE a drain holds what still waits.
PlaceInv(m) ==
    /\ copies[m] = 0 =>
         ~Arriving(m) /\ ~Contains(rows, m) /\ ~Drained(m) /\ ~Contains(published, m)
    /\ Arriving(m) => ~Contains(rows, m) /\ ~Drained(m) /\ ~Contains(published, m)
    /\ Contains(rows, m) \/ Drained(m) => ~Contains(published, m)
    /\ AtMostOnce(rows, m) /\ AtMostOnce(published, m)
    /\ \A o \in Operator :
         /\ AtMostOnce(task[o].batch, m)
         /\ Contains(task[o].batch, m) /\ Contains(rows, m) => task[o].at = "delete"

OnceInv == \A m \in Message : copies[m] <= 1 => PlaceInv(m)

\* What appending and taking the first element do to these predicates.
LEMMA AppendOnce ==
  ASSUME NEW s \in Seq(Message), NEW x \in Message, NEW m
  PROVE  /\ Contains(Append(s, x), m) <=> Contains(s, m) \/ x = m
         /\ AtMostOnce(s, m) /\ (x = m => ~Contains(s, m)) => AtMostOnce(Append(s, x), m)
  <1>1. /\ Len(Append(s, x)) = Len(s) + 1 /\ Len(s) \in Nat
        /\ \A i \in 1 .. Len(s) : Append(s, x)[i] = s[i]
        /\ Append(s, x)[Len(s) + 1] = x
        /\ DOMAIN s = 1 .. Len(s) /\ DOMAIN Append(s, x) = 1 .. Len(s) + 1
    OBVIOUS
  <1> QED BY <1>1 DEF Contains, AtMostOnce

LEMMA TailOnce ==
  ASSUME NEW s \in Seq(Message), s # <<>>, NEW m
  PROVE  /\ Contains(Tail(s), m) => Contains(s, m)
         /\ Contains(s, Head(s))
         /\ AtMostOnce(s, m) => AtMostOnce(Tail(s), m)
         /\ AtMostOnce(s, m) /\ Head(s) = m => ~Contains(Tail(s), m)
  <1>1. /\ Len(s) \in Nat \ {0} /\ Len(Tail(s)) = Len(s) - 1
        /\ DOMAIN s = 1 .. Len(s) /\ DOMAIN Tail(s) = 1 .. Len(s) - 1
        /\ \A i \in 1 .. Len(s) - 1 : Tail(s)[i] = s[i + 1]
        /\ Head(s) = s[1]
    OBVIOUS
  <1> QED BY <1>1 DEF Contains, AtMostOnce

LEMMA EmptyOnce == ASSUME NEW m PROVE ~Contains(<<>>, m) /\ AtMostOnce(<<>>, m)
  BY DEF Contains, AtMostOnce

\* Promotions come one at a time: two at once publish every row twice.
OneOperator == \A o, p \in Operator : o = p

LEMMA OnceInit == Init => OnceInv
  BY EmptyOnce DEF Init, OnceInv, PlaceInv, Arriving, Drained, Idle, NoTask

LEMMA OnceReceive ==
  ASSUME GateInv, OnceInv, NEW n \in Message, Receive(n), NEW m \in Message, copies'[m] <= 1
  PROVE  PlaceInv(m)'
  <1>1. copies[m] \in 0 .. 2 /\ copies[n] \in 0 .. 2
    BY DEF GateInv, TypeOK
  <1>2. copies'[m] = IF m = n THEN copies[m] + 1 ELSE copies[m]
    BY DEF Receive, GateInv, TypeOK
  <1>3. PlaceInv(m) /\ copies[m] <= 1
    BY <1>1, <1>2 DEF OnceInv
  <1>4. UNCHANGED <<rows, task, published>> /\ inbound.at = "idle"
    BY DEF Receive, Idle
  <1>5. Arriving(m)' => m = n
    BY <1>4 DEF Receive, Arriving, Idle
  <1>6. m = n => copies[m] = 0 /\ copies'[m] = 1
    BY <1>1, <1>2
  <1>7. m # n => copies'[m] = copies[m]
    BY <1>2
  <1> QED BY <1>3, <1>4, <1>5, <1>6, <1>7 DEF PlaceInv, Drained

LEMMA OnceLoop ==
  ASSUME GateInv, OnceInv, Deliver \/ CountRows \/ EvictOldest \/ InsertRow,
         NEW m \in Message, copies'[m] <= 1
  PROVE  PlaceInv(m)'
  <1>1. UNCHANGED <<copies, task>> /\ PlaceInv(m)
    BY DEF OnceInv, Deliver, CountRows, EvictOldest, InsertRow
  <1>2. /\ inbound.at # "idle" /\ inbound.msg \in Message
        /\ rows \in Seq(Message) /\ published \in Seq(Message)
    BY DEF Deliver, CountRows, EvictOldest, InsertRow, GateInv, HandsInv, TypeOK
  <1>3. CASE Deliver
    <2>1. published' = Append(published, inbound.msg) /\ ~Arriving(m)' /\ UNCHANGED rows
      BY <1>3 DEF Deliver, Arriving, Idle
    <2>2. inbound.msg = m => Arriving(m)
      BY <1>2 DEF Arriving
    <2>3. copies[m] = 0 => inbound.msg # m
      BY <1>1, <2>2 DEF PlaceInv
    <2> QED BY <1>1, <1>2, <2>1, <2>2, <2>3, AppendOnce DEF PlaceInv, Drained
  <1>4. CASE CountRows
    BY <1>1, <1>4 DEF CountRows, PlaceInv, Drained, Arriving, GateInv, TypeOK
  <1>5. CASE EvictOldest
    <2>1. Arriving(m)' <=> Arriving(m)
      BY <1>5 DEF EvictOldest, Arriving, GateInv, TypeOK
    <2>2. (Contains(rows, m)' => Contains(rows, m)) /\ (AtMostOnce(rows, m) => AtMostOnce(rows, m)')
      BY <1>2, <1>5, TailOnce DEF EvictOldest
    <2> QED BY <1>1, <1>5, <2>1, <2>2 DEF EvictOldest, PlaceInv, Drained
  <1>6. CASE InsertRow
    <2>1. ~Arriving(m)' /\ UNCHANGED published
      BY <1>6 DEF InsertRow, Arriving, Idle
    <2>2. inbound.msg = m => Arriving(m)
      BY <1>2 DEF Arriving
    <2>3. /\ Contains(rows, m)' => Contains(rows, m) \/ inbound.msg = m
          /\ AtMostOnce(rows, m)'
      BY <1>1, <1>2, <1>6, AppendOnce DEF InsertRow, PlaceInv
    <2> QED BY <1>1, <2>1, <2>2, <2>3 DEF PlaceInv, Drained
  <1> QED BY <1>3, <1>4, <1>5, <1>6

LEMMA OnceOperators ==
  ASSUME OneOperator, GateInv, OnceInv, NEW o \in Operator,
         Promote(o) \/ Block(o) \/ PublishFails(o) \/ Progress(o),
         NEW m \in Message, copies'[m] <= 1
  PROVE  PlaceInv(m)'
  <1>1. UNCHANGED <<copies, inbound>> /\ PlaceInv(m)
    BY DEF OnceInv, Promote, Block, PublishFails, Progress, SelectRows, DeleteRows,
           PublishNext, TallyRows, DiscardRows
  <1>2. /\ rows \in Seq(Message) /\ published \in Seq(Message)
        /\ task \in [Operator -> [at : TaskPlace, batch : Seq(Message)]]
        /\ task[o].batch \in Seq(Message)
    BY DEF GateInv, TypeOK, TaskPlace
  <1>3. \A p \in Operator : p = o
    BY DEF OneOperator
  <1>4. Drained(m) <=> Contains(task[o].batch, m)
    BY <1>3 DEF Drained
  <1>6. ASSUME NEW at, Step(o, at, <<>>), UNCHANGED published,
               rows' = rows \/ rows' = <<>>
        PROVE  PlaceInv(m)'
    <2>1. task'[o].batch = <<>> /\ ~Drained(m)'
      BY <1>2, <1>3, <1>6, EmptyOnce DEF Step, Drained
    <2>2. \A p \in Operator : task'[p].batch = <<>>
      BY <1>3, <2>1
    <2>3. Arriving(m)' <=> Arriving(m)
      BY <1>1 DEF Arriving
    <2>4. (Contains(rows, m)' => Contains(rows, m)) /\ AtMostOnce(rows, m)'
      BY <1>1, <1>6, EmptyOnce DEF PlaceInv
    <2> QED BY <1>1, <1>6, <2>1, <2>2, <2>3, <2>4, EmptyOnce DEF PlaceInv
  <1>7. CASE Promote(o) \/ Block(o) \/ TallyRows(o) \/ DiscardRows(o)
    BY <1>6, <1>7 DEF Promote, Block, TallyRows, DiscardRows
  <1>8. CASE SelectRows(o)
    <2>1. CASE rows = <<>>
      BY <1>6, <1>8, <2>1 DEF SelectRows, Selected
    <2>2. CASE rows # <<>>
      <3>1. Step(o, "delete", rows) /\ UNCHANGED <<rows, published>>
        BY <1>8, <2>2 DEF SelectRows, Selected
      <3>2. /\ \A p \in Operator : task'[p].at = "delete" /\ task'[p].batch = rows
            /\ Drained(m)' <=> Contains(rows, m)
        BY <1>2, <1>3, <3>1 DEF Step, Drained
      <3>3. Arriving(m)' <=> Arriving(m)
        BY <1>1 DEF Arriving
      <3> QED BY <1>1, <3>1, <3>2, <3>3 DEF PlaceInv
    <2> QED BY <2>1, <2>2
  <1>9. CASE DeleteRows(o)
    <2>1. Step(o, "publish", task[o].batch) /\ rows' = <<>> /\ UNCHANGED published
      BY <1>9 DEF DeleteRows, AfterDrain
    <2>2. /\ \A p \in Operator : task'[p].batch = task[o].batch
          /\ Drained(m)' <=> Drained(m)
      BY <1>2, <1>3, <2>1 DEF Step, Drained
    <2>3. Arriving(m)' <=> Arriving(m)
      BY <1>1 DEF Arriving
    <2> QED BY <1>1, <2>1, <2>2, <2>3, EmptyOnce DEF PlaceInv
  <1>10. ASSUME Rest(o), task[o].at = "publish", UNCHANGED rows,
                published' = published \/ published' = Append(published, Head(task[o].batch))
         PROVE  PlaceInv(m)'
    <2>1. task[o].batch # <<>>
      BY <1>10 DEF GateInv, HandsInv
    <2> DEFINE b == task[o].batch
    <2>2. Head(b) \in Message /\ Contains(b, Head(b))
      BY <1>2, <2>1, BatchFacts, TailOnce
    <2>3. PICK at, batch : Step(o, at, batch) /\ (batch = <<>> \/ batch = Tail(b))
      BY <1>10 DEF Rest
    <2>4. /\ Contains(batch, m) => Contains(b, m)
          /\ AtMostOnce(b, m) => AtMostOnce(batch, m)
          /\ AtMostOnce(b, m) /\ Head(b) = m => ~Contains(batch, m)
      BY <1>2, <2>1, <2>3, TailOnce, EmptyOnce
    <2>5. ~Contains(rows, m) \/ ~Contains(b, m)
      BY <1>1, <1>10 DEF PlaceInv
    <2>6. /\ Contains(published, m)' => Contains(published, m) \/ Head(b) = m
          /\ AtMostOnce(published, m)'
      <3>1. Head(b) = m => ~Contains(published, m)
        BY <1>1, <1>4, <2>2 DEF PlaceInv
      <3>2. AtMostOnce(published, m)
        BY <1>1 DEF PlaceInv
      <3>3. CASE UNCHANGED published
        BY <3>2, <3>3
      <3>4. CASE published' = Append(published, Head(b))
        <4>1. Contains(Append(published, Head(b)), m) <=> Contains(published, m) \/ Head(b) = m
          BY <1>2, <2>2, AppendOnce
        <4>2. AtMostOnce(Append(published, Head(b)), m)
          BY <1>2, <2>2, <3>1, <3>2, AppendOnce
        <4> QED BY <3>4, <4>1, <4>2
      <3> QED BY <1>10, <3>3, <3>4
    <2>7. task'[o].batch = batch /\ (Drained(m)' <=> Contains(batch, m))
      BY <1>2, <1>3, <2>3 DEF Step, Drained
    <2> HIDE DEF b
    <2>8. Contains(b, m) => ~Arriving(m) /\ copies[m] # 0 /\ ~Contains(published, m)
      BY <1>1, <1>4 DEF PlaceInv, b
    <2>9. AtMostOnce(b, m)
      BY <1>1 DEF PlaceInv, b
    <2>10. Arriving(m)' <=> Arriving(m)
      BY <1>1 DEF Arriving
    <2> QED BY <1>1, <1>3, <1>10, <2>2, <2>4, <2>5, <2>6, <2>7, <2>8, <2>9, <2>10 DEF PlaceInv
  <1>11. CASE PublishNext(o) \/ PublishFails(o)
    BY <1>10, <1>11 DEF PublishNext, PublishFails
  <1> QED BY <1>7, <1>8, <1>9, <1>11 DEF Progress

\* A message that came once reaches the bus at most once, although the drain, the
\* receive loop's dedup and the table know nothing of each other, whatever restarts
\* and failing stores there are - as long as promotions do not overlap.
THEOREM PublishedAtMostOnce ==
  ASSUME OneOperator PROVE Spec => []PublishedOnce
  <1>1. GateInv /\ OnceInv /\ [Next]_vars => OnceInv'
    <2> SUFFICES ASSUME GateInv, OnceInv, [Next]_vars, NEW m \in Message, copies'[m] <= 1
                 PROVE  PlaceInv(m)'
      BY DEF OnceInv
    <2>1. CASE Demote \/ AcceptCapChange \/ UNCHANGED vars
      <3>1. UNCHANGED <<rows, inbound, task, published, copies>>
        BY <2>1 DEF Demote, AcceptCapChange, vars
      <3> QED BY <3>1 DEF OnceInv, PlaceInv, Arriving, Drained
    <2>2. CASE Crash
      <3>1. /\ UNCHANGED <<rows, published, copies>>
            /\ ~Arriving(m)' /\ ~Drained(m)'
            /\ \A o \in Operator : task'[o].batch = <<>>
        BY <2>2, EmptyOnce DEF Crash, Arriving, Drained, Idle, NoTask
      <3> QED BY <3>1, EmptyOnce DEF OnceInv, PlaceInv
    <2> QED BY <2>1, <2>2, OnceReceive, OnceLoop, OnceOperators DEF Next
  <1>2. GateInv /\ OnceInv => PublishedOnce
    BY DEF OnceInv, PlaceInv, PublishedOnce, AtMostOnce
  <1> QED BY <1>1, <1>2, GateInit, GateNext, OnceInit, PTL DEF Spec

-----------------------------------------------------------------------------
(***************************************************************************)
(* CapabilityGossip, on any network                                        *)
(***************************************************************************)
Spread == INSTANCE CapabilityGossip WITH seen <- heard

GossipConstants == Origin \in Node

Other == Node \ {Origin}
Envelope == [stamp : Nat, caps : CapSet \cup {{}}, good : BOOLEAN]

\* A set that Origin announced.
Announced(caps) == caps # {} => \E e \in issued : e.caps = caps

\* What makes OnlyAnnounced inductive: whatever still carries a signature that holds,
\* on its way, kept for replay, believed or saved, is Origin's.
GossipInv ==
    /\ now \in Nat /\ local \in CapSet /\ issued \subseteq {e \in Envelope : e.good}
    /\ known \in [Other -> CapSet \cup {{}}] /\ file \in [Other -> CapSet \cup {{}}]
    /\ \A n \in Other : Announced(known[n]) /\ Announced(file[n])
    /\ cache \in [Other -> issued \cup {None}]
    /\ net \in [Node -> [Other -> Seq({e \in Envelope : e.good => e \in issued})]]

LEMMA GossipInit == Spread!Init => GossipInv
  <1> SUFFICES ASSUME Spread!Init PROVE GossipInv
    OBVIOUS
  <1>1. <<>> \in Seq({e \in Envelope : e.good => e \in issued})
    OBVIOUS
  <1> QED BY <1>1 DEF Spread!Init, Spread!Other, GossipInv, Other, Announced

\* An envelope that a node may send is put at the end of queues.
LEMMA GossipSends ==
  ASSUME GossipInv, NEW m \in Node, NEW d \in SUBSET Envelope,
         {e \in Envelope : e.good => e \in issued} \subseteq d, NEW e \in d
  PROVE  Spread!Sent(m, e) \in [Node -> [Other -> Seq(d)]]
  <1>2. \A x \in Node, n \in Other : net[x][n] \in Seq(d)
    <2> DEFINE c == {x \in Envelope : x.good => x \in issued}
    <2>1. \A x \in Node, n \in Other : net[x][n] \in Seq(c)
      BY DEF GossipInv
    <2>2. c \subseteq d
      OBVIOUS
    <2> HIDE DEF c
    <2> QED BY <2>1, <2>2, SeqMonotonic
  <1>1. \A n \in Other : net[m][n] \in Seq(d) /\ Append(net[m][n], e) \in Seq(d)
    BY <1>2, AppendProperties
  <1>3. Spread!Sent(m, e) = [net EXCEPT ![m] = [n \in Other |->
           IF n \in Neighbours[m] THEN Append(net[m][n], e) ELSE net[m][n]]]
    BY DEF Spread!Sent, Spread!Other, Other
  <1>4. net \in [Node -> [Other -> Seq(d)]]
    BY <1>2 DEF GossipInv
  <1> QED BY <1>1, <1>3, <1>4

\* A copy arrives.
LEMMA GossipReceives ==
  ASSUME GossipInv, NEW m \in Node, NEW n \in Other, Spread!Receive(m, n) PROVE GossipInv'
  <1> DEFINE d == {e \in Envelope : e.good => e \in issued}
             e == Head(net[m][n])
  <1>1. /\ net[m][n] \in Seq(d) /\ net[m][n] # <<>>
        /\ UNCHANGED <<now, local, issued>>
    BY DEF GossipInv, Spread!Receive
  <1>2. e \in d /\ Tail(net[m][n]) \in Seq(d)
    BY <1>1
  <1>3. net' = [net EXCEPT ![m][n] = Tail(net[m][n])]
    BY DEF Spread!Receive
  <1> HIDE DEF d, e
  <1>4. net' \in [Node -> [Other -> Seq(d)]]
    BY <1>2, <1>3 DEF GossipInv, d
  <1>5. /\ known' \in [Other -> CapSet \cup {{}}] /\ file' \in [Other -> CapSet \cup {{}}]
        /\ \A x \in Other : Announced(known'[x]) /\ Announced(file'[x])
        /\ cache' \in [Other -> issued \cup {None}]
    <2>1. Spread!Handle(n, e)
      BY DEF Spread!Receive, e
    <2>2. CASE UNCHANGED <<cache, known, file>>
      BY <2>2 DEF GossipInv
    <2>3. CASE /\ e.good /\ cache' = [cache EXCEPT ![n] = e]
               /\ \E saved \in BOOLEAN : Spread!Known(n, e.caps, saved)
      <3>1. e \in issued /\ e.caps \in CapSet \cup {{}} /\ Announced(e.caps)
        BY <1>2, <2>3 DEF d, Envelope, Announced
      <3>2. PICK saved \in BOOLEAN : Spread!Known(n, e.caps, saved)
        BY <2>3
      <3>3. /\ known' = [known EXCEPT ![n] = e.caps]
            /\ file' = [file EXCEPT ![n] = e.caps] \/ file' = [file EXCEPT ![n] = file[n]]
        BY <3>2 DEF Spread!Known
      <3> QED BY <2>3, <3>1, <3>3 DEF GossipInv
    <2> QED BY <2>1, <2>2, <2>3 DEF Spread!Handle
  <1> QED BY <1>1, <1>4, <1>5 DEF GossipInv, Announced, d

LEMMA GossipNext == GossipConstants /\ GossipInv /\ [Spread!Next]_capVars => GossipInv'
  <1> SUFFICES ASSUME GossipConstants, GossipInv, [Spread!Next]_capVars PROVE GossipInv'
    OBVIOUS
  <1> DEFINE d == {e \in Envelope : e.good => e \in issued}
  <1>1. ASSUME NEW caps \in CapSet, Spread!SetLocal(caps) PROVE GossipInv'
    BY <1>1 DEF Spread!SetLocal, GossipInv, Announced
  <1>2. CASE Spread!AnnounceOwn
    <2> DEFINE e == [stamp |-> now, caps |-> local, good |-> TRUE]
               f == {x \in Envelope : x.good => x \in issued'}
    <2>1. /\ issued' = issued \cup {e} /\ net' = Spread!Sent(Origin, e)
          /\ UNCHANGED <<now, local, known, file, cache>>
      BY <1>2 DEF Spread!AnnounceOwn
    <2>2. e \in Envelope /\ e.good
      BY DEF GossipInv, Envelope
    <2>3. f \in SUBSET Envelope /\ d \subseteq f /\ e \in f
      BY <2>1, <2>2
    <2>4. net' \in [Node -> [Other -> Seq(f)]]
      <3>1. Origin \in Node
        BY DEF GossipConstants
      <3> HIDE DEF e, f
      <3> QED BY <2>1, <2>3, <3>1, GossipSends
    <2> HIDE DEF e
    <2> QED BY <2>1, <2>2, <2>4 DEF GossipInv, Announced
  <1>3. ASSUME NEW n \in Other, Spread!Replay(n) PROVE GossipInv'
    <2>1. /\ file' = [file EXCEPT ![n] = known[n]] /\ UNCHANGED <<now, local, known, issued>>
          /\ cache' \in {cache, [cache EXCEPT ![n] = None]}
          /\ net' = net \/ net' = Spread!Sent(n, cache[n])
          /\ cache[n] # None
      BY <1>3 DEF Spread!Replay
    <2>2. n \in Node /\ d \in SUBSET Envelope /\ cache[n] \in d
      BY <2>1 DEF GossipInv, Other
    <2>3. net' \in [Node -> [Other -> Seq(d)]]
      <3>1. CASE net' = net
        BY <3>1 DEF GossipInv
      <3>2. CASE net' = Spread!Sent(n, cache[n])
        BY <2>2, <3>2, GossipSends
      <3> QED BY <2>1, <3>1, <3>2
    <2> QED BY <2>1, <2>3 DEF GossipInv, Announced
  <1>4. ASSUME NEW n \in Other, Spread!Restart(n) PROVE GossipInv'
    <2>1. /\ known' = [known EXCEPT ![n] = file[n]] /\ cache' = [cache EXCEPT ![n] = None]
          /\ UNCHANGED <<now, local, file, issued>>
          /\ net' = [m \in Node |-> [x \in Other |-> IF m = n \/ x = n THEN <<>> ELSE net[m][x]]]
      BY <1>4 DEF Spread!Restart, Spread!Other, Other
    <2>2. net' \in [Node -> [Other -> Seq(d)]]
      <3>1. <<>> \in Seq(d)
        OBVIOUS
      <3> HIDE DEF d
      <3> QED BY <2>1, <3>1 DEF GossipInv, d
    <2> QED BY <2>1, <2>2 DEF GossipInv, Announced
  <1>5. ASSUME NEW n \in Other, NEW m \in Other, Spread!Garble(n, m) PROVE GossipInv'
    <2> DEFINE e == [cache[n] EXCEPT !.good = FALSE, !.caps = {}]
    <2>1. /\ cache[n] # None /\ net' = [net EXCEPT ![n][m] = Append(net[n][m], e)]
          /\ UNCHANGED <<now, local, known, file, cache, issued>>
      BY <1>5 DEF Spread!Garble
    <2>2. e \in d
      <3>1. cache[n] \in issued /\ cache[n] \in Envelope
        BY <2>1 DEF GossipInv
      <3>2. e \in Envelope /\ ~e.good
        BY <3>1 DEF Envelope
      <3> QED BY <3>2
    <2>3. n \in Node /\ Append(net[n][m], e) \in Seq(d)
      BY <2>2 DEF GossipInv, Other
    <2>4. net' \in [Node -> [Other -> Seq(d)]]
      <3> HIDE DEF e
      <3> QED BY <2>1, <2>3 DEF GossipInv
    <2> QED BY <2>1, <2>4 DEF GossipInv, Announced
  <1>6. ASSUME NEW m \in Node, NEW n \in Other, Spread!Receive(m, n) PROVE GossipInv'
    BY <1>6, GossipReceives
  <1>7. CASE Spread!Tick
    BY <1>7 DEF Spread!Tick, GossipInv, Announced
  <1>8. CASE UNCHANGED capVars
    BY <1>8 DEF capVars, GossipInv, Announced
  <1> QED BY <1>1, <1>2, <1>3, <1>4, <1>5, <1>6, <1>7, <1>8 DEF Spread!Next, Spread!Other, Other

\* Whatever the network, the relays that replay, damage or lose envelopes, and the
\* restarts that forget the replay memory: a node believes of Origin only a set that
\* Origin announced (the CAPABILITY_ANNOUNCE branch of the frame dispatch).
THEOREM BelievedWasAnnounced ==
  ASSUME GossipConstants PROVE Spread!Spec => []Spread!OnlyAnnounced
  <1>1. GossipInv => Spread!OnlyAnnounced
    BY DEF GossipInv, Announced, Other, Spread!OnlyAnnounced, Spread!Other
  <1> QED BY <1>1, GossipInit, GossipNext, PTL DEF Spread!Spec, Spread!capVars, capVars
=============================================================================
