---------------------------- MODULE LinksProofs -----------------------------
(***************************************************************************)
(* What lies below a session, for every value of the constants: theorems   *)
(* about MCLinks' instances of Heartbeat, NatRelay, AuthBlock, SendGate and *)
(* RnsGroup, and about RnsLink, which MCLinks extends.                     *)
(***************************************************************************)
EXTENDS MCLinks, FiniteSetTheorems, FunctionTheorems, SequenceTheorems, TLAPS

-----------------------------------------------------------------------------
(***************************************************************************)
(* Heartbeat                                                               *)
(***************************************************************************)
\* The host has been up for as long as a skipped PING takes, and "in time" is within
\* what a silent Link survives.
BeatConstants ==
    /\ {Cadence, Silence, RoundTrip, DropAfter, Uptime, BeatTicks} \subseteq Nat
    /\ Cadence <= Uptime + 1 /\ 1 <= Silence /\ RoundTrip <= Silence

BeatTypes ==
    /\ beatClock \in Nat /\ Uptime <= beatClock
    /\ lastData \in Nat /\ lastData <= beatClock
    /\ pingAt \in Nat /\ alerts \in Nat
    /\ \A m \in path : m[2] \in Nat

\* While nothing was lost, a PING is under way or the Link has just been used; none is
\* remembered that is not under way, so that the next round sends one.
QuietInv ==
    /\ path # {} => status = "online"
    /\ \A m \in path : m[2] <= lastData
    /\ ~lost /\ path = {} => pingAt = 0
    /\ ~lost /\ path = {} /\ status = "online" => lastData = beatClock
    /\ ~lost => \A m \in path : beatClock - m[2] <= RoundTrip

BeatInv ==
    /\ BeatTypes /\ QuietInv /\ Beats!LiveKept
    /\ Beats!AlertedOnce /\ (~alerted => alerts = 0)

LEMMA BeatInit == ASSUME BeatConstants PROVE Beats!Init => BeatInv
  BY DEF BeatConstants, Beats!Init, BeatInv, BeatTypes, QuietInv, Beats!LiveKept, Beats!AlertedOnce

LEMMA BeatRound == ASSUME BeatConstants, BeatInv, Beats!Beat PROVE BeatInv'
  <1> USE DEF BeatConstants
  <1>1. beatClock' = beatClock + 1 /\ lost' = (lost \/ Beats!Overdue(beatClock'))
    BY DEF Beats!Beat
  <1>2. ~lost' => ~lost /\ \A m \in path : beatClock' - m[2] <= RoundTrip
    <2>1. ~lost' => ~lost /\ ~Beats!Overdue(beatClock')
      BY <1>1, Zenon
    <2>2. ~Beats!Overdue(beatClock') => \A m \in path : ~(beatClock' - m[2] > RoundTrip)
      BY Zenon DEF Beats!Overdue
    <2> QED BY <1>1, <2>1, <2>2 DEF BeatInv, BeatTypes
  <1>3. CASE status # "online"
    BY <1>1, <1>2, <1>3 DEF Beats!Beat, Beats!dropVars, BeatInv, BeatTypes, QuietInv,
       Beats!LiveKept, Beats!AlertedOnce
  <1>4. CASE status = "online" /\ beatClock' - lastData > Silence
    <2>1. lost'
      BY <1>1, <1>2, <1>4 DEF BeatInv, BeatTypes, QuietInv
    <2> QED BY <1>1, <1>4, <2>1 DEF Beats!Beat, Beats!Drop, BeatInv, BeatTypes, QuietInv,
            Beats!LiveKept, Beats!AlertedOnce
  <1>5. CASE status = "online" /\ beatClock' - lastData <= Silence
    <2>1. CASE Beats!SkipsPing(beatClock')
      <3>1. UNCHANGED <<status, lastData, pingAt, path, lastPing, offlineSince, alerted, alerts>>
        BY <1>1, <1>5, <2>1 DEF Beats!Beat, Beats!dropVars, BeatInv, BeatTypes
      <3>2. lost \/ path # {}
        BY <1>1, <2>1 DEF Beats!SkipsPing, BeatInv, BeatTypes, QuietInv
      <3> QED BY <1>1, <1>2, <3>1, <3>2 DEF BeatInv, BeatTypes, QuietInv,
              Beats!LiveKept, Beats!AlertedOnce
    <2>2. CASE ~Beats!SkipsPing(beatClock')
      <3>1. /\ UNCHANGED <<status, offlineSince, alerted, alerts>>
            /\ pingAt' = beatClock' /\ lastData' = beatClock' /\ path' = {<<"ping", beatClock'>>}
        BY <1>1, <1>5, <2>2 DEF Beats!Beat, Beats!dropVars, BeatInv, BeatTypes
      <3>2. path' # {} /\ \A m \in path' : m[2] = beatClock'
        BY <3>1
      <3>3. BeatTypes'
        BY <1>1, <3>1, <3>2 DEF BeatInv, BeatTypes
      <3>4. QuietInv'
        <4>1. status' = "online" /\ lastData' = beatClock' /\ beatClock' \in Nat
          BY <1>1, <1>5, <3>1 DEF BeatInv, BeatTypes
        <4>2. \A m \in path' : m[2] <= lastData' /\ beatClock' - m[2] <= RoundTrip
          BY <3>2, <4>1
        <4> QED BY <3>2, <4>1, <4>2 DEF QuietInv
      <3>5. Beats!LiveKept' /\ Beats!AlertedOnce' /\ (~alerted' => alerts' = 0)
        BY <1>5, <3>1 DEF BeatInv, Beats!LiveKept, Beats!AlertedOnce
      <3> QED BY <3>3, <3>4, <3>5 DEF BeatInv
    <2> QED BY <2>1, <2>2
  <1> QED BY <1>1, <1>3, <1>4, <1>5 DEF BeatInv, BeatTypes

LEMMA BeatNext ==
  ASSUME BeatConstants PROVE BeatInv /\ [Beats!Next]_Beats!beatVars => BeatInv'
  <1> SUFFICES ASSUME BeatInv, [Beats!Next]_Beats!beatVars PROVE BeatInv'
    OBVIOUS
  <1> USE DEF BeatConstants, BeatInv, BeatTypes, QuietInv, Beats!LiveKept, Beats!AlertedOnce
  <1>1. CASE Beats!Beat
    BY <1>1, BeatRound
  <1>2. CASE Beats!Answer
    <2>1. PICK m \in path : path' = {<<"pong", m[2]>>}
      BY <1>2 DEF Beats!Answer
    <2>2. path # {} /\ path' # {} /\ \A q \in path' : q[2] = m[2]
      BY <2>1
    <2> QED BY <1>2, <2>1, <2>2 DEF Beats!Answer, Beats!dropVars
  <1>3. CASE Beats!Pong
    BY <1>3 DEF Beats!Pong, Beats!dropVars
  <1>4. CASE Beats!Lose
    BY <1>4 DEF Beats!Lose, Beats!dropVars
  <1>5. CASE Beats!Rekey
    BY <1>5 DEF Beats!Rekey, Beats!dropVars
  <1>6. CASE Beats!Close
    BY <1>6 DEF Beats!Close, Beats!Drop
  <1>7. CASE Beats!Reconnect
    BY <1>7 DEF Beats!Reconnect, Beats!dropVars
  <1>8. CASE Beats!Established
    BY <1>8 DEF Beats!Established
  <1>9. CASE Beats!Watchdog
    BY <1>9 DEF Beats!Watchdog
  <1>10. CASE UNCHANGED Beats!beatVars
    BY <1>10 DEF Beats!beatVars
  <1> QED BY <1>1, <1>2, <1>3, <1>4, <1>5, <1>6, <1>7, <1>8, <1>9, <1>10 DEF Beats!Next

\* A Reticulum peer is declared silent only after a PING or PONG was lost or late, and
\* a drop raises one alert, for every cadence, silence limit and alert threshold.
THEOREM LinkKeptWhileAnswered ==
  ASSUME BeatConstants PROVE Beats!Spec => []LiveKept
  <1>1. BeatInv => LiveKept
    BY DEF LiveKept, BeatInv
  <1> QED BY <1>1, BeatInit, BeatNext, PTL DEF Beats!Spec

-----------------------------------------------------------------------------
(***************************************************************************)
(* NatRelay                                                                *)
(***************************************************************************)
RelayConstants == Relay!NoSocket \notin Socket /\ Relay!NoNode \notin NodeId

RelayTypes ==
    /\ handler \in [Socket -> {"new", "open", "dropped", "ended"}]
    /\ claimed \in [Socket -> NodeId \cup {Relay!NoNode}]
    /\ sockets \in [NodeId -> Socket \cup {Relay!NoSocket}]
    /\ claims \in [Socket -> SUBSET NodeId]
    /\ overlapped \subseteq NodeId

\* What a Finish may do to another socket's id: an id two handlers hold that have not
\* ended has been registered twice over.
OverlapInv ==
    /\ \A s \in Socket : claimed[s] = Relay!NoNode \/ claimed[s] \in claims[s]
    /\ \A s \in Socket : handler[s] = "new" => claimed[s] = Relay!NoNode
    /\ \A n \in NodeId \ overlapped, s, t \in Socket :
         n \in claims[s] /\ n \in claims[t] /\ handler[s] # "ended" /\ handler[t] # "ended"
             => s = t

RelayInv == RelayTypes /\ OverlapInv /\ Relay!ReachableWhenSpaced

LEMMA RelayInit == ASSUME RelayConstants PROVE Relay!Init => RelayInv
  <1> SUFFICES ASSUME Relay!Init PROVE RelayInv
    OBVIOUS
  <1>1. RelayTypes
    BY DEF Relay!Init, RelayTypes
  <1>2. OverlapInv
    BY DEF Relay!Init, OverlapInv
  <1>3. Relay!ReachableWhenSpaced
    BY DEF RelayConstants, Relay!Init, Relay!ReachableWhenSpaced, Relay!Holders
  <1> QED BY <1>1, <1>2, <1>3 DEF RelayInv

LEMMA RelayRegister ==
  ASSUME RelayConstants, RelayInv, NEW s \in Socket, NEW n \in NodeId, Relay!Register(s, n)
  PROVE  RelayInv'
  <1>1. /\ UNCHANGED handler /\ handler[s] = "open"
        /\ sockets' = [sockets EXCEPT ![n] = s]
        /\ claimed' = [claimed EXCEPT ![s] = n]
        /\ claims' = [claims EXCEPT ![s] = claims[s] \cup {n}]
        /\ overlapped' = IF \E t \in Socket \ {s} : n \in claims[t] /\ handler[t] # "ended"
                           THEN overlapped \cup {n} ELSE overlapped
    BY DEF Relay!Register, RelayInv, RelayTypes
  <1>2. RelayTypes'
    BY <1>1 DEF RelayInv, RelayTypes
  <1>3. OverlapInv'
    BY <1>1 DEF RelayInv, RelayTypes, OverlapInv
  <1>4. Relay!ReachableWhenSpaced'
    BY <1>1, RelayConstants
       DEF RelayInv, RelayTypes, OverlapInv, RelayConstants, Relay!ReachableWhenSpaced, Relay!Holders
  <1> QED BY <1>2, <1>3, <1>4 DEF RelayInv

LEMMA RelayFinish ==
  ASSUME RelayConstants, RelayInv, NEW s \in Socket, Relay!Finish(s)
  PROVE  RelayInv'
  <1>1. /\ UNCHANGED <<claimed, claims, overlapped>> /\ handler[s] # "ended"
        /\ handler' = [handler EXCEPT ![s] = "ended"]
    BY DEF Relay!Finish
  <1>2. OverlapInv'
    BY <1>1 DEF RelayInv, RelayTypes, OverlapInv
  <1>3. CASE claimed[s] = Relay!NoNode
    <2>1. UNCHANGED sockets
      BY <1>3 DEF Relay!Finish
    <2> QED BY <1>1, <1>2, <1>3, <2>1, RelayConstants
            DEF RelayInv, RelayTypes, RelayConstants, Relay!ReachableWhenSpaced, Relay!Holders
  <1>4. CASE claimed[s] # Relay!NoNode
    <2>1. sockets' = [sockets EXCEPT ![claimed[s]] = Relay!NoSocket]
      BY <1>4 DEF Relay!Finish, Relay!Deregistered
    <2>2. claimed[s] \in NodeId /\ claimed[s] \in claims[s]
      BY <1>4 DEF RelayInv, RelayTypes, OverlapInv
    <2>3. RelayTypes'
      BY <1>1, <2>1, <2>2 DEF RelayInv, RelayTypes
    <2>4. ASSUME NEW n \in NodeId \ overlapped', NEW t \in Socket, t \in Relay!Holders(n)'
          PROVE  sockets'[n] = t
      <3>1. t # s /\ handler[t] = "open" /\ claimed[t] = n
        BY <1>1, <2>4 DEF Relay!Holders, RelayInv, RelayTypes
      <3>2. sockets[n] = t
        BY <1>1, <2>4, <3>1 DEF Relay!Holders, RelayInv, Relay!ReachableWhenSpaced
      <3>3. n # claimed[s]
        BY <1>1, <2>2, <3>1, <2>4, RelayConstants DEF RelayInv, OverlapInv, RelayConstants
      <3> QED BY <2>1, <2>2, <3>2, <3>3 DEF RelayInv, RelayTypes
    <2>5. \A n \in NodeId : sockets'[n] = Relay!NoSocket \/ n \in claims'[sockets'[n]]
      BY <1>1, <2>1, <2>2 DEF RelayInv, RelayTypes, Relay!ReachableWhenSpaced
    <2> QED BY <1>2, <2>3, <2>4, <2>5 DEF RelayInv, Relay!ReachableWhenSpaced
  <1> QED BY <1>3, <1>4

LEMMA RelayNext ==
  ASSUME RelayConstants PROVE RelayInv /\ [Relay!Next]_Relay!natVars => RelayInv'
  <1> SUFFICES ASSUME RelayInv, [Relay!Next]_Relay!natVars PROVE RelayInv'
    OBVIOUS
  <1> USE DEF RelayConstants
  <1>1. ASSUME NEW s \in Socket, Relay!Connect(s) \/ Relay!Drop(s) PROVE RelayInv'
    <2>1. /\ UNCHANGED <<claimed, sockets, claims, overlapped>>
          /\ handler' \in [Socket -> {"new", "open", "dropped", "ended"}]
          /\ \A t \in Socket : handler'[t] # "ended" => handler[t] # "ended"
          /\ \A t \in Socket : handler'[t] = "new" => handler[t] = "new"
      BY <1>1 DEF Relay!Connect, Relay!Drop, RelayInv, RelayTypes
    <2>2. \A t \in Socket : claimed[t] \in NodeId => handler[t] # "new"
      BY <1>1 DEF RelayInv, RelayTypes, OverlapInv
    <2>3. \A t \in Socket, n \in NodeId : t \in Relay!Holders(n)' => t \in Relay!Holders(n)
      BY <1>1, <2>1, <2>2 DEF Relay!Connect, Relay!Drop, Relay!Holders, RelayInv, RelayTypes
    <2>4. RelayTypes' /\ OverlapInv'
      BY <2>1 DEF RelayInv, RelayTypes, OverlapInv
    <2>5. Relay!ReachableWhenSpaced'
      BY <2>1, <2>3 DEF RelayInv, Relay!ReachableWhenSpaced
    <2> QED BY <2>4, <2>5 DEF RelayInv
  <1>2. ASSUME NEW s \in Socket, NEW n \in NodeId, Relay!RefuseRegister(s, n) PROVE RelayInv'
    BY <1>2, RelayFinish DEF Relay!RefuseRegister
  <1>3. ASSUME NEW s \in Socket, NEW n \in NodeId, Relay!Forward(s, n) PROVE RelayInv'
    BY <1>3 DEF Relay!Forward, RelayInv, RelayTypes, OverlapInv,
                Relay!ReachableWhenSpaced, Relay!Holders
  <1>4. CASE Relay!NewMinute
    BY <1>4 DEF Relay!NewMinute, RelayInv, RelayTypes, OverlapInv,
                Relay!ReachableWhenSpaced, Relay!Holders
  <1>5. CASE UNCHANGED Relay!natVars
    BY <1>5 DEF Relay!natVars, RelayInv, RelayTypes, OverlapInv,
                Relay!ReachableWhenSpaced, Relay!Holders
  <1> QED BY <1>1, <1>2, <1>3, <1>4, <1>5, RelayRegister, RelayFinish DEF Relay!Next

\* A peer that returns to the relay after its old handler has ended is reachable while
\* its socket is open, and nothing is sent to a socket that never claimed the id, for
\* any number of sockets and ids and any capacity of the table.
THEOREM RelayReaches == ASSUME RelayConstants PROVE Relay!Spec => []ReachableWhenSpaced
  <1>1. RelayInv => ReachableWhenSpaced
    BY DEF ReachableWhenSpaced, RelayInv
  <1> QED BY <1>1, RelayInit, RelayNext, PTL DEF Relay!Spec

-----------------------------------------------------------------------------
(***************************************************************************)
(* AuthBlock                                                               *)
(***************************************************************************)
\* A block lasts at least as long as the failures that caused it are remembered
\* (bridge.py sets both to 300 seconds).
DoorConstants ==
    /\ IsFiniteSet(Conn)
    /\ {Window, BlockDuration} \subseteq Nat /\ MaxFailures \in Nat \ {0}
    /\ Window <= BlockDuration

\* The failures are in the order of their times.
FailuresInv ==
    /\ authClock \in Nat
    /\ failures \in Seq(Nat)
    /\ \A i, j \in DOMAIN failures : i <= j => failures[i] <= failures[j]
    /\ \A i \in DOMAIN failures : failures[i] <= authClock

Proving == {c \in Conn : conn[c] = "proving"}

DoorInv == conn \in [Conn -> {"idle", "proving", "refused"}] /\ FailuresInv /\ Door!GuessesBounded

LEMMA SameCardinality == \A S : Door!Cardinality(S) = Cardinality(S)
  BY Zenon DEF Door!Cardinality, Cardinality

LEMMA IntervalCount ==
  ASSUME NEW n \in Nat PROVE IsFiniteSet(1 .. n) /\ Cardinality(1 .. n) = n
  <1>1. 1 \in Int /\ n \in Int /\ (IF 1 > n THEN 0 ELSE n - 1 + 1) = n
    OBVIOUS
  <1> QED BY <1>1, FS_Interval

\* A suffix of a sequence.
LEMMA Suffix ==
  ASSUME NEW S, NEW s \in Seq(S), NEW k \in 0 .. Len(s)
  PROVE  /\ SubSeq(s, k + 1, Len(s)) \in Seq(S)
         /\ Len(SubSeq(s, k + 1, Len(s))) = Len(s) - k
         /\ \A i \in 1 .. Len(s) - k : SubSeq(s, k + 1, Len(s))[i] = s[i + k]
  <1>1. Len(s) \in Nat /\ k + 1 \in Int /\ Len(s) \in Int
    OBVIOUS
  <1>2. \A i \in k + 1 .. Len(s) : s[i] \in S
    BY <1>1
  <1>3. /\ SubSeq(s, k + 1, Len(s)) \in Seq(S)
        /\ Len(SubSeq(s, k + 1, Len(s))) = IF k + 1 <= Len(s) THEN Len(s) - (k + 1) + 1 ELSE 0
        /\ \A i \in 1 .. Len(s) - (k + 1) + 1 : SubSeq(s, k + 1, Len(s))[i] = s[k + 1 + i - 1]
    BY <1>1, <1>2, SubSeqProperties
  <1> QED BY <1>1, <1>3

\* The failures in s that are old at a time, and what remains of s without them.
OldIn(s, time) == {i \in DOMAIN s : time - s[i] >= Window}

LEMMA OldCount ==
  ASSUME NEW s \in Seq(Nat), NEW time \in Nat
  PROVE  IsFiniteSet(OldIn(s, time)) /\ Cardinality(OldIn(s, time)) \in 0 .. Len(s)
  <1>1. Len(s) \in Nat /\ OldIn(s, time) \in SUBSET (1 .. Len(s))
    BY DEF OldIn
  <1>2. IsFiniteSet(1 .. Len(s)) /\ Cardinality(1 .. Len(s)) = Len(s)
    BY <1>1, IntervalCount
  <1>3. IsFiniteSet(OldIn(s, time)) /\ Cardinality(OldIn(s, time)) <= Len(s)
    BY <1>1, <1>2, FS_Subset
  <1> QED BY <1>1, <1>3, FS_CardinalityType

\* No failure becomes recent again, and a new one comes last.
LEMMA OldGrows ==
  ASSUME NEW s \in Seq(Nat), NEW r \in Seq(Nat), NEW t \in Nat, NEW u \in Nat, t <= u,
         Window \in Nat, Len(s) <= Len(r), \A i \in 1 .. Len(s) : r[i] = s[i]
  PROVE  Cardinality(OldIn(s, t)) <= Cardinality(OldIn(r, u))
  <1>1. /\ DOMAIN s = 1 .. Len(s) /\ DOMAIN r = 1 .. Len(r) /\ Len(s) \in Nat /\ Len(r) \in Nat
    OBVIOUS
  <1>2. ASSUME NEW i \in OldIn(s, t) PROVE i \in OldIn(r, u)
    <2>1. i \in 1 .. Len(s) /\ t - s[i] >= Window
      BY <1>1 DEF OldIn
    <2>2. i \in 1 .. Len(r) /\ r[i] = s[i]
      BY <1>1, <2>1
    <2>3. s[i] \in Nat
      BY <2>1, ElementOfSeq
    <2>4. u - r[i] >= Window
      BY <2>1, <2>2, <2>3, SMTT(30)
    <2> QED BY <1>1, <2>2, <2>4 DEF OldIn
  <1> QED BY <1>2, OldCount, FS_Subset

\* What is recent, in numbers.
LEMMA RecentLength ==
  ASSUME FailuresInv
  PROVE  /\ Cardinality(Door!Stale) \in 0 .. Len(failures)
         /\ Door!Recent \in Seq(Nat) /\ Len(Door!Recent) = Len(failures) - Cardinality(Door!Stale)
         /\ \A i \in 1 .. Len(Door!Recent) : Door!Recent[i] = failures[i + Cardinality(Door!Stale)]
  <1>1. Door!Stale = OldIn(failures, authClock) /\ failures \in Seq(Nat) /\ authClock \in Nat
    BY DEF Door!Stale, OldIn, FailuresInv
  <1>2. Cardinality(Door!Stale) \in 0 .. Len(failures)
    BY <1>1, OldCount
  <1>3. Door!Recent = SubSeq(failures, Cardinality(Door!Stale) + 1, Len(failures))
    BY SameCardinality DEF Door!Recent
  <1> DEFINE k == Cardinality(Door!Stale)
             r == SubSeq(failures, k + 1, Len(failures))
  <1>4. k \in 0 .. Len(failures) /\ Len(failures) \in Nat
    BY <1>1, <1>2
  <1> HIDE DEF k
  <1>5. /\ r \in Seq(Nat) /\ Len(r) = Len(failures) - k
        /\ \A i \in 1 .. Len(failures) - k : r[i] = failures[i + k]
    BY <1>1, <1>4, Suffix
  <1> HIDE DEF r
  <1>6. \A i \in 1 .. Len(r) : r[i] = failures[i + k]
    BY <1>5
  <1> QED BY <1>2, <1>3, <1>5, <1>6 DEF k, r

\* While the list is non-empty after pruning, its last failure is recent.
LEMMA RecentLast ==
  ASSUME DoorConstants, FailuresInv, Len(Door!Recent) >= 1
  PROVE  authClock - Door!Recent[Len(Door!Recent)] < Window
  <1> USE DEF FailuresInv
  <1>1. /\ Len(failures) \in Nat /\ DOMAIN failures = 1 .. Len(failures)
        /\ \A i \in 1 .. Len(failures) : failures[i] \in Nat
    OBVIOUS
  <1>2. Len(failures) >= 1 /\ Door!Recent[Len(Door!Recent)] = failures[Len(failures)]
    <2>1. /\ Cardinality(Door!Stale) \in 0 .. Len(failures)
          /\ Len(Door!Recent) = Len(failures) - Cardinality(Door!Stale)
          /\ \A i \in 1 .. Len(Door!Recent) : Door!Recent[i] = failures[i + Cardinality(Door!Stale)]
      BY RecentLength
    <2>2. Len(Door!Recent) \in 1 .. Len(Door!Recent) /\ Len(Door!Recent) + Cardinality(Door!Stale) = Len(failures)
      BY <1>1, <2>1
    <2> QED BY <1>1, <2>1, <2>2
  <1>3. Cardinality(Door!Stale) < Len(failures)
    BY <1>1, RecentLength
  <1>4. Len(failures) \notin Door!Stale
    <2> SUFFICES ASSUME Len(failures) \in Door!Stale PROVE FALSE
      OBVIOUS
    <2>0. authClock - failures[Len(failures)] >= Window /\ Len(failures) \in 1 .. Len(failures)
      BY <1>1, <1>2 DEF Door!Stale
    <2>1. \A i \in 1 .. Len(failures) : authClock - failures[i] >= Window
      <3> SUFFICES ASSUME NEW i \in 1 .. Len(failures) PROVE authClock - failures[i] >= Window
        OBVIOUS
      <3>1. failures[i] <= failures[Len(failures)] /\ {failures[i], failures[Len(failures)]} \subseteq Nat
        BY <1>1, <2>0, SMTT(30)
      <3> QED BY <2>0, <3>1 DEF DoorConstants
    <2>2. Door!Stale = 1 .. Len(failures)
      BY <1>1, <2>1 DEF Door!Stale
    <2> QED BY <1>1, <1>3, <2>2, IntervalCount
  <1> QED BY <1>1, <1>2, <1>4 DEF Door!Stale, DoorConstants

LEMMA ProvingCount ==
  ASSUME DoorConstants
  PROVE  /\ IsFiniteSet(Proving) /\ Cardinality(Proving) \in Nat /\ Cardinality(Conn) \in Nat
         /\ Cardinality(Proving) <= Cardinality(Conn)
         /\ IsFiniteSet(Proving') /\ Cardinality(Proving') \in Nat
         /\ Cardinality(Proving') <= Cardinality(Conn)
  BY FS_Subset, FS_CardinalityType DEF DoorConstants, Proving

LEMMA StaleGrows ==
  ASSUME FailuresInv, FailuresInv', authClock' >= authClock, Window \in Nat,
         failures' = failures \/ failures' = Append(failures, authClock)
  PROVE  Cardinality(Door!Stale) <= Cardinality(Door!Stale')
  <1>1. /\ Door!Stale = OldIn(failures, authClock) /\ Door!Stale' = OldIn(failures', authClock')
        /\ failures \in Seq(Nat) /\ authClock \in Nat /\ failures' \in Seq(Nat) /\ authClock' \in Nat
        /\ authClock <= authClock'
    BY DEF Door!Stale, OldIn, FailuresInv
  <1>2. Len(failures) <= Len(failures') /\ \A i \in 1 .. Len(failures) : failures'[i] = failures[i]
    <2>1. CASE failures' = failures
      BY <1>1, <2>1
    <2>2. CASE failures' = Append(failures, authClock)
      BY <1>1, <2>2
    <2> QED BY <2>1, <2>2
  <1> QED BY <1>1, <1>2, OldGrows

\* RecentLength of the next state.
LEMMA RecentLengthNext ==
  ASSUME FailuresInv'
  PROVE  /\ Cardinality(Door!Stale') \in 0 .. Len(failures')
         /\ Len(Door!Recent') = Len(failures') - Cardinality(Door!Stale')
  <1>1. Door!Stale' = OldIn(failures', authClock') /\ failures' \in Seq(Nat) /\ authClock' \in Nat
    BY DEF Door!Stale, OldIn, FailuresInv
  <1>2. Cardinality(Door!Stale') \in 0 .. Len(failures')
    BY <1>1, OldCount
  <1>3. Door!Recent' = SubSeq(failures', Cardinality(Door!Stale') + 1, Len(failures'))
    BY SameCardinality DEF Door!Recent
  <1> QED BY <1>1, <1>2, <1>3, Suffix

LEMMA DoorNext ==
  ASSUME DoorConstants PROVE DoorInv /\ [Door!Next]_Door!authVars => DoorInv'
  <1> SUFFICES ASSUME DoorInv, [Door!Next]_Door!authVars PROVE DoorInv'
    OBVIOUS
  <1>0. /\ Len(Door!Recent) \in Nat
        /\ Door!GuessesBounded <=>
              Len(Door!Recent) + Cardinality(Proving) <= MaxFailures - 1 + Cardinality(Conn)
        /\ Door!GuessesBounded' <=>
              Len(Door!Recent') + Cardinality(Proving') <= MaxFailures - 1 + Cardinality(Conn)
    BY RecentLength, SameCardinality DEF Door!GuessesBounded, Proving, DoorInv
  <1>1. ASSUME NEW c \in Conn, Door!Connect(c) PROVE DoorInv'
    <2>1. failures' = Door!Recent /\ UNCHANGED authClock
          /\ conn' = [conn EXCEPT ![c] = IF Door!Blocked(Door!Recent) THEN "refused" ELSE "proving"]
      BY <1>1 DEF Door!Connect
    <2>2. FailuresInv'
      <3>1. authClock' \in Nat /\ failures' \in Seq(Nat) /\ DOMAIN failures' = 1 .. Len(Door!Recent)
        BY <2>1, RecentLength DEF DoorInv, FailuresInv
      <3>2. \A i \in 1 .. Len(Door!Recent) :
              /\ Door!Recent[i] = failures[i + Cardinality(Door!Stale)]
              /\ i + Cardinality(Door!Stale) \in DOMAIN failures
        BY RecentLength DEF DoorInv, FailuresInv
      <3>3. Cardinality(Door!Stale) \in Nat
        BY RecentLength DEF DoorInv
      <3>4. \A i, j \in 1 .. Len(Door!Recent) : i <= j => Door!Recent[i] <= Door!Recent[j]
        BY <3>2, <3>3, <1>0 DEF DoorInv, FailuresInv
      <3>5. \A i \in 1 .. Len(Door!Recent) : Door!Recent[i] <= authClock
        BY <3>2 DEF DoorInv, FailuresInv
      <3> QED BY <2>1, <3>1, <3>4, <3>5 DEF FailuresInv
    <2>3. Len(Door!Recent') \in Nat /\ Len(Door!Recent') <= Len(Door!Recent)
      BY <1>0, <2>1, <2>2, RecentLengthNext
    <2>4. CASE Door!Blocked(Door!Recent)
      <3>1. Proving' = Proving
        BY <1>1, <2>1, <2>4 DEF Proving, DoorInv, Door!Connect
      <3>2. Door!GuessesBounded'
        BY <1>0, <2>3, <3>1, ProvingCount DEF DoorInv, DoorConstants
      <3> QED BY <2>1, <2>2, <2>4, <3>2 DEF DoorInv
    <2>5. CASE ~Door!Blocked(Door!Recent)
      <3>1. Len(Door!Recent) < MaxFailures
        <4> SUFFICES ASSUME Len(Door!Recent) >= MaxFailures PROVE FALSE
          BY <1>0 DEF DoorConstants
        <4>1. Len(Door!Recent) >= 1
          BY <1>0 DEF DoorConstants
        <4>2. Door!Recent[Len(Door!Recent)] \in Nat
          BY <4>1, <1>0, RecentLength DEF DoorInv
        <4> QED BY <2>5, <4>1, <4>2, RecentLast DEF Door!Blocked, DoorInv, FailuresInv, DoorConstants
      <3>2. Door!GuessesBounded'
        BY <1>0, <2>3, <3>1, ProvingCount DEF DoorInv, DoorConstants
      <3> QED BY <2>1, <2>2, <2>5, <3>2 DEF DoorInv
    <2> QED BY <2>4, <2>5
  <1>2. ASSUME NEW c \in Conn, Door!Fail(c) PROVE DoorInv'
    <2>1. /\ failures' = Append(failures, authClock) /\ UNCHANGED authClock /\ conn[c] = "proving"
          /\ conn' = [conn EXCEPT ![c] = "idle"]
      BY <1>2 DEF Door!Fail
    <2>2. FailuresInv'
      BY <2>1 DEF DoorInv, FailuresInv
    <2>3. Len(failures') = Len(failures) + 1 /\ Len(failures) \in Nat
      BY <2>1 DEF DoorInv, FailuresInv
    <2>4. Cardinality(Door!Stale) <= Cardinality(Door!Stale')
      BY <2>1, <2>2, StaleGrows DEF DoorInv, DoorConstants, FailuresInv
    <2>5. Len(Door!Recent') \in Nat /\ Len(Door!Recent') <= Len(Door!Recent) + 1
      BY <2>2, <2>3, <2>4, RecentLength, RecentLengthNext DEF DoorInv
    <2>6. Proving' = Proving \ {c} /\ c \in Proving
      BY <2>1 DEF Proving, DoorInv
    <2>7. Cardinality(Proving') = Cardinality(Proving) - 1
      BY <2>6, ProvingCount, FS_RemoveElement
    <2>8. Door!GuessesBounded'
      BY <1>0, <2>5, <2>7, ProvingCount DEF DoorInv, DoorConstants
    <2> QED BY <2>1, <2>2, <2>8 DEF DoorInv
  <1>3. ASSUME NEW c \in Conn, Door!Succeed(c) PROVE DoorInv'
    <2>1. /\ failures' = << >> /\ UNCHANGED authClock
          /\ conn' = [conn EXCEPT ![c] = "idle"]
      BY <1>3 DEF Door!Succeed
    <2>2. FailuresInv'
      BY <2>1 DEF DoorInv, FailuresInv
    <2>3. Len(Door!Recent') = 0
      BY <2>1, <2>2, RecentLengthNext
    <2>4. Door!GuessesBounded'
      BY <1>0, <2>3, ProvingCount DEF DoorConstants
    <2> QED BY <2>1, <2>2, <2>4 DEF DoorInv
  <1>4. ASSUME NEW c \in Conn, Door!Leave(c) PROVE DoorInv'
    <2>1. UNCHANGED <<failures, authClock>> /\ conn' = [conn EXCEPT ![c] = "idle"]
      BY <1>4 DEF Door!Leave
    <2>2. FailuresInv' /\ Door!Recent' = Door!Recent
      BY <2>1 DEF DoorInv, FailuresInv, Door!Recent, Door!Stale
    <2>3. Proving' \subseteq Proving
      BY <2>1 DEF Proving, DoorInv
    <2>4. Cardinality(Proving') <= Cardinality(Proving)
      BY <2>3, ProvingCount, FS_Subset
    <2>5. Door!GuessesBounded'
      BY <1>0, <2>2, <2>4, ProvingCount DEF DoorInv, DoorConstants
    <2> QED BY <2>1, <2>2, <2>5 DEF DoorInv
  <1>5. CASE Door!Tick
    <2>1. UNCHANGED <<failures, conn>> /\ authClock' = authClock + 1
      BY <1>5 DEF Door!Tick
    <2>2. FailuresInv' /\ Proving' = Proving
      BY <2>1 DEF DoorInv, FailuresInv, Proving
    <2>3. Cardinality(Door!Stale) <= Cardinality(Door!Stale')
      BY <2>1, <2>2, StaleGrows DEF DoorInv, DoorConstants, FailuresInv
    <2>4. Len(Door!Recent') \in Nat /\ Len(Door!Recent') <= Len(Door!Recent)
      BY <2>1, <2>2, <2>3, RecentLength, RecentLengthNext DEF DoorInv
    <2>5. Door!GuessesBounded'
      BY <1>0, <2>2, <2>4, ProvingCount DEF DoorInv, DoorConstants
    <2> QED BY <2>1, <2>2, <2>5 DEF DoorInv
  <1>6. CASE Door!Correct \/ UNCHANGED Door!authVars
    BY <1>6 DEF Door!Correct, Door!authVars, DoorInv, FailuresInv, Door!GuessesBounded, Door!Recent,
                Door!Stale
  <1> QED BY <1>1, <1>2, <1>3, <1>4, <1>5, <1>6 DEF Door!Next

LEMMA DoorInit == ASSUME DoorConstants PROVE Door!Init => DoorInv
  <1> SUFFICES ASSUME Door!Init PROVE DoorInv
    OBVIOUS
  <1>1. FailuresInv /\ failures = << >>
    BY DEF Door!Init, FailuresInv
  <1>2. Len(Door!Recent) = 0
    BY <1>1, RecentLength
  <1>3. Door!GuessesBounded
    BY <1>2, ProvingCount, SameCardinality DEF Door!GuessesBounded, Proving, DoorConstants
  <1> QED BY <1>1, <1>3 DEF DoorInv, Door!Init

\* The lockout bounds the guesses within a window for any limit, window, number of
\* connections and refill rate, as long as a block outlasts the window.
THEOREM LockoutBounds == ASSUME DoorConstants PROVE Door!Spec => []GuessesBounded
  <1>1. DoorInv => GuessesBounded
    BY DEF GuessesBounded, DoorInv
  <1> QED BY <1>1, DoorInit, DoorNext, PTL DEF Door!Spec

-----------------------------------------------------------------------------
(***************************************************************************)
(* SendGate                                                                *)
(***************************************************************************)
\* An application that awaits each send.
GateConstants ==
    /\ Rate \in Nat \ {0} /\ {Burst, MaxWait, MaxSession} \subseteq Nat
    /\ Size \in [Msg -> Nat]
    /\ OneSender = TRUE

Call == [pc : {"new", "asleep", "stuck", "done"}, session : Nat, seq : Nat, until : Nat]

GateTypes ==
    /\ {sendClock, tokens, refilled, spent, nextSeq, highest, latest} \subseteq Nat
    /\ refilled <= sendClock /\ tokens <= Burst
    /\ session \in {0, latest}
    /\ task \in [Msg -> Call]
    /\ fate \in [Msg -> Throttle!Fates]

\* What was sent and what may be sent at once stay within the allowance.
AllowanceInv == spent + Throttle!Available <= Burst + Rate * sendClock

\* A call that sleeps finds the tokens it waits for when it wakes, and its frame is
\* the newest of its session; no other call is under way.
SleepInv ==
    /\ highest < nextSeq
    /\ \A m \in Msg : task[m].pc = "asleep" =>
         /\ task[m].until >= refilled
         /\ tokens + (task[m].until - refilled) * Rate >= Throttle!Cost(m)
         /\ task[m].session <= latest
         /\ task[m].session = latest => highest < task[m].seq /\ task[m].seq < nextSeq
    /\ \A m, o \in Msg :
         task[m].pc \in {"asleep", "stuck"} /\ task[o].pc \in {"asleep", "stuck"} => m = o

GateInv == GateTypes /\ AllowanceInv /\ SleepInv /\ Throttle!NoneOvertaken

LEMMA Distributes == \A a, b, r \in Int : (a + b) * r = a * r + b * r
  OBVIOUS

LEMMA Grows == \A a, b, r \in Nat : a <= b => a * r <= b * r
  OBVIOUS

LEMMA RoundedUp ==
  ASSUME NEW a \in Nat \ {0}, NEW r \in Nat \ {0}
  PROVE  /\ (a + r - 1) \div r \in Nat \ {0}
         /\ ((a + r - 1) \div r) * r >= a
  OBVIOUS

LEMMA Tokens ==
  ASSUME GateConstants, GateTypes
  PROVE  /\ Throttle!Available \in Nat /\ Throttle!Available <= Burst
         /\ Throttle!Available <= tokens + (sendClock - refilled) * Rate
         /\ \A m \in Msg : Throttle!Cost(m) \in Nat /\ Throttle!Cost(m) <= Burst
  <1>1. sendClock - refilled \in Nat /\ (sendClock - refilled) * Rate \in Nat
    BY DEF GateConstants, GateTypes
  <1> QED BY <1>1 DEF GateConstants, GateTypes, Throttle!Available, Throttle!AtMost, Throttle!Cost

\* TokenBucket.consume when there is enough: what is left is what was there.
LEMMA Consumed ==
  ASSUME GateConstants, GateTypes, NEW m \in Msg, Throttle!Available >= Throttle!Cost(m),
         Throttle!Consume(Throttle!Cost(m)), UNCHANGED sendClock
  PROVE  /\ tokens' \in Nat /\ tokens' <= Burst /\ refilled' = sendClock
         /\ Throttle!Available' = Throttle!Available - Throttle!Cost(m)
  <1>1. /\ refilled' = sendClock
        /\ tokens' = Throttle!Available - Throttle!Cost(m)
    BY DEF Throttle!Consume
  <1>2. tokens' \in Nat /\ tokens' <= Burst
    BY <1>1, Tokens DEF GateConstants
  <1>3. sendClock' - refilled' = 0 /\ 0 * Rate = 0
    BY <1>1 DEF GateTypes, GateConstants
  <1>4. Throttle!Available' = tokens'
    BY <1>2, <1>3 DEF Throttle!Available, Throttle!AtMost, GateConstants
  <1> QED BY <1>1, <1>2, <1>4

\* ws.send of the only call under way.
LEMMA Transmitted ==
  ASSUME GateConstants, GateInv, NEW m \in Msg, NEW t \in Call, Throttle!Transmit(m, t),
         UNCHANGED <<sendClock, latest, session>>,
         Throttle!Available >= Throttle!Cost(m),
         nextSeq' \in Nat, nextSeq' >= nextSeq,
         t.session = latest => highest < t.seq /\ t.seq < nextSeq',
         \A o \in Msg \ {m} : task[o].pc \in {"new", "done"}
  PROVE  GateInv'
  <1>1. /\ tokens' \in Nat /\ tokens' <= Burst /\ refilled' = sendClock
        /\ Throttle!Available' = Throttle!Available - Throttle!Cost(m)
    BY Consumed DEF GateInv, Throttle!Transmit
  <1>2. /\ task' \in [Msg -> Call]
        /\ task'[m].pc \in {"done", "stuck"}
        /\ \A o \in Msg \ {m} : task'[o] = task[o]
    <2>1. [t EXCEPT !.pc = "done"] \in Call /\ [t EXCEPT !.pc = "done"].pc = "done"
      BY DEF Call
    <2>2. [t EXCEPT !.pc = "stuck"] \in Call /\ [t EXCEPT !.pc = "stuck"].pc = "stuck"
      BY DEF Call
    <2> QED BY <2>1, <2>2 DEF Throttle!Transmit, GateInv, GateTypes
  <1>3. \/ UNCHANGED <<highest, fate, spent>>
        \/ /\ t.session = latest /\ highest' = t.seq
           /\ fate' = [fate EXCEPT ![m] = "received"]
           /\ spent' = spent + Throttle!Cost(m)
    BY DEF Throttle!Transmit, Throttle!Works, Throttle!Arrive, Call, GateInv, GateTypes
  <1>4. GateTypes'
    <2>1. spent' \in Nat /\ highest' \in Nat /\ highest' < nextSeq'
      BY <1>3, Tokens DEF GateInv, GateTypes, SleepInv, Call
    <2>2. fate' \in [Msg -> Throttle!Fates] /\ \A o \in Msg : fate'[o] # "refused"
      BY <1>3 DEF GateInv, GateTypes, Throttle!Fates, Throttle!NoneOvertaken
    <2> QED BY <1>1, <1>2, <2>1, <2>2 DEF GateInv, GateTypes
  <1>5. AllowanceInv'
    <2>1. spent' <= spent + Throttle!Cost(m)
      BY <1>3, Tokens DEF GateInv, GateTypes
    <2>2. Rate * sendClock' = Rate * sendClock /\ Rate * sendClock \in Nat
      BY DEF GateInv, GateTypes, GateConstants
    <2>3. spent' \in Nat /\ Throttle!Available' \in Nat
      BY <1>1, <1>4, Tokens DEF GateTypes, GateInv
    <2> QED BY <1>1, <2>1, <2>2, <2>3, Tokens DEF GateInv, GateTypes, AllowanceInv, GateConstants
  <1>6. SleepInv'
    <2>1. highest' < nextSeq'
      BY <1>3 DEF GateInv, GateTypes, SleepInv, Call
    <2>2. \A o \in Msg : task'[o].pc # "asleep"
      BY <1>2 DEF GateInv
    <2>3. \A o \in Msg : task'[o].pc \in {"asleep", "stuck"} => o = m
      BY <1>2
    <2> QED BY <2>1, <2>2, <2>3 DEF SleepInv
  <1>7. Throttle!NoneOvertaken'
    BY <1>3 DEF GateInv, GateTypes, Throttle!NoneOvertaken
  <1> QED BY <1>4, <1>5, <1>6, <1>7 DEF GateInv

LEMMA GateSendDirect ==
  ASSUME GateConstants, GateInv, NEW m \in Msg, Throttle!SendDirect(m)
  PROVE  GateInv'
  <1> DEFINE cost == Throttle!Cost(m)
             wait == Throttle!WaitTime(cost)
             t == [pc |-> "asleep", session |-> session, seq |-> nextSeq, until |-> sendClock + wait]
  <1>1. /\ task[m].pc = "new" /\ session # 0 /\ nextSeq' = nextSeq + 1
        /\ UNCHANGED <<sendClock, session, latest, alive>>
        /\ \A o \in Msg \ {m} : task[o].pc \in {"new", "done"}
    BY DEF Throttle!SendDirect, Throttle!Awaited, GateConstants
  <1>2. /\ wait \in Nat
        /\ wait = 0 => Throttle!Available >= cost
        /\ Throttle!Available + wait * Rate >= cost
    <2>1. CASE Throttle!Available >= cost
      <3>1. wait = 0 /\ 0 * Rate = 0
        BY <2>1 DEF Throttle!WaitTime, GateConstants
      <3> QED BY <2>1, <3>1, Tokens DEF GateInv
    <2>2. CASE Throttle!Available < cost
      <3>1. cost - Throttle!Available \in Nat \ {0}
        BY <2>2, Tokens DEF GateInv
      <3>2. wait = (cost - Throttle!Available + Rate - 1) \div Rate
        BY <2>2, Tokens DEF Throttle!WaitTime, GateInv
      <3>3. wait \in Nat \ {0} /\ wait * Rate >= cost - Throttle!Available
        BY <3>1, <3>2, RoundedUp DEF GateConstants
      <3>4. wait * Rate \in Nat
        BY <3>3 DEF GateConstants
      <3> QED BY <3>3, <3>4, Tokens DEF GateInv
    <2> QED BY <2>1, <2>2, Tokens DEF GateInv
  <1>3. t \in Call /\ t.session = latest /\ t.seq = nextSeq /\ t.pc = "asleep" /\ t.until = sendClock + wait
    BY <1>1, <1>2 DEF Call, GateInv, GateTypes
  <1>4. highest < nextSeq /\ nextSeq < nextSeq' /\ nextSeq' \in Nat
    BY <1>1 DEF GateInv, GateTypes, SleepInv
  <1>5. CASE wait = 0
    <2>1. Throttle!Transmit(m, t)
      BY <1>5 DEF Throttle!SendDirect, GateConstants
    <2> HIDE DEF t
    <2> QED BY <1>1, <1>2, <1>3, <1>4, <1>5, <2>1, Transmitted DEF GateInv, GateTypes
  <1>6. CASE wait # 0
    <2>1. UNCHANGED <<tokens, refilled, highest, spent>>
      BY <1>2, <1>6 DEF Throttle!SendDirect, Throttle!bucketVars
    <2>2. AllowanceInv'
      BY <1>1, <2>1 DEF GateInv, AllowanceInv, Throttle!Available
    <2>3. CASE task' = [task EXCEPT ![m].pc = "done"] /\ fate' = [fate EXCEPT ![m] = "dropped"]
      <3>1. /\ task' \in [Msg -> Call] /\ task'[m].pc = "done"
            /\ \A o \in Msg \ {m} : task'[o] = task[o]
        BY <2>3 DEF GateInv, GateTypes, Call
      <3>2. fate' \in [Msg -> Throttle!Fates] /\ Throttle!NoneOvertaken'
        BY <2>3 DEF GateInv, GateTypes, Throttle!Fates, Throttle!NoneOvertaken
      <3>3. GateTypes'
        BY <1>1, <1>4, <2>1, <3>1, <3>2 DEF GateInv, GateTypes
      <3>4. SleepInv'
        BY <1>1, <1>4, <2>1, <3>1 DEF GateInv, GateTypes, SleepInv
      <3> QED BY <2>2, <3>2, <3>3, <3>4 DEF GateInv
    <2>4. CASE task' = [task EXCEPT ![m] = t] /\ UNCHANGED fate
      <3>1. task' \in [Msg -> Call] /\ task'[m] = t /\ \A o \in Msg \ {m} : task'[o] = task[o]
        BY <1>3, <2>4 DEF GateInv, GateTypes
      <3>2. t.until >= refilled /\ tokens + (t.until - refilled) * Rate >= cost
        <4>1. sendClock - refilled \in Nat /\ (sendClock - refilled) * Rate \in Nat /\ wait * Rate \in Nat
          BY <1>2 DEF GateInv, GateTypes, GateConstants
        <4>2. t.until - refilled = (sendClock - refilled) + wait
          BY <1>2, <1>3 DEF GateInv, GateTypes
        <4>3. (t.until - refilled) * Rate = (sendClock - refilled) * Rate + wait * Rate
          BY <1>2, <4>1, <4>2, Distributes DEF GateConstants
        <4>4. t.until >= refilled
          BY <1>2, <1>3 DEF GateInv, GateTypes
        <4> QED BY <1>2, <4>1, <4>3, <4>4, Tokens DEF GateInv, GateTypes
      <3>3. GateTypes'
        BY <1>1, <1>4, <2>1, <2>4, <3>1 DEF GateInv, GateTypes
      <3>4. Throttle!Cost(m)' = cost
        BY DEF Throttle!Cost, Throttle!AtMost
      <3>5. SleepInv'
        <4> HIDE DEF t, cost
        <4>1. \A o \in Msg : task'[o].pc \in {"asleep", "stuck"} => o = m
          BY <1>1, <3>1
        <4>2. highest' < nextSeq'
          BY <1>4, <2>1 DEF GateInv, GateTypes
        <4>3. /\ task'[m].until >= refilled'
              /\ tokens' + (task'[m].until - refilled') * Rate >= Throttle!Cost(m)'
          BY <2>1, <3>1, <3>2, <3>4
        <4>4. /\ task'[m].session <= latest'
              /\ highest' < task'[m].seq /\ task'[m].seq < nextSeq'
          BY <1>1, <1>3, <1>4, <2>1, <3>1 DEF GateInv, GateTypes
        <4> QED BY <4>1, <4>2, <4>3, <4>4 DEF SleepInv
      <3> QED BY <2>2, <2>4, <3>3, <3>5 DEF GateInv, Throttle!NoneOvertaken
    <2> QED BY <1>2, <1>6, <2>3, <2>4 DEF Throttle!SendDirect
  <1> QED BY <1>5, <1>6

LEMMA GateWake ==
  ASSUME GateConstants, GateInv, NEW m \in Msg, Throttle!Wake(m)
  PROVE  GateInv'
  <1>1. /\ task[m].pc = "asleep" /\ sendClock >= task[m].until
        /\ Throttle!Transmit(m, task[m])
        /\ UNCHANGED <<sendClock, session, latest, alive, nextSeq>>
    BY DEF Throttle!Wake
  <1>2. task[m] \in Call /\ task[m].until \in Nat
    BY DEF GateInv, GateTypes, Call
  <1>3. \A o \in Msg \ {m} : task[o].pc \in {"new", "done"}
    BY <1>1 DEF GateInv, SleepInv, GateTypes, Call
  <1>4. Throttle!Available >= Throttle!Cost(m)
    <2>1. task[m].until - refilled \in Nat /\ sendClock - refilled \in Nat
          /\ task[m].until - refilled <= sendClock - refilled
      BY <1>1, <1>2 DEF GateInv, GateTypes, SleepInv
    <2>2. (task[m].until - refilled) * Rate <= (sendClock - refilled) * Rate
      BY <2>1, Grows DEF GateConstants
    <2>3. (task[m].until - refilled) * Rate \in Nat /\ (sendClock - refilled) * Rate \in Nat
      BY <2>1 DEF GateConstants
    <2>4. tokens + (task[m].until - refilled) * Rate >= Throttle!Cost(m)
      BY <1>1 DEF GateInv, SleepInv
    <2>5. tokens + (sendClock - refilled) * Rate >= Throttle!Cost(m)
      BY <2>2, <2>3, <2>4, Tokens DEF GateInv, GateTypes
    <2> QED BY <2>5, Tokens DEF Throttle!Available, Throttle!AtMost, GateInv
  <1>5. task[m].session = latest => highest < task[m].seq /\ task[m].seq < nextSeq
    BY <1>1 DEF GateInv, SleepInv
  <1> QED BY <1>1, <1>2, <1>3, <1>4, <1>5, Transmitted DEF GateInv, GateTypes

LEMMA GateOtherSends ==
  ASSUME GateConstants, GateInv, NEW m \in Msg, Throttle!SendElse(m) \/ Throttle!SendFails(m)
  PROVE  GateInv'
  <1>1. /\ UNCHANGED <<sendClock, tokens, refilled, latest, nextSeq, highest, spent>>
        /\ task' = [task EXCEPT ![m].pc = "done"] /\ session' = 0
    BY DEF Throttle!SendElse, Throttle!SendFails, Throttle!bucketVars
  <1>2. PICK f \in {"routed", "queued", "failed"} : fate' = [fate EXCEPT ![m] = f]
    BY DEF Throttle!SendElse, Throttle!SendFails
  <1>3. /\ task' \in [Msg -> Call] /\ task'[m].pc = "done"
        /\ \A o \in Msg \ {m} : task'[o] = task[o]
    BY <1>1 DEF GateInv, GateTypes, Call
  <1>4. fate' \in [Msg -> Throttle!Fates] /\ Throttle!NoneOvertaken'
    BY <1>2 DEF GateInv, GateTypes, Throttle!Fates, Throttle!NoneOvertaken
  <1>5. GateTypes'
    BY <1>1, <1>3, <1>4 DEF GateInv, GateTypes
  <1>6. AllowanceInv'
    BY <1>1 DEF GateInv, AllowanceInv, Throttle!Available
  <1>7. SleepInv'
    BY <1>1, <1>3 DEF GateInv, GateTypes, SleepInv, Throttle!Cost, Throttle!AtMost
  <1> QED BY <1>4, <1>5, <1>6, <1>7 DEF GateInv

LEMMA GateTick == ASSUME GateConstants, GateInv, Throttle!Tick PROVE GateInv'
  <1>1. /\ sendClock' = sendClock + 1
        /\ UNCHANGED <<tokens, refilled, session, latest, nextSeq, task, highest, fate, spent>>
    BY DEF Throttle!Tick, Throttle!bucketVars
  <1>2. GateTypes' /\ SleepInv' /\ Throttle!NoneOvertaken'
    BY <1>1 DEF GateInv, GateTypes, SleepInv, Throttle!NoneOvertaken, Throttle!Cost, Throttle!AtMost
  <1>3. AllowanceInv'
    <2>1. sendClock' - refilled' = (sendClock - refilled) + 1 /\ 1 * Rate = Rate
      BY <1>1 DEF GateInv, GateTypes, GateConstants
    <2>2. (sendClock' - refilled') * Rate = (sendClock - refilled) * Rate + Rate
      BY <2>1, Distributes DEF GateInv, GateTypes, GateConstants
    <2>3. (sendClock - refilled) * Rate \in Nat
      BY DEF GateInv, GateTypes, GateConstants
    <2>4. Throttle!Available' \in Nat /\ Throttle!Available' <= Throttle!Available + Rate
      BY <1>1, <2>2, <2>3 DEF GateInv, GateTypes, GateConstants, Throttle!Available, Throttle!AtMost
    <2>5. Rate * sendClock' = Rate * sendClock + Rate /\ Rate * sendClock \in Nat
      BY <1>1 DEF GateInv, GateTypes, GateConstants
    <2> QED BY <1>1, <2>4, <2>5, Tokens DEF GateInv, GateTypes, AllowanceInv, GateConstants
  <1> QED BY <1>2, <1>3 DEF GateInv

LEMMA GateSockets ==
  ASSUME GateConstants, GateInv,
         \/ Throttle!SocketDies \/ Throttle!LinkLost \/ Throttle!Reconnect
         \/ UNCHANGED Throttle!gateVars
  PROVE  GateInv'
  <1>1. UNCHANGED <<sendClock, tokens, refilled, task, fate, spent>>
    BY DEF Throttle!SocketDies, Throttle!LinkLost, Throttle!Reconnect, Throttle!gateVars,
           Throttle!bucketVars
  <1>2. AllowanceInv' /\ Throttle!NoneOvertaken'
    BY <1>1 DEF GateInv, AllowanceInv, Throttle!Available, Throttle!NoneOvertaken
  <1>3. CASE UNCHANGED <<latest, nextSeq, highest>> /\ session' \in {0, session}
    BY <1>1, <1>2, <1>3 DEF GateInv, GateTypes, SleepInv, Throttle!Cost, Throttle!AtMost
  <1>4. CASE Throttle!Reconnect
    <2>1. latest' = latest + 1 /\ session' = latest' /\ nextSeq' = 1 /\ highest' = 0
      BY <1>4 DEF Throttle!Reconnect
    <2>2. GateTypes'
      BY <1>1, <2>1 DEF GateInv, GateTypes
    <2>3. \A m \in Msg : task[m].pc = "asleep" => task[m].session <= latest /\ task[m].session \in Nat
      BY DEF GateInv, GateTypes, SleepInv, Call
    <2>4. SleepInv'
      BY <1>1, <2>1, <2>3 DEF GateInv, GateTypes, SleepInv, Throttle!Cost, Throttle!AtMost
    <2> QED BY <1>2, <2>2, <2>4 DEF GateInv
  <1> QED BY <1>3, <1>4 DEF Throttle!SocketDies, Throttle!LinkLost, Throttle!gateVars

LEMMA GateInit == ASSUME GateConstants PROVE Throttle!Init => GateInv
  <1> SUFFICES ASSUME Throttle!Init PROVE GateInv
    OBVIOUS
  <1>1. Throttle!NewTask \in Call /\ Throttle!NewTask.pc = "new"
    BY DEF Throttle!NewTask, Call
  <1>2. GateTypes
    BY <1>1 DEF Throttle!Init, GateTypes, GateConstants, Throttle!Fates
  <1>3. AllowanceInv
    <2>1. (sendClock - refilled) * Rate = 0 /\ Rate * sendClock = 0
      BY DEF Throttle!Init, GateConstants
    <2> QED BY <2>1 DEF Throttle!Init, AllowanceInv, GateConstants, Throttle!Available, Throttle!AtMost
  <1>4. SleepInv /\ Throttle!NoneOvertaken
    BY <1>1 DEF Throttle!Init, SleepInv, Throttle!NoneOvertaken
  <1> QED BY <1>2, <1>3, <1>4 DEF GateInv

\* The bandwidth gate keeps the rate, and no frame of an application that awaits its
\* sends is refused as a replay, for every rate, burst, longest wait and sizes of
\* frames, over sockets that die, stall and return.
THEOREM ThrottleHolds ==
  ASSUME GateConstants PROVE Throttle!Spec => []RateKept
  <1>1. GateInv => RateKept
    <2> SUFFICES ASSUME GateInv PROVE Throttle!RateKept
      BY DEF RateKept, GateInv
    <2>1. Rate * sendClock \in Nat
      BY DEF GateInv, GateTypes, GateConstants
    <2> QED BY <2>1, Tokens DEF GateInv, GateTypes, AllowanceInv, Throttle!RateKept, GateConstants
  <1>2. GateInv /\ [Throttle!Next]_Throttle!gateVars => GateInv'
    BY GateSendDirect, GateWake, GateOtherSends, GateTick, GateSockets
       DEF Throttle!Next, Throttle!SendStep
  <1> QED BY <1>1, <1>2, GateInit, PTL DEF Throttle!Spec
-----------------------------------------------------------------------------
(***************************************************************************)
(* RnsLink                                                                 *)
(***************************************************************************)
(* Total is the sum of a function's values, as the number of its units:    *)
(* sums over finite sets without recursion.                                *)
LEMMA UnitOf ==
  ASSUME NEW D, NEW f \in [D -> Int]
  PROVE  \A p : p \in Units(f) <=> \E i \in D : \E b \in 1 .. f[i] : p = <<i, b>>
  BY DEF Units

\* Units(f) is a finite union of finite sets.
LEMMA UnitsFinite ==
  ASSUME NEW D, IsFiniteSet(D), NEW f \in [D -> Int]
  PROVE  IsFiniteSet(Units(f)) /\ Total(f) \in Nat
  <1> DEFINE Of == [i \in D |-> {i} \X (1 .. f[i])]
             All == {{i} \X (1 .. f[i]) : i \in D}
  <1>1. Of \in Surjection(D, All)
    <2>1. Of \in [D -> All]
      OBVIOUS
    <2>2. \A t \in All : \E i \in D : Of[i] = t
      OBVIOUS
    <2> QED BY <2>1, <2>2, Fun_IsSurj
  <1>2. IsFiniteSet(All)
    BY <1>1, FS_Surjection
  <1>3. \A t \in All : IsFiniteSet(t)
    <2>1. SUFFICES ASSUME NEW i \in D PROVE IsFiniteSet({i} \X (1 .. f[i]))
      OBVIOUS
    <2>2. f[i] \in Int /\ 1 \in Int
      OBVIOUS
    <2>3. IsFiniteSet(1 .. f[i]) /\ IsFiniteSet({i})
      BY <2>2, FS_Interval, FS_Singleton
    <2> QED BY <2>3, FS_Product
  <1>4. IsFiniteSet(UNION All)
    BY <1>2, <1>3, FS_UNION
  <1>5. Units(f) = UNION All
    BY DEF Units
  <1> QED BY <1>4, <1>5, FS_CardinalityType DEF Total

\* A sum grows with its values, ...
LEMMA TotalMono ==
  ASSUME NEW D, IsFiniteSet(D), NEW f \in [D -> Int], NEW g \in [D -> Int],
         \A i \in D : f[i] <= g[i]
  PROVE  Total(f) <= Total(g)
  <1>1. Units(f) \in SUBSET Units(g)
    <2>1. SUFFICES ASSUME NEW i \in D, NEW b \in 1 .. f[i] PROVE <<i, b>> \in Units(g)
      BY UnitOf
    <2>2. b \in 1 .. g[i]
      OBVIOUS
    <2> QED BY <2>2, UnitOf
  <1> QED BY <1>1, UnitsFinite, FS_Subset DEF Total

LEMMA TotalZero ==
  ASSUME NEW D, NEW f \in [D -> Int], \A i \in D : f[i] = 0
  PROVE  Total(f) = 0
  <1>1. Units(f) = {}
    BY DEF Units
  <1> QED BY <1>1, FS_EmptySet DEF Total

\* ... is the sum over a part and the rest, ...
LEMMA TotalSplit ==
  ASSUME NEW D, IsFiniteSet(D), NEW f \in [D -> Int], NEW A \in SUBSET D
  PROVE  Total(f) = Total([i \in A |-> f[i]]) + Total([i \in D \ A |-> f[i]])
  <1> DEFINE g == [i \in A |-> f[i]]
             h == [i \in D \ A |-> f[i]]
  <1>1. IsFiniteSet(A) /\ IsFiniteSet(D \ A)
    BY FS_Subset, FS_Difference
  <1>2. /\ IsFiniteSet(Units(g)) /\ Cardinality(Units(g)) \in Nat
        /\ IsFiniteSet(Units(h)) /\ Cardinality(Units(h)) \in Nat
    <2>1. g \in [A -> Int] /\ h \in [D \ A -> Int]
      OBVIOUS
    <2> HIDE DEF g, h
    <2> QED BY <1>1, <2>1, UnitsFinite DEF Total
  <1>3. /\ \A p : p \in Units(f) <=> \E i \in D : \E b \in 1 .. f[i] : p = <<i, b>>
        /\ \A p : p \in Units(g) <=> \E i \in A : \E b \in 1 .. f[i] : p = <<i, b>>
        /\ \A p : p \in Units(h) <=> \E i \in D \ A : \E b \in 1 .. f[i] : p = <<i, b>>
    BY DEF Units
  <1> HIDE DEF g, h
  <1>4. Units(f) = Units(g) \cup Units(h)
    BY <1>3
  <1>5. Units(g) \cap Units(h) = {}
    <2>1. SUFFICES ASSUME NEW p \in Units(g), p \in Units(h) PROVE FALSE
      OBVIOUS
    <2>2. PICK i \in A : \E b \in 1 .. f[i] : p = <<i, b>>
      BY <1>3, <2>1
    <2>3. PICK j \in D \ A : \E b \in 1 .. f[j] : p = <<j, b>>
      BY <1>3, <2>1
    <2> QED BY <2>2, <2>3
  <1>6. Cardinality(Units(f)) = Cardinality(Units(g)) + Cardinality(Units(h)) - 0
    <2>1. Cardinality(Units(g) \cap Units(h)) = 0
      BY <1>5, FS_EmptySet
    <2>2. Cardinality(Units(g) \cup Units(h)) =
            Cardinality(Units(g)) + Cardinality(Units(h)) - Cardinality(Units(g) \cap Units(h))
      BY <1>2, FS_Union
    <2> QED BY <1>4, <2>1, <2>2
  <1>7. Total(f) = Total(g) + Total(h)
    BY <1>2, <1>6 DEF Total
  <1> QED BY <1>7 DEF g, h

LEMMA TotalOne ==
  ASSUME NEW i, NEW n \in Nat, NEW f \in [{i} -> Int], f[i] = n
  PROVE  Total(f) = n
  <1>1. Units(f) = {i} \X (1 .. n)
    BY DEF Units
  <1>2. 1 \in Int /\ n \in Int /\ (IF 1 > n THEN 0 ELSE n - 1 + 1) = n
    OBVIOUS
  <1>3. IsFiniteSet(1 .. n) /\ Cardinality(1 .. n) = n
    BY <1>2, FS_Interval
  <1>4. IsFiniteSet({i}) /\ Cardinality({i}) = 1
    BY FS_Singleton
  <1>5. Cardinality({i} \X (1 .. n)) = 1 * n
    BY <1>3, <1>4, FS_Product
  <1> QED BY <1>1, <1>5 DEF Total

\* ... and follows the change of one value.
LEMMA TotalChange ==
  ASSUME NEW D, IsFiniteSet(D), NEW f \in [D -> Nat], NEW g \in [D -> Nat], NEW i \in D,
         \A j \in D \ {i} : g[j] = f[j]
  PROVE  Total(g) = Total(f) - f[i] + g[i] /\ f[i] <= Total(f)
  <1> DEFINE one(h) == [j \in {i} |-> h[j]]
             rest(h) == [j \in D \ {i} |-> h[j]]
  <1>1. f \in [D -> Int] /\ g \in [D -> Int] /\ {i} \in SUBSET D
    OBVIOUS
  <1>2. Total(f) = Total(one(f)) + Total(rest(f)) /\ Total(g) = Total(one(g)) + Total(rest(g))
    BY <1>1, TotalSplit
  <1>3. rest(f) = rest(g)
    OBVIOUS
  <1>4. Total(one(f)) = f[i] /\ Total(one(g)) = g[i]
    <2>1. /\ one(f) \in [{i} -> Int] /\ one(f)[i] = f[i] /\ f[i] \in Nat
          /\ one(g) \in [{i} -> Int] /\ one(g)[i] = g[i] /\ g[i] \in Nat
      OBVIOUS
    <2> HIDE DEF one
    <2> QED BY <2>1, TotalOne
  <1>5. Total(rest(f)) \in Nat
    <2>1. rest(f) \in [D \ {i} -> Int]
      OBVIOUS
    <2> HIDE DEF rest
    <2>2. IsFiniteSet(D \ {i})
      BY FS_Difference
    <2> QED BY <2>1, <2>2, UnitsFinite
  <1>6. f[i] \in Nat /\ g[i] \in Nat
    OBVIOUS
  <1> HIDE DEF one, rest
  <1> QED BY <1>2, <1>3, <1>4, <1>5, <1>6

LEMMA TotalSeq ==
  ASSUME NEW s \in Seq(Int)
  PROVE  s \in [1 .. Len(s) -> Int] /\ IsFiniteSet(1 .. Len(s)) /\ Total(s) \in Nat
  <1>1. Len(s) \in Nat /\ Len(s) \in Int /\ 1 \in Int /\ s \in [1 .. Len(s) -> Int]
    OBVIOUS
  <1>2. IsFiniteSet(1 .. Len(s))
    BY <1>1, FS_Interval
  <1> QED BY <1>1, <1>2, UnitsFinite

\* The bytes of two queues, one after the other.
LEMMA TotalConcat ==
  ASSUME NEW s \in Seq(Int), NEW t \in Seq(Int)
  PROVE  Total(s \o t) = Total(s) + Total(t)
  <1> DEFINE n == Len(s)
             tail == [i \in n + 1 .. n + Len(t) |-> t[i - n]]
             Shift == [p \in Units(t) |-> <<p[1] + n, p[2]>>]
  <1>1. /\ n \in Nat /\ Len(t) \in Nat /\ s \o t \in Seq(Int) /\ Len(s \o t) = n + Len(t)
        /\ \A i \in 1 .. n : (s \o t)[i] = s[i]
        /\ \A i \in n + 1 .. n + Len(t) : (s \o t)[i] = t[i - n] /\ t[i - n] \in Int
        /\ DOMAIN tail = n + 1 .. n + Len(t)
    <2>1. n \in Nat /\ Len(t) \in Nat /\ s \o t \in Seq(Int) /\ Len(s \o t) = n + Len(t)
      BY ConcatProperties
    <2>2. \A i \in 1 .. n : i \in 1 .. n + Len(t)
      BY <2>1
    <2>3. \A i \in n + 1 .. n + Len(t) : i \in 1 .. n + Len(t) /\ ~(i <= n) /\ i - n \in 1 .. Len(t)
      BY <2>1
    <2>4. \A i \in 1 .. n + Len(t) : (s \o t)[i] = IF i <= n THEN s[i] ELSE t[i - n]
      BY ConcatProperties
    <2>5. \A i \in 1 .. Len(t) : t[i] \in Int
      OBVIOUS
    <2>6. \A i \in 1 .. n : (s \o t)[i] = s[i]
      BY <2>1, <2>2, <2>4
    <2>7. \A i \in n + 1 .. n + Len(t) : (s \o t)[i] = t[i - n] /\ t[i - n] \in Int
      BY <2>3, <2>4, <2>5
    <2> QED BY <2>1, <2>6, <2>7
  <1>2. /\ s \in [1 .. n -> Int] /\ t \in [1 .. Len(t) -> Int]
        /\ s \o t \in [1 .. n + Len(t) -> Int] /\ tail \in [n + 1 .. n + Len(t) -> Int]
        /\ IsFiniteSet(1 .. n + Len(t)) /\ IsFiniteSet(Units(t))
    <2>1. s \o t \in [1 .. n + Len(t) -> Int] /\ IsFiniteSet(1 .. n + Len(t))
      BY <1>1, TotalSeq
    <2>2. tail \in [n + 1 .. n + Len(t) -> Int]
      BY <1>1
    <2>3. t \in [1 .. Len(t) -> Int] /\ IsFiniteSet(1 .. Len(t))
      BY TotalSeq
    <2>4. IsFiniteSet(Units(t))
      BY <2>3, UnitsFinite
    <2> QED BY <2>1, <2>2, <2>3, <2>4, TotalSeq
  <1>3. Total(s \o t) = Total(s) + Total(tail)
    <2> DEFINE all == 1 .. n + Len(t)
               front == 1 .. n
               u == s \o t
    <2>1. front \in SUBSET all /\ IsFiniteSet(all) /\ u \in [all -> Int]
      BY <1>1, <1>2
    <2>2. s = [i \in front |-> u[i]]
      BY <1>1, <1>2
    <2>3. tail = [i \in all \ front |-> u[i]]
      <3>1. all \ front = n + 1 .. n + Len(t)
        BY <1>1
      <3> QED BY <1>1, <3>1
    <2>4. Total(u) = Total([i \in front |-> u[i]]) + Total([i \in all \ front |-> u[i]])
      <3> HIDE DEF all, front, u, tail, Shift
      <3> QED BY <2>1, TotalSplit, ZenonT(30)
    <2> QED BY <2>2, <2>3, <2>4, Zenon
  <1>4. Shift \in Bijection(Units(t), Units(tail))
    <2>u. /\ \A p : p \in Units(t) <=> \E i \in 1 .. Len(t) : \E b \in 1 .. t[i] : p = <<i, b>>
          /\ \A p : p \in Units(tail) <=>
                      \E i \in n + 1 .. n + Len(t) : \E b \in 1 .. tail[i] : p = <<i, b>>
      <3> HIDE DEF tail, Shift, n
      <3>1. DOMAIN tail = n + 1 .. n + Len(t) /\ DOMAIN t = 1 .. Len(t)
        BY <1>1
      <3> HIDE DEF tail, Shift, n
      <3> QED BY <3>1, SMT DEF Units
    <2>1. \A p \in Units(t) : /\ p[1] \in 1 .. Len(t) /\ p[2] \in 1 .. t[p[1]] /\ p = <<p[1], p[2]>>
      BY <2>u
    <2>2. \A p \in Units(t) : Shift[p] \in Units(tail)
      <3>1. SUFFICES ASSUME NEW p \in Units(t) PROVE <<p[1] + n, p[2]>> \in Units(tail)
        OBVIOUS
      <3>2. p[1] \in 1 .. Len(t) /\ p[2] \in 1 .. t[p[1]]
        BY <2>1
      <3>3. p[1] + n \in n + 1 .. n + Len(t) /\ (p[1] + n) - n = p[1]
        BY <1>1, <3>2
      <3>4. tail[p[1] + n] = t[p[1]]
        BY <3>3
      <3> QED BY <2>u, <3>2, <3>3, <3>4
    <2>3. ASSUME NEW p \in Units(t), NEW q \in Units(t), Shift[p] = Shift[q] PROVE p = q
      <3>1. p[1] + n = q[1] + n /\ p[2] = q[2]
        BY <2>3
      <3>2. p[1] = q[1]
        BY <1>1, <2>1, <3>1
      <3> QED BY <2>1, <3>1, <3>2
    <2>4. ASSUME NEW u \in Units(tail) PROVE \E p \in Units(t) : Shift[p] = u
      <3>1. PICK i \in n + 1 .. n + Len(t) : \E b \in 1 .. tail[i] : u = <<i, b>>
        BY <2>u
      <3>2. PICK b \in 1 .. tail[i] : u = <<i, b>>
        BY <3>1
      <3>3. i - n \in 1 .. Len(t) /\ (i - n) + n = i /\ tail[i] = t[i - n]
        BY <1>1, <3>1
      <3>4. <<i - n, b>> \in Units(t)
        BY <2>u, <3>2, <3>3
      <3>5. Shift[<<i - n, b>>] = <<(i - n) + n, b>>
        BY <3>4
      <3> QED BY <3>2, <3>3, <3>4, <3>5
    <2>5. Shift \in [Units(t) -> Units(tail)]
      BY <2>2
    <2> QED BY <2>3, <2>4, <2>5, Fun_IsBij
  <1>5. Total(tail) = Total(t)
    BY <1>2, <1>4, FS_Bijection, Fun_ExistsBij DEF Total
  <1> QED BY <1>3, <1>5

LEMMA TotalSingle ==
  ASSUME NEW n \in Nat PROVE Total(<<n>>) = n
  <1>1. <<n>> \in [{1} -> Int] /\ <<n>>[1] = n
    OBVIOUS
  <1> QED BY <1>1, TotalOne

\* Finitely many adapters; sizes are naturals.
LinkConstants ==
    /\ IsFiniteSet(Link)
    /\ {MaxPeer, MaxIdentity, MaxMsg, Header} \subseteq Nat /\ Chunk \subseteq Nat

Adapter == [up : BOOLEAN, closed : BOOLEAN, known : BOOLEAN, buf : Nat, pend : Nat,
            key : Key \cup {NoKey}, charged : Nat,
            thread : {"idle", "stream", "resource", "trip", "deframe", "account"}, chunk : Nat,
            put : Nat, use : {"none", "loop", "refused", "leaving"}, taken : Nat, arrivals : Int]

LinkTypes ==
    /\ link \in [Link -> Adapter]
    /\ queue \in [Link -> Seq(Nat \cup {DrainMark})]
    /\ bucket \in [Key -> Nat]
    /\ overtaken \subseteq Link

\* The charge of an adapter that is open is what it holds, and what it holds covers all
\* that is on its way to the reader; one that was closed has no charge unless a data
\* thread stood in it.
HeldBy(a, q, over) ==
    /\ a.key = NoKey => a.charged = 0
    /\ over => a.closed
    /\ a.closed /\ ~over => a.charged = 0 /\ a.thread = "idle"
    /\ ~a.closed =>
         /\ a.charged = a.buf + a.pend + (IF a.thread \in {"deframe", "account"} THEN a.chunk ELSE 0)
         /\ q \in Seq(Nat)
         /\ Total(q) + a.put + a.taken <= a.pend

\* What the links have charged to k, without those that are about to trip.
Charges(a, k) == IF a.key = k THEN a.charged ELSE 0
Keeps(a, k) == IF a.thread = "trip" THEN 0 ELSE Charges(a, k)
Shares(k) == [l \in Link |-> ChargedTo(l, k)]
Kept(l, k) == Keeps(link[l], k)
KeptShares(k) == [l \in Link |-> Kept(l, k)]

\* Without the links about to trip a bucket is within the cap: a charge that does not fit
\* is the only one that passes it.
SumInv == \A k \in Key : bucket[k] = Total(Shares(k)) /\ Total(KeptShares(k)) <= MaxIdentity

LinkInv ==
    /\ LinkTypes /\ SumInv
    /\ \A l \in Link : HeldBy(link[l], queue[l], l \in overtaken)

LEMMA ShareTypes ==
  ASSUME LinkConstants, LinkTypes, NEW k
  PROVE  /\ Shares(k) \in [Link -> Nat] /\ Shares(k) \in [Link -> Int]
         /\ KeptShares(k) \in [Link -> Nat] /\ KeptShares(k) \in [Link -> Int]
         /\ Total(Shares(k)) \in Nat /\ Total(KeptShares(k)) \in Nat
         /\ \A l \in Link : ChargedTo(l, k) \in Nat /\ Kept(l, k) \in Nat /\ Kept(l, k) <= ChargedTo(l, k)
         /\ Total(KeptShares(k)) <= Total(Shares(k))
  <1>1. \A l \in Link : ChargedTo(l, k) \in Nat /\ Kept(l, k) \in Nat /\ Kept(l, k) <= ChargedTo(l, k)
    BY DEF LinkTypes, Adapter, ChargedTo, Kept, Keeps, Charges
  <1>2. /\ Shares(k) \in [Link -> Nat] /\ Shares(k) \in [Link -> Int]
        /\ KeptShares(k) \in [Link -> Nat] /\ KeptShares(k) \in [Link -> Int]
    BY <1>1 DEF Shares, KeptShares
  <1>3. \A l \in Link : KeptShares(k)[l] <= Shares(k)[l]
    BY <1>1 DEF Shares, KeptShares
  <1> QED BY <1>1, <1>2, <1>3, UnitsFinite, TotalMono DEF LinkConstants

\* The sums while one link changes.
LEMMA OneLink ==
  ASSUME LinkConstants, LinkTypes, SumInv, LinkTypes', NEW l \in Link,
         NEW a, link' = [link EXCEPT ![l] = a],
         \A k \in Key : /\ bucket'[k] = bucket[k] - ChargedTo(l, k) + Charges(a, k)
                        /\ Keeps(a, k) <= Kept(l, k) \/ bucket'[k] <= MaxIdentity
  PROVE  SumInv'
  <1> SUFFICES ASSUME NEW k \in Key
               PROVE  bucket'[k] = Total(Shares(k)') /\ Total(KeptShares(k)') <= MaxIdentity
    BY DEF SumInv, Total, Units
  <1>1. /\ Shares(k) \in [Link -> Nat] /\ Shares(k)' \in [Link -> Nat]
        /\ KeptShares(k) \in [Link -> Int] /\ KeptShares(k)' \in [Link -> Int]
        /\ Total(KeptShares(k)) \in Nat /\ Total(KeptShares(k)') \in Nat
        /\ Total(KeptShares(k)') <= Total(Shares(k)')
    <2>1. \A m \in Link : /\ ChargedTo(m, k)' \in Nat /\ Kept(m, k)' \in Nat
                           /\ Kept(m, k)' <= ChargedTo(m, k)'
      <3> TAKE m \in Link
      <3>1. link'[m] \in Adapter
        BY DEF LinkTypes
      <3>2. link'[m].charged \in Nat
        BY <3>1 DEF Adapter
      <3>3. ChargedTo(m, k)' \in Nat /\ Kept(m, k)' \in {0, ChargedTo(m, k)'}
        BY <3>2 DEF ChargedTo, Kept, Keeps, Charges
      <3> QED BY <3>3
    <2>2. /\ Shares(k)' \in [Link -> Nat] /\ Shares(k)' \in [Link -> Int]
          /\ KeptShares(k)' \in [Link -> Nat] /\ KeptShares(k)' \in [Link -> Int]
          /\ \A m \in Link : KeptShares(k)'[m] <= Shares(k)'[m]
      BY <2>1 DEF Shares, KeptShares
    <2>3. Total(KeptShares(k)') \in Nat /\ Total(KeptShares(k)') <= Total(Shares(k)')
      BY <2>2, UnitsFinite, TotalMono DEF LinkConstants
    <2> QED BY <2>2, <2>3, ShareTypes
  <1>2. \A m \in Link \ {l} : ChargedTo(m, k)' = ChargedTo(m, k) /\ Kept(m, k)' = Kept(m, k)
    <2>1. \A m \in Link \ {l} : link'[m] = link[m]
      BY DEF LinkTypes
    <2> QED BY <2>1 DEF ChargedTo, Kept
  <1>l. ChargedTo(l, k)' = Charges(a, k) /\ Kept(l, k)' = Keeps(a, k)
    <2>1. link'[l] = a
      BY DEF LinkTypes
    <2> QED BY <2>1 DEF ChargedTo, Kept, Charges
  <1>3. /\ \A m \in Link : Shares(k)[m] = ChargedTo(m, k) /\ Shares(k)'[m] = ChargedTo(m, k)'
        /\ \A m \in Link : KeptShares(k)[m] = Kept(m, k) /\ KeptShares(k)'[m] = Kept(m, k)'
    BY DEF Shares, KeptShares
  <1>4. Total(Shares(k)') = Total(Shares(k)) - Shares(k)[l] + Shares(k)'[l]
    BY <1>1, <1>2, <1>3, TotalChange DEF LinkConstants
  <1>5. bucket'[k] = Total(Shares(k)')
    BY <1>3, <1>4, <1>l DEF SumInv
  <1>6. CASE Keeps(a, k) <= Kept(l, k)
    <2>1. \A m \in Link : KeptShares(k)'[m] <= KeptShares(k)[m]
      <3>1. \A m \in Link : Kept(m, k) \in Int
        BY ShareTypes
      <3> QED BY <1>2, <1>3, <1>6, <1>l, <3>1
    <2>2. Total(KeptShares(k)') <= Total(KeptShares(k))
      BY <1>1, <2>1, TotalMono DEF LinkConstants
    <2>3. MaxIdentity \in Nat
      BY DEF LinkConstants
    <2> QED BY <1>1, <1>5, <2>2, <2>3 DEF SumInv
  <1>7. CASE bucket'[k] <= MaxIdentity
    <2>1. MaxIdentity \in Nat /\ bucket'[k] \in Nat
      BY DEF LinkConstants, LinkTypes
    <2> QED BY <1>1, <1>5, <1>7, <2>1
  <1> QED BY <1>6, <1>7

\* A bucket covers what any one link has charged to it: no release is cut short.
LEMMA BucketCovers ==
  ASSUME LinkConstants, LinkTypes, SumInv, NEW l \in Link, NEW k \in Key
  PROVE  ChargedTo(l, k) \in Nat /\ bucket[k] \in Nat /\ ChargedTo(l, k) <= bucket[k]
  <1>1. Shares(k) \in [Link -> Nat] /\ Shares(k)[l] = ChargedTo(l, k)
    BY ShareTypes DEF Shares
  <1>2. ChargedTo(l, k) <= Total(Shares(k))
    BY <1>1, TotalChange DEF LinkConstants
  <1> QED BY <1>2, ShareTypes DEF SumInv, LinkTypes

\* A step of one link, from what it does to its adapter, its queue and the buckets.
LEMMA Stepped ==
  ASSUME LinkConstants, LinkInv, NEW l \in Link, NEW a \in Adapter, NEW q \in Seq(Nat \cup {DrainMark}),
         link' = [link EXCEPT ![l] = a], queue' = [queue EXCEPT ![l] = q],
         overtaken' \in {overtaken, overtaken \cup {l}}, HeldBy(a, q, l \in overtaken'),
         bucket' \in [Key -> Nat],
         \A k \in Key : bucket'[k] = bucket[k] - ChargedTo(l, k) + Charges(a, k),
         \A k \in Key : \/ bucket'[k] <= MaxIdentity
                        \/ a.thread = "trip" \/ Charges(a, k) <= Kept(l, k)
  PROVE  LinkInv'
  <1>1. LinkTypes'
    BY DEF LinkInv, LinkTypes
  <1>2. link'[l] = a /\ queue'[l] = q /\ \A m \in Link \ {l} : link'[m] = link[m] /\ queue'[m] = queue[m]
    BY DEF LinkInv, LinkTypes
  <1>4. \A k \in Key : Keeps(a, k) = IF a.thread = "trip" THEN 0 ELSE Charges(a, k)
    BY DEF Keeps
  <1>5. \A k \in Key : Kept(l, k) \in Nat
    BY ShareTypes DEF LinkInv
  <1>6. \A k \in Key : /\ bucket'[k] = bucket[k] - ChargedTo(l, k) + Charges(a, k)
                       /\ Keeps(a, k) <= Kept(l, k) \/ bucket'[k] <= MaxIdentity
    BY <1>4, <1>5
  <1>7. SumInv'
    <2>1. LinkTypes /\ SumInv
      BY DEF LinkInv
    <2> QED BY <1>1, <1>6, <2>1, OneLink
  <1>8. \A m \in Link \ {l} : m \in overtaken' <=> m \in overtaken
    OBVIOUS
  <1>9. \A m \in Link : HeldBy(link'[m], queue'[m], m \in overtaken')
    <2> TAKE m \in Link
    <2>1. CASE m = l
      BY <1>2, <2>1
    <2>2. CASE m # l
      <3>1. link'[m] = link[m] /\ queue'[m] = queue[m] /\ (m \in overtaken' <=> m \in overtaken)
        BY <1>2, <1>8, <2>2
      <3>2. HeldBy(link[m], queue[m], m \in overtaken)
        BY DEF LinkInv
      <3> QED BY <3>1, <3>2 DEF HeldBy
    <2> QED BY <2>1, <2>2
  <1>10. (\A m \in Link : HeldBy(link[m], queue[m], m \in overtaken))'
    BY <1>9 DEF HeldBy, Total, Units
  <1> QED BY <1>1, <1>7, <1>10 DEF LinkInv

\* A step that leaves the charge of the link alone.
LEMMA SteppedFree ==
  ASSUME LinkConstants, LinkInv, NEW l \in Link, NEW a \in Adapter, NEW q \in Seq(Nat \cup {DrainMark}),
         link' = [link EXCEPT ![l] = a], queue' = [queue EXCEPT ![l] = q],
         bucket' = bucket, overtaken' = overtaken, HeldBy(a, q, l \in overtaken),
         a.key = link[l].key, a.charged = link[l].charged,
         a.thread = "trip" \/ link[l].thread # "trip" \/ a.charged = 0
  PROVE  LinkInv'
  <1>1. \A k \in Key : Charges(a, k) = ChargedTo(l, k) /\ ChargedTo(l, k) \in Nat /\ Kept(l, k) \in Nat
    BY ShareTypes DEF Charges, ChargedTo, LinkInv
  <1>2. bucket \in [Key -> Nat]
    BY DEF LinkInv, LinkTypes
  <1>3. \A k \in Key : bucket'[k] = bucket[k] - ChargedTo(l, k) + Charges(a, k)
    BY <1>1, <1>2
  <1>4. \A k \in Key : a.thread = "trip" \/ Charges(a, k) <= Kept(l, k)
    BY <1>1 DEF Charges, Kept, Keeps, ChargedTo
  <1> QED BY <1>2, <1>3, <1>4, Stepped

\* _release_identity_budget takes from the bucket what it takes from the adapter.
LEMMA Releases ==
  ASSUME LinkConstants, LinkInv, NEW l \in Link, NEW a \in Adapter, NEW n \in Nat,
         a.key = link[l].key, a.charged = link[l].charged
  PROVE  /\ Released(bucket, a, n) \in [Key -> Nat]
         /\ \A k \in Key :
              Released(bucket, a, n)[k] = bucket[k] - ChargedTo(l, k) + Charges(AfterRelease(a, n), k)
         /\ AfterRelease(a, n) \in Adapter
         /\ AfterRelease(a, n).charged = a.charged - Clamped(a, n)
         /\ AfterRelease(a, n).key = NoKey => AfterRelease(a, n).charged = 0
         /\ \A k \in Key : Charges(AfterRelease(a, n), k) <= ChargedTo(l, k)
  <1>1. a.charged \in Nat /\ Clamped(a, n) \in Nat /\ Clamped(a, n) <= a.charged
    BY DEF Adapter, Clamped
  <1>2. bucket \in [Key -> Nat]
    BY DEF LinkInv, LinkTypes
  <1>3. \A k \in Key : ChargedTo(l, k) = Charges(a, k) /\ Charges(a, k) <= bucket[k]
    BY BucketCovers DEF ChargedTo, Charges, LinkInv
  <1>4. a.key = NoKey => a.charged = 0
    BY DEF LinkInv, HeldBy
  <1>5. /\ AfterRelease(a, n) \in Adapter
        /\ AfterRelease(a, n).charged = a.charged - Clamped(a, n)
        /\ AfterRelease(a, n).key = IF a.charged = Clamped(a, n) THEN NoKey ELSE a.key
    <2> DEFINE c == a.charged - Clamped(a, n)
               b == [a EXCEPT !.charged = c, !.key = IF a.charged = Clamped(a, n) THEN NoKey ELSE a.key]
    <2>1. AfterRelease(a, n) = b
      BY DEF AfterRelease, Adapter
    <2>2. c \in Nat
      BY <1>1
    <2>3. b \in Adapter /\ b.charged = c /\ b.key = IF a.charged = Clamped(a, n) THEN NoKey ELSE a.key
      <3> HIDE DEF c
      <3> QED BY <2>2 DEF Adapter
    <2> QED BY <2>1, <2>3
  <1>6. \A k \in Key : k # NoKey
    BY NoKeyAssumption
  <1>7. \A k \in Key : Charges(AfterRelease(a, n), k) =
                          IF a.key = k THEN a.charged - Clamped(a, n) ELSE 0
    BY <1>1, <1>5, <1>6 DEF Charges
  <1>8. CASE a.key = NoKey
    <2>1. Released(bucket, a, n) = bucket
      BY <1>8 DEF Released
    <2>2. \A k \in Key : Charges(a, k) = 0 /\ Charges(AfterRelease(a, n), k) = 0
      BY <1>6, <1>7, <1>8 DEF Charges
    <2> QED BY <1>1, <1>2, <1>3, <1>4, <1>5, <1>8, <2>1, <2>2
  <1>9. CASE a.key # NoKey
    <2>1. a.key \in Key
      BY <1>9 DEF Adapter
    <2>2. bucket[a.key] \in Nat /\ Clamped(a, n) <= bucket[a.key]
      BY <1>1, <1>2, <1>3, <2>1 DEF Charges
    <2>3. Released(bucket, a, n) = [bucket EXCEPT ![a.key] = bucket[a.key] - Clamped(a, n)]
      <3>1. (IF bucket[a.key] + (-Clamped(a, n)) > 0 THEN bucket[a.key] + (-Clamped(a, n)) ELSE 0)
              = bucket[a.key] - Clamped(a, n)
        BY <1>1, <2>2
      <3> QED BY <1>2, <1>9, <2>1, <3>1 DEF Released, Adjusted
    <2>4. Released(bucket, a, n) \in [Key -> Nat]
      <3>1. bucket[a.key] - Clamped(a, n) \in Nat
        BY <1>1, <2>2
      <3> QED BY <1>2, <2>3, <3>1
    <2>5. \A k \in Key : Released(bucket, a, n)[k] = bucket[k] - Charges(a, k)
                            + (IF a.key = k THEN a.charged - Clamped(a, n) ELSE 0)
      <3> TAKE k \in Key
      <3>1. bucket[k] \in Nat
        BY <1>2
      <3>2. CASE a.key = k
        <4>1. Released(bucket, a, n)[k] = bucket[k] - Clamped(a, n) /\ Charges(a, k) = a.charged
          BY <1>2, <2>1, <2>3, <3>2 DEF Charges
        <4> QED BY <1>1, <3>1, <3>2, <4>1
      <3>3. CASE a.key # k
        <4>1. Released(bucket, a, n)[k] = bucket[k] /\ Charges(a, k) = 0
          BY <1>2, <2>3, <3>3 DEF Charges
        <4> QED BY <3>1, <3>3, <4>1
      <3> QED BY <3>2, <3>3
    <2>6. \A k \in Key : (IF a.key = k THEN a.charged - Clamped(a, n) ELSE 0) <= Charges(a, k)
      BY <1>1 DEF Charges
    <2>7. \A k \in Key : /\ Released(bucket, a, n)[k] =
                               bucket[k] - ChargedTo(l, k) + Charges(AfterRelease(a, n), k)
                         /\ Charges(AfterRelease(a, n), k) <= ChargedTo(l, k)
      BY <1>3, <1>7, <2>5, <2>6
    <2>8. AfterRelease(a, n).key = NoKey => AfterRelease(a, n).charged = 0
      BY <1>1, <1>5, <1>9
    <2> QED BY <1>5, <2>4, <2>7, <2>8
  <1> QED BY <1>8, <1>9

LEMMA FreesAll ==
  ASSUME LinkConstants, LinkInv, NEW l \in Link
  PROVE  /\ FreedAll(bucket, link[l]) \in [Key -> Nat]
         /\ \A k \in Key : FreedAll(bucket, link[l])[k] = bucket[k] - ChargedTo(l, k)
  <1> DEFINE a == link[l]
  <1>1. a \in Adapter /\ a.charged \in Nat /\ Clamped(a, a.charged) = a.charged
    BY DEF LinkInv, LinkTypes, Adapter, Clamped
  <1>2. AfterRelease(a, a.charged).charged = 0 /\ AfterRelease(a, a.charged).key = NoKey
    BY <1>1 DEF AfterRelease, Adapter
  <1>3. \A k \in Key : Charges(AfterRelease(a, a.charged), k) = 0
    BY <1>2 DEF Charges
  <1>4. \A k \in Key : bucket[k] - ChargedTo(l, k) + 0 = bucket[k] - ChargedTo(l, k)
    BY BucketCovers DEF LinkInv
  <1>5. /\ Released(bucket, a, a.charged) \in [Key -> Nat]
        /\ \A k \in Key : Released(bucket, a, a.charged)[k] =
                           bucket[k] - ChargedTo(l, k) + Charges(AfterRelease(a, a.charged), k)
    <2> HIDE DEF a
    <2>1. a.key = link[l].key /\ a.charged = link[l].charged
      BY DEF a
    <2> QED BY <1>1, <2>1, Releases
  <1> QED BY <1>3, <1>4, <1>5 DEF FreedAll

\* A step that closes the link gives back all it has charged.
LEMMA SteppedClosed ==
  ASSUME LinkConstants, LinkInv, NEW l \in Link, NEW a \in Adapter, NEW q \in Seq(Nat \cup {DrainMark}),
         link' = [link EXCEPT ![l] = a], queue' = [queue EXCEPT ![l] = q],
         bucket' = FreedAll(bucket, link[l]), overtaken' \in {overtaken, overtaken \cup {l}},
         a.closed, a.charged = 0, a.thread = "idle" \/ l \in overtaken'
  PROVE  LinkInv'
  <1>1. \A k \in Key : Charges(a, k) = 0 /\ ChargedTo(l, k) \in Nat /\ bucket[k] \in Nat /\ Kept(l, k) \in Nat
    BY ShareTypes, BucketCovers DEF Charges, LinkInv
  <1>2. /\ bucket' \in [Key -> Nat]
        /\ \A k \in Key : bucket'[k] = bucket[k] - ChargedTo(l, k)
    BY FreesAll
  <1>3. \A k \in Key : bucket'[k] = bucket[k] - ChargedTo(l, k) + Charges(a, k)
    BY <1>1, <1>2
  <1>4. \A k \in Key : Charges(a, k) <= Kept(l, k)
    BY <1>1
  <1>5. HeldBy(a, q, l \in overtaken')
    BY DEF HeldBy
  <1> QED BY <1>2, <1>3, <1>4, <1>5, Stepped

LEMMA AdapterAt ==
  ASSUME LinkInv, NEW l \in Link
  PROVE  /\ link[l] \in Adapter /\ queue[l] \in Seq(Nat \cup {DrainMark})
         /\ HeldBy(link[l], queue[l], l \in overtaken)
  BY DEF LinkInv, LinkTypes

LEMMA PutTypes ==
  ASSUME LinkInv, NEW l \in Link, NEW items \in Seq(Nat \cup {DrainMark})
  PROVE  /\ Put(l, items) \in Seq(Nat \cup {DrainMark})
         /\ \/ Put(l, items) = <<>>
            \/ Put(l, items) = queue[l] \o items
  BY AdapterAt, ConcatProperties, EmptySeq DEF Put

\* What a put adds to a queue of messages.
LEMMA PutTotal ==
  ASSUME LinkInv, NEW l \in Link, NEW items \in Seq(Nat), queue[l] \in Seq(Nat)
  PROVE  /\ Put(l, items) \in Seq(Nat)
         /\ Total(queue[l]) \in Nat /\ Total(items) \in Nat /\ Total(Put(l, items)) \in Nat
         /\ Total(Put(l, items)) <= Total(queue[l]) + Total(items)
  <1>1. items \in Seq(Int) /\ queue[l] \in Seq(Int)
    BY SeqMonotonic
  <1>2. Total(queue[l]) \in Nat /\ Total(items) \in Nat
    BY <1>1, TotalSeq
  <1>3. CASE Put(l, items) = queue[l] \o items
    BY <1>1, <1>2, <1>3, TotalConcat, ConcatProperties, SMT
  <1>4. CASE Put(l, items) = <<>>
    <2>1. Total(<<>>) = 0
      <3>1. Units(<<>>) = {}
        BY DEF Units
      <3> QED BY <3>1, FS_EmptySet DEF Total
    <2> QED BY <1>2, <1>4, <2>1, EmptySeq
  <1> QED BY <1>3, <1>4 DEF Put

LEMMA OpenSteps ==
  ASSUME LinkConstants, LinkInv, NEW l \in Link, NEW known \in BOOLEAN, NEW use \in {"loop", "refused"},
         Open(l, known, use)
  PROVE  LinkInv'
  <1> DEFINE a == [link[l] EXCEPT !.up = TRUE, !.known = known, !.use = use]
  <1>1. link[l] \in Adapter /\ queue[l] \in Seq(Nat \cup {DrainMark}) /\ queue' = [queue EXCEPT ![l] = queue[l]]
    BY AdapterAt DEF Open, LinkInv, LinkTypes
  <1>2. a \in Adapter /\ a.key = link[l].key /\ a.charged = link[l].charged /\ a.thread = link[l].thread
    BY <1>1 DEF Adapter
  <1>3. HeldBy(a, queue[l], l \in overtaken)
    BY <1>1, AdapterAt DEF HeldBy, Adapter
  <1>4. link' = [link EXCEPT ![l] = a] /\ bucket' = bucket /\ overtaken' = overtaken
    BY DEF Open
  <1>5. a.thread = "idle"
    BY <1>2 DEF Open, Fresh
  <1> HIDE DEF a
  <1> QED BY <1>1, <1>2, <1>3, <1>4, <1>5, SteppedFree

LEMMA IdentifySteps == ASSUME LinkConstants, LinkInv, NEW l \in Link, Identify(l) PROVE LinkInv'
  <1> DEFINE a == [link[l] EXCEPT !.known = TRUE]
  <1>1. link[l] \in Adapter /\ queue[l] \in Seq(Nat \cup {DrainMark}) /\ queue' = [queue EXCEPT ![l] = queue[l]]
    BY AdapterAt DEF Identify, LinkInv, LinkTypes
  <1>2. a \in Adapter /\ a.key = link[l].key /\ a.charged = link[l].charged /\ a.thread = link[l].thread
    BY <1>1 DEF Adapter
  <1>3. HeldBy(a, queue[l], l \in overtaken)
    BY <1>1, AdapterAt DEF HeldBy, Adapter
  <1>4. link' = [link EXCEPT ![l] = a] /\ bucket' = bucket /\ overtaken' = overtaken
    BY DEF Identify
  <1> HIDE DEF a
  <1> QED BY <1>1, <1>2, <1>3, <1>4, SteppedFree

LEMMA FreeSteps == ASSUME LinkConstants, LinkInv, NEW l \in Link, FreeBuffersAndClose(l) PROVE LinkInv'
  <1> DEFINE a == [HoldsNothing(link[l]) EXCEPT !.buf = 0, !.pend = 0, !.closed = TRUE,
                                                !.up = FALSE, !.thread = "idle", !.chunk = 0]
             items == IF link[l].up THEN <<Sentinel, DrainMark>> ELSE <<DrainMark>>
  <1>1. link[l] \in Adapter
    BY AdapterAt
  <1>2. a \in Adapter /\ a.closed /\ a.charged = 0 /\ a.thread = "idle"
    BY <1>1, Zenon DEF HoldsNothing, Adapter
  <1>3. items \in Seq(Nat \cup {DrainMark})
    <2>1. {Sentinel, DrainMark} \subseteq Nat \cup {DrainMark}
      BY DEF Sentinel
    <2>2. \A S : {Sentinel, DrainMark} \subseteq S =>
              <<Sentinel, DrainMark>> \in Seq(S) /\ <<DrainMark>> \in Seq(S)
      OBVIOUS
    <2> QED BY <2>1, <2>2, Zenon
  <1>4. /\ link' = [link EXCEPT ![l] = a] /\ queue' = [queue EXCEPT ![l] = Put(l, items)]
        /\ bucket' = FreedAll(bucket, link[l]) /\ overtaken' = overtaken
    BY DEF FreeBuffersAndClose
  <1> HIDE DEF a, items
  <1> QED BY <1>2, <1>3, <1>4, PutTypes, SteppedClosed

LEMMA ArriveSteps ==
  ASSUME LinkConstants, LinkInv, NEW l \in Link, NEW n \in Chunk, NEW kind \in {"stream", "resource"},
         Arrive(l, n, kind)
  PROVE  LinkInv'
  <1> DEFINE a == [link[l] EXCEPT !.thread = kind, !.chunk = n, !.arrivals = link[l].arrivals + 1]
  <1>1. CASE FreeBuffersAndClose(l)
    BY <1>1, FreeSteps
  <1>2. CASE link' = [link EXCEPT ![l] = a] /\ UNCHANGED <<queue, bucket, overtaken>>
    <2>1. link[l] \in Adapter /\ queue[l] \in Seq(Nat \cup {DrainMark}) /\ queue' = [queue EXCEPT ![l] = queue[l]]
      BY <1>2, AdapterAt DEF LinkInv, LinkTypes
    <2>2. n \in Nat /\ link[l].arrivals + 1 \in Int
      BY <2>1 DEF LinkConstants, Adapter
    <2>3. a \in Adapter /\ a.key = link[l].key /\ a.charged = link[l].charged
      BY <2>1, <2>2 DEF Adapter
    <2>4. link[l].thread = "idle" /\ ~link[l].closed
      BY DEF Arrive, Locked
    <2>5. HeldBy(a, queue[l], l \in overtaken)
      BY <2>1, <2>4, AdapterAt DEF HeldBy, Adapter
    <2>6. link' = [link EXCEPT ![l] = a] /\ bucket' = bucket /\ overtaken' = overtaken
      BY <1>2
    <2> HIDE DEF a
    <2>7. link[l].thread # "trip"
      BY <2>4
    <2> QED BY <2>6, <2>1, <2>3, <2>5, <2>7, SteppedFree
  <1> QED BY <1>1, <1>2 DEF Arrive

LEMMA TripSteps == ASSUME LinkConstants, LinkInv, NEW l \in Link, TripIdentityCap(l) PROVE LinkInv'
  BY FreeSteps DEF TripIdentityCap

LEMMA ClosedSteps == ASSUME LinkConstants, LinkInv, NEW l \in Link, LinkClosed(l) \/ Close(l) PROVE LinkInv'
  <1>1. link[l] \in Adapter
    BY AdapterAt
  <1>2. LinkGone(link[l]) \in Adapter /\ LinkGone(link[l]).closed /\ LinkGone(link[l]).charged = 0
        /\ LinkGone(link[l]).thread = link[l].thread
    BY <1>1 DEF LinkGone, HoldsNothing, Adapter
  <1>3. bucket' = FreedAll(bucket, link[l]) /\ overtaken' \in {overtaken, overtaken \cup {l}}
    BY DEF LinkClosed, Close
  <1>4. link[l].thread = "idle" \/ l \in overtaken'
    BY DEF LinkClosed, Close, Locked
  <1>5. CASE LinkClosed(l)
    <2>1. <<Sentinel>> \in Seq(Nat \cup {DrainMark})
      BY DEF Sentinel
    <2>2. link' = [link EXCEPT ![l] = LinkGone(link[l])] /\ queue' = [queue EXCEPT ![l] = Put(l, <<Sentinel>>)]
      BY <1>5 DEF LinkClosed
    <2> QED BY <1>2, <1>3, <1>4, <2>1, <2>2, PutTypes, SteppedClosed
  <1>6. CASE Close(l)
    <2> DEFINE a == [LinkGone(link[l]) EXCEPT !.use = "none"]
    <2>1. a \in Adapter /\ a.closed /\ a.charged = 0 /\ a.thread = link[l].thread
      BY <1>2 DEF Adapter
    <2>2. link' = [link EXCEPT ![l] = a] /\ queue' = [queue EXCEPT ![l] = <<>>] /\ <<>> \in Seq(Nat \cup {DrainMark})
      BY <1>6 DEF Close
    <2> HIDE DEF a
    <2> QED BY <1>3, <1>4, <2>1, <2>2, SteppedClosed
  <1> QED BY <1>5, <1>6

LEMMA AdjustedUp ==
  ASSUME NEW b \in [Key -> Nat], NEW k \in Key, NEW n \in Nat
  PROVE  /\ Adjusted(b, k, n) \in [Key -> Nat]
         /\ Adjusted(b, k, n)[k] = b[k] + n
         /\ \A j \in Key \ {k} : Adjusted(b, k, n)[j] = b[j]
  <1>1. b[k] \in Nat /\ b[k] + n \in Nat /\ (IF b[k] + n > 0 THEN b[k] + n ELSE 0) = b[k] + n
    OBVIOUS
  <1>2. Adjusted(b, k, n) = [b EXCEPT ![k] = b[k] + n]
    BY <1>1 DEF Adjusted
  <1> QED BY <1>1, <1>2

LEMMA AdjustedDown ==
  ASSUME NEW b \in [Key -> Nat], NEW k \in Key, NEW n \in Nat, n <= b[k]
  PROVE  /\ Adjusted(b, k, -n) \in [Key -> Nat]
         /\ Adjusted(b, k, -n)[k] = b[k] - n
         /\ \A j \in Key \ {k} : Adjusted(b, k, -n)[j] = b[j]
  <1>1. b[k] \in Nat /\ b[k] - n \in Nat /\ (IF b[k] + (-n) > 0 THEN b[k] + (-n) ELSE 0) = b[k] - n
    OBVIOUS
  <1>2. Adjusted(b, k, -n) = [b EXCEPT ![k] = b[k] - n]
    BY <1>1 DEF Adjusted
  <1> QED BY <1>1, <1>2

\* A charge moves with its link to the bucket of the identity.
LEMMA Migrates ==
  ASSUME LinkConstants, LinkInv, NEW l \in Link
  PROVE  /\ AggregateKey(l) \in Key
         /\ Migrated(l) \in [Key -> Nat]
         /\ \A k \in Key : Migrated(l)[k] = bucket[k] - ChargedTo(l, k)
                              + (IF k = AggregateKey(l) THEN link[l].charged ELSE 0)
  <1> DEFINE a == link[l]
             K == AggregateKey(l)
  <1>1. K \in Key
    BY DEF AggregateKey, Key
  <1>2. /\ a \in Adapter /\ a.charged \in Nat /\ (a.key = NoKey => a.charged = 0)
        /\ bucket \in [Key -> Nat] /\ a.key \in Key \cup {NoKey}
    BY AdapterAt DEF HeldBy, Adapter, LinkInv, LinkTypes
  <1>3. \A k \in Key : /\ ChargedTo(l, k) = IF a.key = k THEN a.charged ELSE 0
                       /\ ChargedTo(l, k) <= bucket[k] /\ bucket[k] \in Nat
    BY BucketCovers DEF ChargedTo, LinkInv
  <1>4. \A k \in Key : k # NoKey
    BY NoKeyAssumption
  <1> HIDE DEF K
  <1>5. CASE a.key \notin {NoKey, K} /\ a.charged # 0
    <2>1. Migrated(l) = Adjusted(Adjusted(bucket, a.key, -a.charged), K, a.charged)
      BY <1>5 DEF Migrated, K
    <2>2. a.key \in Key /\ a.charged <= bucket[a.key]
      BY <1>2, <1>3, <1>5
    <2> DEFINE b == Adjusted(bucket, a.key, -a.charged)
    <2>3. /\ b \in [Key -> Nat] /\ b[a.key] = bucket[a.key] - a.charged
          /\ \A j \in Key \ {a.key} : b[j] = bucket[j]
      <3> HIDE DEF a
      <3> QED BY <1>2, <2>2, AdjustedDown, Zenon
    <2>4. /\ Migrated(l) \in [Key -> Nat] /\ Migrated(l)[K] = b[K] + a.charged
          /\ \A j \in Key \ {K} : Migrated(l)[j] = b[j]
      <3>1. Migrated(l) = Adjusted(b, K, a.charged)
        BY <2>1
      <3> HIDE DEF a, b
      <3>2. b \in [Key -> Nat] /\ a.charged \in Nat
        BY <1>2, <2>3
      <3>3. /\ Adjusted(b, K, a.charged) \in [Key -> Nat]
            /\ Adjusted(b, K, a.charged)[K] = b[K] + a.charged
            /\ \A j \in Key \ {K} : Adjusted(b, K, a.charged)[j] = b[j]
        BY <1>1, <3>2, AdjustedUp, Zenon
      <3> QED BY <3>1, <3>3, Zenon
    <2>8. \A k \in Key : Migrated(l)[k] = bucket[k] - (IF a.key = k THEN a.charged ELSE 0)
                                           + (IF k = K THEN a.charged ELSE 0)
      <3> HIDE DEF a, b
      <3> TAKE k \in Key
      <3>1. bucket[k] \in Nat /\ a.charged \in Nat
        BY <1>2
      <3>2. CASE k = K
        <4>1. k # a.key /\ b[k] = bucket[k]
          BY <1>1, <1>5, <2>3, <3>2
        <4> QED BY <2>4, <3>1, <3>2, <4>1
      <3>3. CASE k # K /\ k = a.key
        BY <2>3, <2>4, <3>1, <3>3
      <3>4. CASE k # K /\ k # a.key
        BY <2>3, <2>4, <3>1, <3>4
      <3> QED BY <3>2, <3>3, <3>4
    <2> QED BY <1>1, <1>3, <2>4, <2>8 DEF K
  <1>6. CASE ~(a.key \notin {NoKey, K} /\ a.charged # 0)
    <2>1. Migrated(l) = bucket
      BY <1>6 DEF Migrated, K
    <2>2. a.charged = 0 \/ a.key = K
      BY <1>2, <1>6
    <2>3. \A k \in Key : bucket[k] = bucket[k] - ChargedTo(l, k) + (IF k = K THEN a.charged ELSE 0)
      BY <1>2, <1>3, <2>2
    <2> QED BY <1>1, <1>2, <2>1, <2>3 DEF K
  <1> QED BY <1>5, <1>6

LEMMA ChargeSteps == ASSUME LinkConstants, LinkInv, NEW l \in Link, Charge(l) PROVE LinkInv'
  <1> DEFINE K == AggregateKey(l)
             c == IF Fits(l) THEN link[l].charged + link[l].chunk ELSE link[l].charged
             t == IF ~Fits(l) THEN "trip"
                  ELSE IF link[l].thread = "stream" THEN "deframe" ELSE "account"
             a == [link[l] EXCEPT !.key = K, !.charged = c, !.thread = t]
  <1>1. /\ link[l] \in Adapter /\ queue[l] \in Seq(Nat \cup {DrainMark})
        /\ queue' = [queue EXCEPT ![l] = queue[l]] /\ overtaken' = overtaken
        /\ link[l].thread \in {"stream", "resource"}
        /\ link[l].charged \in Nat /\ link[l].chunk \in Nat
    BY AdapterAt DEF Charge, LinkInv, LinkTypes, Adapter
  <1>2. /\ K \in Key /\ Migrated(l) \in [Key -> Nat]
        /\ \A k \in Key : Migrated(l)[k] = bucket[k] - ChargedTo(l, k)
                              + (IF k = K THEN link[l].charged ELSE 0)
    BY Migrates
  <1>3. link' = [link EXCEPT ![l] = a]
    BY DEF Charge
  <1>4. bucket' = IF Fits(l) THEN Adjusted(Migrated(l), K, link[l].chunk) ELSE Migrated(l)
    BY DEF Charge
  <1>5. /\ c \in Nat /\ t \in {"trip", "deframe", "account"}
        /\ c = IF t = "trip" THEN link[l].charged ELSE link[l].charged + link[l].chunk
        /\ (t = "trip" <=> ~Fits(l))
    <2>1. CASE Fits(l)
      <3>1. t \in {"deframe", "account"} /\ c = link[l].charged + link[l].chunk
        BY <2>1
      <3> HIDE DEF c, t
      <3> QED BY <1>1, <2>1, <3>1
    <2>2. CASE ~Fits(l)
      <3>1. t = "trip" /\ c = link[l].charged
        BY <2>2
      <3> HIDE DEF c, t
      <3> QED BY <1>1, <2>2, <3>1
    <2> QED BY <2>1, <2>2
  <1>6. a \in Adapter /\ a.key = K /\ a.charged = c /\ a.thread = t /\ a.closed = link[l].closed
        /\ a.chunk = link[l].chunk /\ a.buf = link[l].buf /\ a.pend = link[l].pend
        /\ a.put = link[l].put /\ a.taken = link[l].taken
    <2> HIDE DEF K, c, t
    <2> QED BY <1>1, <1>2, <1>5 DEF Adapter
  <1> HIDE DEF a, c, t, K
  <1>7. \A k \in Key : Charges(a, k) = IF k = K THEN c ELSE 0
    BY <1>6 DEF Charges
  <1>8. bucket' \in [Key -> Nat] /\ \A k \in Key : bucket'[k] = bucket[k] - ChargedTo(l, k) + Charges(a, k)
    <2>1. CASE Fits(l)
      <3>1. /\ bucket' \in [Key -> Nat] /\ bucket'[K] = Migrated(l)[K] + link[l].chunk
            /\ \A j \in Key \ {K} : bucket'[j] = Migrated(l)[j]
        <4>1. bucket' = Adjusted(Migrated(l), K, link[l].chunk)
          BY <1>4, <2>1
        <4> DEFINE b == Migrated(l)
                   n == link[l].chunk
        <4>2. b \in [Key -> Nat] /\ K \in Key /\ n \in Nat
          BY <1>1, <1>2
        <4>3. /\ Adjusted(b, K, n) \in [Key -> Nat] /\ Adjusted(b, K, n)[K] = b[K] + n
              /\ \A j \in Key \ {K} : Adjusted(b, K, n)[j] = b[j]
          <5> HIDE DEF b, n
          <5> QED BY <4>2, AdjustedUp
        <4> QED BY <4>1, <4>3
      <3>2. Migrated(l)[K] + link[l].chunk \in Nat /\ c = link[l].charged + link[l].chunk
        BY <1>1, <1>2, <1>5, <2>1
      <3>3. bucket' \in [Key -> Nat]
        BY <3>1
      <3>4. \A k \in Key : bucket[k] \in Nat /\ ChargedTo(l, k) \in Nat
        BY BucketCovers DEF LinkInv
      <3>5. \A k \in Key : bucket'[k] = bucket[k] - ChargedTo(l, k) + Charges(a, k)
        <4> TAKE k \in Key
        <4>1. CASE k = K
          <5>1. bucket'[k] = Migrated(l)[k] + link[l].chunk
            BY <1>2, <3>1, <4>1
          <5> QED BY <1>1, <1>2, <1>7, <3>2, <3>4, <4>1, <5>1, SMTT(30)
        <4>2. CASE k # K
          <5>1. bucket'[k] = Migrated(l)[k]
            BY <1>2, <3>1, <4>2
          <5> QED BY <1>2, <1>7, <4>2, <5>1
        <4> QED BY <4>1, <4>2
      <3> QED BY <3>3, <3>5
    <2>2. CASE ~Fits(l)
      BY <1>2, <1>4, <1>5, <1>7, <2>2
    <2> QED BY <2>1, <2>2
  <1>9. HeldBy(a, queue[l], l \in overtaken)
    <2>1. HeldBy(link[l], queue[l], l \in overtaken)
      BY AdapterAt
    <2>2. K # NoKey
      BY <1>2, NoKeyAssumption
    <2>3. link[l].closed => l \in overtaken
      BY <1>1, <2>1 DEF HeldBy
    <2>4. link[l].buf \in Nat /\ link[l].pend \in Nat
      BY <1>1 DEF Adapter
    <2>5. ~link[l].closed => a.charged = a.buf + a.pend + (IF a.thread \in {"deframe", "account"} THEN a.chunk ELSE 0)
      BY <1>1, <1>5, <1>6, <2>1, <2>4 DEF HeldBy
    <2> QED BY <1>6, <2>1, <2>2, <2>3, <2>5 DEF HeldBy
  <1>10. \A k \in Key : \/ bucket'[k] <= MaxIdentity
                        \/ a.thread = "trip" \/ Charges(a, k) <= Kept(l, k)
    <2> TAKE k \in Key
    <2>1. CASE t = "trip"
      BY <1>6, <2>1
    <2>2. CASE t # "trip" /\ k # K
      <3>1. Charges(a, k) = 0 /\ Kept(l, k) \in Nat
        BY <1>7, <2>2, ShareTypes DEF LinkInv
      <3> QED BY <3>1
    <2>3. CASE t # "trip" /\ k = K
      <3>1. bucket'[K] = Migrated(l)[K] + link[l].chunk
        BY <1>1, <1>2, <1>4, <1>5, <2>3, AdjustedUp, ZenonT(30)
      <3> QED BY <1>5, <2>3, <3>1 DEF Fits, K
    <2> QED BY <2>1, <2>2, <2>3
  <1> QED BY <1>1, <1>3, <1>6, <1>8, <1>9, <1>10, Stepped

\* What deframing gives fits into what was buffered.
LEMMA DeframingTypes ==
  ASSUME LinkConstants, NEW b \in Nat, NEW d \in Deframings(b)
  PROVE  /\ d.msgs \in Seq(Nat) /\ d.rest \in Nat /\ Total(d.msgs) \in Nat
         /\ Total(d.msgs) + d.rest <= b
  <1>1. /\ d \in [msgs : BoundedSeq(1 .. MaxMsg, b \div (Header + 1)), rest : 0 .. b]
        /\ LET used == Total(d.msgs) + Header * Len(d.msgs) IN
             \/ used + d.rest = b
             \/ used + Header <= b /\ d.rest = 0
    BY DEF Deframings
  <1>2. d.msgs \in Seq(Nat) /\ d.rest \in Nat
    <2>1. d.msgs \in BoundedSeq(1 .. MaxMsg, b \div (Header + 1)) /\ d.rest \in 0 .. b
      BY <1>1
    <2>2. PICK m \in 0 .. (b \div (Header + 1)) : d.msgs \in [1 .. m -> 1 .. MaxMsg]
      BY <2>1 DEF BoundedSeq, SeqOf
    <2>3. m \in Nat /\ d.msgs \in [1 .. m -> Nat]
      <3>1. 1 .. MaxMsg \subseteq Nat
        BY DEF LinkConstants
      <3> QED BY <2>2, <3>1
    <2>4. d.msgs \in Seq(Nat)
      BY <2>3
    <2> QED BY <2>1, <2>4
  <1>3. Total(d.msgs) \in Nat
    BY <1>2, SeqMonotonic, TotalSeq
  <1>4. Header * Len(d.msgs) \in Nat /\ Header \in Nat
    <2>1. Len(d.msgs) \in Nat /\ Header \in Nat
      BY <1>2, LenProperties DEF LinkConstants
    <2>2. \A m, n \in Nat : m * n \in Nat
      OBVIOUS
    <2> QED BY <2>1, <2>2
  <1> DEFINE h == Header * Len(d.msgs)
  <1>5. h \in Nat /\ (Total(d.msgs) + h + d.rest = b \/ (Total(d.msgs) + h + Header <= b /\ d.rest = 0))
    BY <1>1, <1>4
  <1> HIDE DEF h
  <1> QED BY <1>2, <1>3, <1>4, <1>5

LEMMA DeframeSteps == ASSUME LinkConstants, LinkInv, NEW l \in Link, Deframe(l) PROVE LinkInv'
  <1> DEFINE a == link[l]
  <1>1. /\ a \in Adapter /\ queue[l] \in Seq(Nat \cup {DrainMark})
        /\ HeldBy(a, queue[l], l \in overtaken) /\ a.thread = "deframe"
        /\ a.buf \in Nat /\ a.pend \in Nat /\ a.chunk \in Nat /\ a.charged \in Nat /\ a.put \in Nat /\ a.taken \in Nat
    BY AdapterAt DEF Deframe, Adapter
  <1>2. a.buf + a.chunk \in Nat
    BY <1>1, SMT
  <1>3. PICK d \in Deframings(a.buf + a.chunk) :
          LET pend == a.pend + Total(d.msgs)
              surplus == a.charged - (d.rest + pend)
              held == [a EXCEPT !.buf = d.rest, !.pend = pend, !.thread = "idle", !.chunk = 0]
          IN /\ link' = [link EXCEPT ![l] = IF surplus > 0 THEN AfterRelease(held, surplus) ELSE held]
             /\ bucket' = IF surplus > 0 THEN Released(bucket, held, surplus) ELSE bucket
             /\ queue' = [queue EXCEPT ![l] = Put(l, d.msgs)]
    BY Zenon DEF Deframe
  <1>4. /\ d.msgs \in Seq(Nat) /\ d.rest \in Nat /\ Total(d.msgs) \in Nat
        /\ Total(d.msgs) + d.rest <= a.buf + a.chunk
    <2> HIDE DEF a
    <2> QED BY <1>2, DeframingTypes
  <1> DEFINE pend == a.pend + Total(d.msgs)
             surplus == a.charged - (d.rest + pend)
             held == [a EXCEPT !.buf = d.rest, !.pend = pend, !.thread = "idle", !.chunk = 0]
             after == IF surplus > 0 THEN AfterRelease(held, surplus) ELSE held
             q == Put(l, d.msgs)
  <1>5. /\ link' = [link EXCEPT ![l] = after] /\ queue' = [queue EXCEPT ![l] = q]
        /\ bucket' = IF surplus > 0 THEN Released(bucket, held, surplus) ELSE bucket
        /\ overtaken' = overtaken
    BY <1>3 DEF Deframe
  <1>6. pend \in Nat /\ surplus \in Int
    BY <1>1, <1>4, SMTT(30)
  <1>7. /\ held \in Adapter /\ held.key = a.key /\ held.charged = a.charged /\ held.thread = "idle"
        /\ held.closed = a.closed /\ held.buf = d.rest /\ held.pend = pend
        /\ held.put = a.put /\ held.taken = a.taken
    <2> HIDE DEF a, pend, surplus
    <2> QED BY <1>1, <1>4, <1>6 DEF Adapter
  <1>8. q \in Seq(Nat \cup {DrainMark}) /\ d.msgs \in Seq(Nat \cup {DrainMark})
    BY <1>4, SeqMonotonic, PutTypes
  <1>9. a.closed => l \in overtaken
    BY <1>1 DEF HeldBy
  <1>10. ~a.closed => /\ a.charged = a.buf + a.pend + a.chunk /\ queue[l] \in Seq(Nat)
                      /\ Total(queue[l]) + a.put + a.taken <= a.pend
    BY <1>1 DEF HeldBy
  <1>s. pend = a.pend + Total(d.msgs) /\ surplus = a.charged - (d.rest + pend)
    OBVIOUS
  <1>11. ~a.closed => surplus \in Nat /\ a.charged - surplus = d.rest + pend /\ surplus <= a.charged
    <2>1. SUFFICES ASSUME ~a.closed
                   PROVE  surplus \in Nat /\ a.charged - surplus = d.rest + pend /\ surplus <= a.charged
      OBVIOUS
    <2>2. a.charged = a.buf + a.pend + a.chunk
      BY <1>10, <2>1
    <2>3. a.buf \in Nat /\ a.pend \in Nat /\ a.chunk \in Nat
      BY <1>1
    <2> HIDE DEF a, pend, surplus
    <2>4. d.rest + pend <= a.charged /\ a.charged \in Nat /\ d.rest + pend \in Nat
      <3>1. a.charged \in Nat
        BY <1>1
      <3>2. d.rest + pend \in Nat
        BY <1>4, <1>6
      <3>3. d.rest + pend <= a.charged
        BY <1>4, <1>s, <2>2, <2>3, SMTT(30)
      <3> QED BY <3>1, <3>2, <3>3
    <2> QED BY <1>s, <2>4
  <1>12. ~a.closed => q \in Seq(Nat) /\ Total(q) + a.put + a.taken <= pend
    <2>1. SUFFICES ASSUME ~a.closed PROVE q \in Seq(Nat) /\ Total(q) + a.put + a.taken <= pend
      OBVIOUS
    <2>2. /\ q \in Seq(Nat) /\ Total(queue[l]) \in Nat /\ Total(q) \in Nat
          /\ Total(q) <= Total(queue[l]) + Total(d.msgs)
      BY <1>4, <1>10, <2>1, PutTotal
    <2>3. Total(queue[l]) + a.put + a.taken <= a.pend
      BY <1>10, <2>1
    <2>4. a.put \in Nat /\ a.pend \in Nat /\ a.taken \in Nat
      BY <1>1
    <2>5. \A u, v, t, p, x, y \in Nat : u <= v + t /\ v + x + y <= p => u + x + y <= p + t
      OBVIOUS
    <2> HIDE DEF q, a, pend
    <2> QED BY <1>4, <1>s, <2>2, <2>3, <2>4, <2>5
  <1> HIDE DEF pend, surplus, held, q
  <1>13. CASE surplus > 0
    <2>1. surplus \in Nat /\ after = AfterRelease(held, surplus)
      BY <1>6, <1>13
    <2>2. /\ Released(bucket, held, surplus) \in [Key -> Nat]
          /\ \A k \in Key : Released(bucket, held, surplus)[k] =
                              bucket[k] - ChargedTo(l, k) + Charges(after, k)
          /\ after \in Adapter /\ after.charged = a.charged - Clamped(held, surplus)
          /\ (after.key = NoKey => after.charged = 0)
          /\ \A k \in Key : Charges(after, k) <= ChargedTo(l, k)
      BY <1>7, <2>1, Releases
    <2>3. /\ after.closed = a.closed /\ after.buf = d.rest /\ after.pend = pend /\ after.thread = "idle"
          /\ after.put = a.put /\ after.taken = a.taken
      <3>1. AfterRelease(held, surplus) =
              [held EXCEPT !.charged = held.charged - Clamped(held, surplus),
                           !.key = IF held.charged = Clamped(held, surplus) THEN NoKey ELSE held.key]
        BY DEF AfterRelease
      <3> HIDE DEF after
      <3> QED BY <1>7, <2>1, <3>1 DEF Adapter
    <2>4. ~a.closed => after.charged = d.rest + pend
      <3>1. Clamped(held, surplus) = IF surplus < a.charged THEN surplus ELSE a.charged
        BY <1>7 DEF Clamped
      <3> HIDE DEF after, a
      <3>2. ~a.closed => Clamped(held, surplus) = surplus
        BY <1>1, <1>11, <3>1
      <3> QED BY <1>11, <2>2, <3>2
    <2> HIDE DEF after, a
    <2>5. HeldBy(after, q, l \in overtaken)
      <3>1. a.closed <=> after.closed
        BY <2>3
      <3>2. l \in overtaken => a.closed
        BY <1>1 DEF HeldBy
      <3>3. ~after.closed => /\ after.charged = after.buf + after.pend + 0
                             /\ q \in Seq(Nat) /\ Total(q) + after.put + after.taken <= after.pend
        <4>1. d.rest + pend + 0 = d.rest + pend
          BY <1>4, <1>6
        <4> QED BY <1>12, <2>3, <2>4, <4>1
      <3> QED BY <1>9, <2>2, <2>3, <3>1, <3>2, <3>3 DEF HeldBy
    <2>6. \A k \in Key : Charges(after, k) <= Kept(l, k)
      <3> USE DEF a
      <3> QED BY <1>1, <2>2 DEF Kept, Keeps, ChargedTo, Charges
    <2>7. bucket' = Released(bucket, held, surplus)
      BY <1>5, <1>13
    <2> HIDE DEF a
    <2> QED BY <1>5, <1>8, <2>2, <2>5, <2>6, <2>7, Stepped
  <1>14. CASE ~(surplus > 0)
    <2>1. after = held /\ bucket' = bucket
      BY <1>5, <1>14
    <2>2. ~a.closed => held.charged = d.rest + pend
      <3> HIDE DEF after, a
      <3> QED BY <1>1, <1>6, <1>7, <1>11, <1>14
    <2>3. HeldBy(held, q, l \in overtaken)
      BY <1>1, <1>7, <1>9, <1>12, <2>2 DEF HeldBy
    <2> HIDE DEF after
    <2>4. link[l].thread # "trip" /\ held.key = link[l].key /\ held.charged = link[l].charged
      BY <1>1, <1>7
    <2> HIDE DEF a
    <2> QED BY <1>5, <1>7, <1>8, <2>1, <2>3, <2>4, SteppedFree
  <1> QED BY <1>13, <1>14

LEMMA AccountSteps == ASSUME LinkConstants, LinkInv, NEW l \in Link, Account(l) PROVE LinkInv'
  <1> DEFINE a == [link[l] EXCEPT !.pend = link[l].pend + link[l].chunk, !.put = link[l].chunk,
                                  !.thread = "idle", !.chunk = 0]
  <1>1. /\ link[l] \in Adapter /\ queue[l] \in Seq(Nat \cup {DrainMark}) /\ queue' = [queue EXCEPT ![l] = queue[l]]
        /\ HeldBy(link[l], queue[l], l \in overtaken)
        /\ link[l].thread = "account" /\ link[l].put = 0
        /\ link[l].pend \in Nat /\ link[l].chunk \in Nat /\ link[l].buf \in Nat /\ link[l].taken \in Nat
    BY AdapterAt DEF Account, LinkInv, LinkTypes, Adapter
  <1>2. /\ a \in Adapter /\ a.key = link[l].key /\ a.charged = link[l].charged /\ a.thread = "idle"
        /\ a.closed = link[l].closed /\ a.buf = link[l].buf /\ a.pend = link[l].pend + link[l].chunk
        /\ a.put = link[l].chunk /\ a.taken = link[l].taken
    <2>1. link[l].pend + link[l].chunk \in Nat
      BY <1>1, SMT
    <2> QED BY <1>1, <2>1 DEF Adapter
  <1>3. link' = [link EXCEPT ![l] = a] /\ bucket' = bucket /\ overtaken' = overtaken
    BY DEF Account
  <1> HIDE DEF a
  <1>4. ~link[l].closed => Total(queue[l]) \in Nat
    BY <1>1, SeqMonotonic, TotalSeq DEF HeldBy
  <1>5. HeldBy(a, queue[l], l \in overtaken)
    BY <1>1, <1>2, <1>4, SMT DEF HeldBy
  <1>6. link[l].thread # "trip"
    BY <1>1
  <1> QED BY <1>1, <1>2, <1>3, <1>5, <1>6, SteppedFree

LEMMA PutSteps == ASSUME LinkConstants, LinkInv, NEW l \in Link, PutResource(l) PROVE LinkInv'
  <1> DEFINE a == [link[l] EXCEPT !.put = 0]
             n == link[l].put
             q == Put(l, <<n>>)
  <1>1. /\ link[l] \in Adapter /\ queue[l] \in Seq(Nat \cup {DrainMark})
        /\ HeldBy(link[l], queue[l], l \in overtaken)
        /\ n \in Nat /\ link[l].pend \in Nat /\ link[l].taken \in Nat
    BY AdapterAt DEF Adapter
  <1>2. <<n>> \in Seq(Nat) /\ <<n>> \in Seq(Nat \cup {DrainMark}) /\ Total(<<n>>) = n
    BY <1>1, TotalSingle
  <1>3. /\ a \in Adapter /\ a.key = link[l].key /\ a.charged = link[l].charged /\ a.thread = link[l].thread
        /\ a.closed = link[l].closed /\ a.buf = link[l].buf /\ a.pend = link[l].pend /\ a.chunk = link[l].chunk
        /\ a.put = 0 /\ a.taken = link[l].taken
    BY <1>1 DEF Adapter
  <1>4. link' = [link EXCEPT ![l] = a] /\ queue' = [queue EXCEPT ![l] = q] /\ bucket' = bucket /\ overtaken' = overtaken
    BY DEF PutResource
  <1>5. q \in Seq(Nat \cup {DrainMark})
    BY <1>2, PutTypes
  <1>6. ~link[l].closed => q \in Seq(Nat) /\ Total(q) + a.put + a.taken <= a.pend
    <2>1. SUFFICES ASSUME ~link[l].closed PROVE q \in Seq(Nat) /\ Total(q) + a.put + a.taken <= a.pend
      OBVIOUS
    <2>2. queue[l] \in Seq(Nat) /\ Total(queue[l]) + n + link[l].taken <= link[l].pend
      BY <1>1, <2>1 DEF HeldBy
    <2>3. /\ q \in Seq(Nat) /\ Total(queue[l]) \in Nat /\ Total(q) \in Nat
          /\ Total(q) <= Total(queue[l]) + Total(<<n>>)
      BY <1>2, <2>2, PutTotal
    <2> HIDE DEF a, n, q
    <2> QED BY <1>1, <1>2, <1>3, <2>2, <2>3
  <1> HIDE DEF a, n, q
  <1>7. HeldBy(a, q, l \in overtaken)
    BY <1>1, <1>3, <1>6 DEF HeldBy
  <1>8. a.thread = "trip" \/ link[l].thread # "trip"
    BY <1>3
  <1> QED BY <1>3, <1>4, <1>5, <1>7, <1>8, SteppedFree

LEMMA RecvSteps == ASSUME LinkConstants, LinkInv, NEW l \in Link, Recv(l) PROVE LinkInv'
  <1> DEFINE old == link[l]
             h == Head(queue[l])
             a == IF h = Sentinel THEN [old EXCEPT !.use = "leaving"] ELSE [old EXCEPT !.taken = h]
             q == IF h = Sentinel THEN <<>> ELSE Tail(queue[l])
  <1>1. /\ old \in Adapter /\ queue[l] \in Seq(Nat \cup {DrainMark})
        /\ HeldBy(old, queue[l], l \in overtaken)
        /\ old.taken = 0 /\ queue[l] # <<>> /\ h # DrainMark
        /\ old.put \in Nat /\ old.pend \in Nat
    BY AdapterAt DEF Recv, Adapter
  <1>2. /\ link' = [link EXCEPT ![l] = a] /\ queue' = [queue EXCEPT ![l] = q]
        /\ bucket' = bucket /\ overtaken' = overtaken
    BY DEF Recv
  <1>3. h \in Nat /\ q \in Seq(Nat \cup {DrainMark})
    <2>1. h \in Nat \cup {DrainMark} /\ Tail(queue[l]) \in Seq(Nat \cup {DrainMark})
      BY <1>1, HeadTailProperties
    <2> QED BY <1>1, <2>1, EmptySeq
  <1>4. /\ a \in Adapter /\ a.key = old.key /\ a.charged = old.charged /\ a.thread = old.thread
        /\ a.closed = old.closed /\ a.buf = old.buf /\ a.pend = old.pend /\ a.chunk = old.chunk
        /\ a.put = old.put /\ a.taken = IF h = Sentinel THEN 0 ELSE h
    <2> HIDE DEF old, h
    <2>1. CASE h = Sentinel
      BY <1>1, <2>1 DEF Adapter
    <2>2. CASE h # Sentinel
      BY <1>1, <1>3, <2>2 DEF Adapter
    <2> QED BY <2>1, <2>2
  <1>5. ~old.closed => q \in Seq(Nat) /\ Total(q) + a.put + a.taken <= a.pend
    <2>1. SUFFICES ASSUME ~old.closed PROVE q \in Seq(Nat) /\ Total(q) + a.put + a.taken <= a.pend
      OBVIOUS
    <2>2. queue[l] \in Seq(Nat) /\ Total(queue[l]) + old.put <= old.pend
      <3>1. queue[l] \in Seq(Nat) /\ Total(queue[l]) + old.put + old.taken <= old.pend
        BY <1>1, <2>1 DEF HeldBy
      <3>2. Total(queue[l]) \in Nat
        BY <3>1, SeqMonotonic, TotalSeq
      <3> HIDE DEF old
      <3> QED BY <1>1, <3>1, <3>2
    <2>3. Tail(queue[l]) \in Seq(Nat) /\ Tail(queue[l]) \in Seq(Int) /\ <<h>> \in Seq(Int)
          /\ queue[l] = <<h>> \o Tail(queue[l])
      <3>1. Tail(queue[l]) \in Seq(Nat)
        BY <1>1, <2>2, HeadTailProperties
      <3>2. queue[l] = <<h>> \o Tail(queue[l])
        BY <1>1, <2>2
      <3>3. <<h>> \in Seq(Nat)
        BY <1>3
      <3> HIDE DEF h
      <3> QED BY <3>1, <3>2, <3>3, SeqMonotonic
    <2>4. Total(queue[l]) = h + Total(Tail(queue[l])) /\ Total(Tail(queue[l])) \in Nat
      <3> HIDE DEF h
      <3>1. Total(<<h>> \o Tail(queue[l])) = Total(<<h>>) + Total(Tail(queue[l]))
        BY <2>3, TotalConcat
      <3> QED BY <1>3, <2>3, <3>1, TotalSingle, TotalSeq
    <2>5. CASE h = Sentinel
      <3>1. Total(<<>>) = 0 /\ <<>> \in Seq(Nat)
        <4>1. Units(<<>>) = {}
          BY DEF Units
        <4> QED BY <4>1, FS_EmptySet, EmptySeq DEF Total
      <3>2. q = <<>>
        BY <2>5
      <3>3. Total(queue[l]) \in Nat
        BY <1>3, <2>4
      <3> HIDE DEF q, a, old, h
      <3> QED BY <1>1, <1>4, <2>2, <2>5, <3>1, <3>2, <3>3
    <2>6. CASE h # Sentinel
      <3>1. q = Tail(queue[l])
        BY <2>6
      <3> HIDE DEF q, a, old, h
      <3> QED BY <1>1, <1>3, <1>4, <2>2, <2>3, <2>4, <2>6, <3>1, SMT
    <2> QED BY <2>5, <2>6
  <1> HIDE DEF a, q, h
  <1>6. HeldBy(a, q, l \in overtaken)
    BY <1>1, <1>4, <1>5 DEF HeldBy
  <1>7. a.thread = "trip" \/ link[l].thread # "trip"
    BY <1>4
  <1> QED BY <1>2, <1>3, <1>4, <1>6, <1>7, SteppedFree

LEMMA RecvAccountsSteps == ASSUME LinkConstants, LinkInv, NEW l \in Link, RecvAccounts(l) PROVE LinkInv'
  <1> DEFINE old == link[l]
             n == old.taken
             left == IF old.pend > old.taken THEN old.pend - old.taken ELSE 0
             b == AfterRelease(old, n)
             a == [b EXCEPT !.pend = left, !.taken = 0]
  <1>1. /\ old \in Adapter /\ queue[l] \in Seq(Nat \cup {DrainMark})
        /\ HeldBy(old, queue[l], l \in overtaken)
        /\ old.thread = "idle" /\ n \in Nat /\ old.pend \in Nat /\ old.put \in Nat
        /\ old.buf \in Nat /\ old.charged \in Nat
        /\ queue' = [queue EXCEPT ![l] = queue[l]]
    BY AdapterAt DEF RecvAccounts, Adapter, Locked, LinkInv, LinkTypes
  <1>2. /\ link' = [link EXCEPT ![l] = a] /\ bucket' = Released(bucket, old, n)
        /\ overtaken' = overtaken
    BY DEF RecvAccounts
  <1>3. left \in Nat
    <2> HIDE DEF old
    <2> QED BY <1>1
  <1>4. /\ Released(bucket, old, n) \in [Key -> Nat]
        /\ \A k \in Key : Released(bucket, old, n)[k] = bucket[k] - ChargedTo(l, k) + Charges(b, k)
        /\ b \in Adapter /\ b.charged = old.charged - Clamped(old, n)
        /\ (b.key = NoKey => b.charged = 0)
        /\ \A k \in Key : Charges(b, k) <= ChargedTo(l, k)
    <2>1. old.key = link[l].key /\ old.charged = link[l].charged
      OBVIOUS
    <2> HIDE DEF old, n
    <2> QED BY <1>1, <2>1, Releases
  <1>5. /\ b.thread = "idle" /\ b.closed = old.closed /\ b.buf = old.buf
        /\ b.put = old.put /\ b.chunk = old.chunk
    <2>1. b = [old EXCEPT !.charged = old.charged - Clamped(old, n),
                          !.key = IF old.charged = Clamped(old, n) THEN NoKey ELSE old.key]
      BY DEF AfterRelease
    <2> HIDE DEF b, old, n
    <2> QED BY <1>1, <2>1 DEF Adapter
  <1>6. /\ a \in Adapter /\ a.key = b.key /\ a.charged = b.charged /\ a.thread = "idle"
        /\ a.closed = old.closed /\ a.buf = old.buf /\ a.pend = left
        /\ a.put = old.put /\ a.taken = 0
    <2> HIDE DEF b, left, old, n
    <2> QED BY <1>3, <1>4, <1>5 DEF Adapter
  <1>7. ~old.closed => a.charged = a.buf + a.pend /\ queue[l] \in Seq(Nat)
                       /\ Total(queue[l]) + a.put + a.taken <= a.pend
    <2>1. SUFFICES ASSUME ~old.closed
                   PROVE  a.charged = a.buf + a.pend /\ queue[l] \in Seq(Nat)
                          /\ Total(queue[l]) + a.put + a.taken <= a.pend
      OBVIOUS
    <2>2. /\ old.charged = old.buf + old.pend /\ queue[l] \in Seq(Nat)
          /\ Total(queue[l]) + old.put + n <= old.pend
      <3>1. /\ old.charged = old.buf + old.pend + (IF old.thread \in {"deframe", "account"} THEN old.chunk ELSE 0)
            /\ queue[l] \in Seq(Nat) /\ Total(queue[l]) + old.put + old.taken <= old.pend
        BY <1>1, <2>1 DEF HeldBy
      <3>2. n = old.taken /\ old.thread = "idle"
        BY <1>1
      <3> HIDE DEF old, n
      <3> QED BY <1>1, <3>1, <3>2
    <2>3. Total(queue[l]) \in Nat
      BY <2>2, SeqMonotonic, TotalSeq
    <2>4. left = IF old.pend > n THEN old.pend - n ELSE 0
      OBVIOUS
    <2>5. Clamped(old, n) = IF n < old.charged THEN n ELSE old.charged
      BY DEF Clamped
    <2> HIDE DEF a, b, old, n, left
    <2>6. n <= old.pend /\ left = old.pend - n
      BY <1>1, <2>2, <2>3, <2>4, SMT
    <2>7. Clamped(old, n) = n
      BY <1>1, <2>2, <2>5, <2>6
    <2>8. a.charged = old.charged - n
      BY <1>4, <1>6, <2>7
    <2> QED BY <1>1, <1>6, <2>2, <2>3, <2>6, <2>8, SMTT(30)
  <1> HIDE DEF left
  <1>8. \A k \in Key : Charges(a, k) = Charges(b, k)
    BY <1>6 DEF Charges
  <1> HIDE DEF a, b
  <1>9. HeldBy(a, queue[l], l \in overtaken)
    <2>1. l \in overtaken => old.closed
      BY <1>1 DEF HeldBy
    <2>2. old.closed /\ l \notin overtaken => a.charged = 0
      <3>1. old.closed /\ l \notin overtaken => old.charged = 0
        BY <1>1 DEF HeldBy
      <3>2. Clamped(old, n) = IF n < old.charged THEN n ELSE old.charged
        BY DEF Clamped
      <3> HIDE DEF old, n
      <3> QED BY <1>1, <1>4, <1>6, <3>1, <3>2
    <2>3. ~old.closed => a.charged = a.buf + a.pend + 0
      <3>1. a.buf \in Nat /\ a.pend \in Nat
        BY <1>6 DEF Adapter
      <3> QED BY <1>7, <3>1
    <2> QED BY <1>4, <1>6, <1>7, <2>1, <2>2, <2>3 DEF HeldBy
  <1>10. \A k \in Key : Charges(a, k) <= Kept(l, k)
    <2>1. \A k \in Key : Kept(l, k) = ChargedTo(l, k)
      BY <1>1 DEF Kept, Keeps, Charges, ChargedTo
    <2> QED BY <1>4, <1>8, <2>1
  <1>11. bucket' \in [Key -> Nat] /\ \A k \in Key : bucket'[k] = bucket[k] - ChargedTo(l, k) + Charges(a, k)
    BY <1>2, <1>4, <1>8
  <1> HIDE DEF old, n
  <1> QED BY <1>1, <1>2, <1>6, <1>9, <1>10, <1>11, Stepped

LEMMA DrainAndCloseSteps == ASSUME LinkConstants, LinkInv, NEW l \in Link, DrainAndClose(l) PROVE LinkInv'
  <1> DEFINE E == Nat \cup {DrainMark}
  <1>1. PICK i \in 1 .. Len(queue[l]) :
          /\ queue[l][i] = DrainMark
          /\ queue' = [queue EXCEPT ![l] = <<Sentinel>> \o SubSeq(queue[l], i + 1, Len(queue[l]))]
    BY DEF DrainAndClose
  <1> DEFINE q == <<Sentinel>> \o SubSeq(queue[l], i + 1, Len(queue[l]))
  <1>2. /\ link[l] \in Adapter /\ queue[l] \in Seq(E)
        /\ HeldBy(link[l], queue[l], l \in overtaken)
        /\ link' = [link EXCEPT ![l] = link[l]] /\ bucket' = bucket /\ overtaken' = overtaken
    BY AdapterAt DEF DrainAndClose, LinkInv, LinkTypes
  <1>3. q \in Seq(E)
    <2>1. Sentinel \in E
      BY DEF Sentinel
    <2> HIDE DEF E
    <2>2. i + 1 \in Nat /\ Len(queue[l]) \in Nat
      BY <1>2
    <2>3. SubSeq(queue[l], i + 1, Len(queue[l])) \in Seq(E)
      <3>1. \A j \in i + 1 .. Len(queue[l]) : j \in 1 .. Len(queue[l])
        BY <1>2
      <3> QED BY <1>2, <2>2, <3>1, SubSeqProperties
    <2>4. <<Sentinel>> \in Seq(E)
      BY <2>1
    <2> QED BY <2>3, <2>4, ConcatProperties
  <1>4. link[l].closed
    <2>1. SUFFICES ASSUME queue[l] \in Seq(Nat) PROVE FALSE
      BY <1>2 DEF HeldBy
    <2>2. queue[l][i] \in Nat
      BY <2>1
    <2> QED BY <1>1, <2>2 DEF DrainMark
  <1>5. HeldBy(link[l], q, l \in overtaken)
    BY <1>2, <1>4 DEF HeldBy
  <1>6. queue' = [queue EXCEPT ![l] = q]
    BY <1>1
  <1>7. link[l].thread = "trip" \/ link[l].thread # "trip"
    OBVIOUS
  <1> HIDE DEF q
  <1> QED BY <1>2, <1>3, <1>5, <1>6, <1>7, SteppedFree

LEMMA LinkInit == LinkConstants /\ Init => LinkInv
  <1> SUFFICES ASSUME LinkConstants, Init PROVE LinkInv
    OBVIOUS
  <1>1. Fresh \in Adapter /\ Fresh.key = NoKey /\ Fresh.charged = 0
    BY DEF Fresh, Adapter
  <1>2. <<>> \in Seq(Nat \cup {DrainMark}) /\ <<>> \in Seq(Nat)
    BY EmptySeq
  <1>3. LinkTypes
    BY <1>1, <1>2 DEF Init, LinkTypes
  <1>4. \A k \in Key, l \in Link : k # NoKey /\ link[l] = Fresh /\ queue[l] = <<>>
    BY NoKeyAssumption DEF Init
  <1>5. \A k \in Key, l \in Link : ChargedTo(l, k) = 0 /\ Kept(l, k) = 0
    BY <1>1, <1>4 DEF ChargedTo, Kept, Keeps, Charges
  <1>6. SumInv
    <2> SUFFICES ASSUME NEW k \in Key PROVE bucket[k] = Total(Shares(k)) /\ Total(KeptShares(k)) <= MaxIdentity
      BY DEF SumInv
    <2>1. Shares(k) \in [Link -> Int] /\ KeptShares(k) \in [Link -> Int]
      BY <1>3, ShareTypes
    <2>2. \A l \in Link : Shares(k)[l] = 0 /\ KeptShares(k)[l] = 0
      BY <1>5 DEF Shares, KeptShares
    <2>3. Total(Shares(k)) = 0 /\ Total(KeptShares(k)) = 0
      BY <2>1, <2>2, TotalZero
    <2> QED BY <2>3 DEF Init, LinkConstants
  <1>7. Total(<<>>) = 0
    <2>1. Units(<<>>) = {}
      BY DEF Units
    <2> QED BY <2>1, FS_EmptySet DEF Total
  <1>8. ASSUME NEW l \in Link PROVE HeldBy(link[l], queue[l], l \in overtaken)
    <2>1. link[l] = Fresh /\ queue[l] = <<>> /\ l \notin overtaken
      BY <1>4 DEF Init
    <2>2. HeldBy(Fresh, <<>>, FALSE)
      BY <1>2, <1>7 DEF HeldBy, Fresh
    <2> QED BY <2>1, <2>2 DEF HeldBy
  <1> QED BY <1>3, <1>6, <1>8 DEF LinkInv

LEMMA ShutdownSteps == ASSUME LinkConstants, LinkInv, Shutdown PROVE LinkInv'
  <1> DEFINE torn == {l \in Link : link[l].up}
             E == Nat \cup {DrainMark}
             freed(k) == Total([l \in torn |-> ChargedTo(l, k)])
  <1>1. /\ link' = [l \in Link |-> IF l \in torn THEN LinkGone(link[l]) ELSE link[l]]
        /\ bucket' = [k \in Key |-> IF bucket[k] > freed(k) THEN bucket[k] - freed(k) ELSE 0]
        /\ queue' = [l \in Link |-> IF l \in torn THEN Put(l, <<Sentinel>>) ELSE queue[l]]
        /\ overtaken' = overtaken \cup {l \in torn : Locked(l)}
    BY DEF Shutdown
  <1>t. torn \in SUBSET Link
    OBVIOUS
  <1>2. \A l \in Link : /\ link[l] \in Adapter /\ queue[l] \in Seq(E)
                        /\ HeldBy(link[l], queue[l], l \in overtaken)
    BY AdapterAt
  <1> HIDE DEF torn, freed
  <1>3. \A l \in torn : /\ link'[l] \in Adapter /\ link'[l].closed /\ link'[l].charged = 0
                        /\ link'[l].key = NoKey /\ link'[l].thread = link[l].thread
    <2> TAKE l \in torn
    <2>1. link'[l] = LinkGone(link[l]) /\ link[l] \in Adapter
      BY <1>1, <1>2, <1>t
    <2>2. /\ LinkGone(link[l]) \in Adapter /\ LinkGone(link[l]).closed /\ LinkGone(link[l]).charged = 0
          /\ LinkGone(link[l]).key = NoKey /\ LinkGone(link[l]).thread = link[l].thread
      BY <2>1 DEF LinkGone, HoldsNothing, Adapter
    <2> QED BY <2>1, <2>2
  <1>4. \A l \in Link \ torn : link'[l] = link[l] /\ queue'[l] = queue[l]
    BY <1>1
  <1>5. \A k \in Key : /\ \A l \in torn : ChargedTo(l, k)' = 0 /\ Kept(l, k)' = 0
                       /\ \A l \in Link \ torn : ChargedTo(l, k)' = ChargedTo(l, k) /\ Kept(l, k)' = Kept(l, k)
    BY <1>3, <1>4 DEF ChargedTo, Kept, Keeps, Charges
  <1>6. ASSUME NEW k \in Key
        PROVE  /\ Shares(k) \in [Link -> Int] /\ KeptShares(k) \in [Link -> Int]
               /\ Shares(k)' \in [Link -> Int] /\ KeptShares(k)' \in [Link -> Int]
               /\ freed(k) \in Nat /\ Total(Shares(k)') \in Nat
               /\ Total(Shares(k)) = freed(k) + Total(Shares(k)')
               /\ Total(KeptShares(k)') <= Total(KeptShares(k))
               /\ Total(KeptShares(k)) \in Nat /\ Total(KeptShares(k)') \in Nat
    <2>1. \A l \in Link : ChargedTo(l, k) \in Nat /\ Kept(l, k) \in Nat /\ ChargedTo(l, k)' \in Nat /\ Kept(l, k)' \in Nat
      BY <1>5, ShareTypes DEF LinkInv
    <2>2. /\ Shares(k) \in [Link -> Int] /\ KeptShares(k) \in [Link -> Int]
          /\ Shares(k)' \in [Link -> Int] /\ KeptShares(k)' \in [Link -> Int]
      BY <2>1 DEF Shares, KeptShares
    <2>3. \A l \in Link : KeptShares(k)'[l] <= KeptShares(k)[l]
      <3> TAKE l \in Link
      <3>1. Kept(l, k)' <= Kept(l, k)
        BY <1>5, <2>1
      <3> QED BY <3>1 DEF KeptShares
    <2>4. /\ Total(KeptShares(k)') <= Total(KeptShares(k))
          /\ Total(KeptShares(k)) \in Nat /\ Total(KeptShares(k)') \in Nat
          /\ Total(Shares(k)) \in Nat /\ Total(Shares(k)') \in Nat
      BY <2>2, <2>3, TotalMono, UnitsFinite DEF LinkConstants
    <2>5. /\ Total(Shares(k)) = Total([l \in torn |-> Shares(k)[l]]) + Total([l \in Link \ torn |-> Shares(k)[l]])
          /\ Total(Shares(k)') = Total([l \in torn |-> Shares(k)'[l]]) + Total([l \in Link \ torn |-> Shares(k)'[l]])
      <3> DEFINE s == Shares(k)
                 t == Shares(k)'
      <3>1. s \in [Link -> Int] /\ t \in [Link -> Int] /\ IsFiniteSet(Link)
        BY <2>2 DEF LinkConstants
      <3> HIDE DEF s, t
      <3>2. Total(s) = Total([l \in torn |-> s[l]]) + Total([l \in Link \ torn |-> s[l]])
        BY <1>t, <3>1, TotalSplit, ZenonT(30)
      <3>3. Total(t) = Total([l \in torn |-> t[l]]) + Total([l \in Link \ torn |-> t[l]])
        BY <1>t, <3>1, TotalSplit, ZenonT(30)
      <3> QED BY <3>2, <3>3 DEF s, t
    <2>6. /\ [l \in torn |-> Shares(k)[l]] = [l \in torn |-> ChargedTo(l, k)]
          /\ [l \in Link \ torn |-> Shares(k)'[l]] = [l \in Link \ torn |-> Shares(k)[l]]
      <3>1. \A l \in Link : Shares(k)[l] = ChargedTo(l, k) /\ Shares(k)'[l] = ChargedTo(l, k)'
        BY DEF Shares
      <3> QED BY <1>5, <1>t, <3>1
    <2>7. Total([l \in torn |-> Shares(k)'[l]]) = 0
      <3> DEFINE f == [l \in torn |-> Shares(k)'[l]]
      <3>1. f \in [torn -> Int] /\ \A l \in torn : f[l] = 0
        <4>1. \A l \in torn : Shares(k)'[l] = 0
          <5> TAKE l \in torn
          <5>1. l \in Link /\ ChargedTo(l, k)' = 0
            BY <1>5, <1>t
          <5> QED BY <5>1 DEF Shares
        <4> QED BY <4>1
      <3> HIDE DEF f
      <3>2. Total(f) = 0
        BY <3>1, TotalZero
      <3> QED BY <3>2 DEF f
    <2>8. Total([l \in torn |-> Shares(k)[l]]) \in Nat
      <3> DEFINE f == [l \in torn |-> Shares(k)[l]]
      <3>1. f \in [torn -> Int] /\ IsFiniteSet(torn)
        BY <1>t, <2>2, FS_Subset DEF LinkConstants
      <3> HIDE DEF f
      <3>2. Total(f) \in Nat
        BY <3>1, UnitsFinite
      <3> QED BY <3>2 DEF f
    <2>9. freed(k) = Total([l \in torn |-> Shares(k)[l]])
      BY <2>6 DEF freed
    <2>10. Total([l \in Link \ torn |-> Shares(k)[l]]) = Total(Shares(k)')
      <3> DEFINE x == Total([l \in torn |-> Shares(k)'[l]])
                 y == Total([l \in Link \ torn |-> Shares(k)'[l]])
                 z == Total([l \in Link \ torn |-> Shares(k)[l]])
                 u == Total([l \in torn |-> Shares(k)[l]])
      <3>1. Total(Shares(k)') = x + y /\ x = 0 /\ y = z /\ Total(Shares(k)) = u + z
        BY <2>5, <2>6, <2>7
      <3>2. y \in Int
        <4> DEFINE g == [l \in Link \ torn |-> Shares(k)'[l]]
        <4>1. g \in [Link \ torn -> Int] /\ IsFiniteSet(Link \ torn)
          BY <2>2, FS_Difference DEF LinkConstants
        <4> HIDE DEF g
        <4>2. Total(g) \in Nat
          BY <4>1, UnitsFinite
        <4> QED BY <4>2 DEF g
      <3> HIDE DEF x, y, z, u
      <3>3. Total(Shares(k)') = z
        BY <3>1, <3>2
      <3> QED BY <3>3 DEF z
    <2> QED BY <2>2, <2>4, <2>5, <2>8, <2>9, <2>10
  <1>7. \A k \in Key : bucket'[k] = Total(Shares(k)') /\ bucket'[k] \in Nat
    <2> TAKE k \in Key
    <2>1. bucket[k] = Total(Shares(k))
      BY DEF LinkInv, SumInv
    <2>2. bucket[k] = freed(k) + Total(Shares(k)') /\ freed(k) \in Nat /\ Total(Shares(k)') \in Nat
      BY <1>6, <2>1
    <2>3. bucket'[k] = IF bucket[k] > freed(k) THEN bucket[k] - freed(k) ELSE 0
      BY <1>1
    <2> QED BY <2>2, <2>3
  <1>8. SumInv'
    <2>1. \A k \in Key : Total(KeptShares(k)') <= MaxIdentity
      <3> TAKE k \in Key
      <3>1. Total(KeptShares(k)) <= MaxIdentity /\ MaxIdentity \in Nat
        BY DEF LinkInv, SumInv, LinkConstants
      <3> QED BY <1>6, <3>1
    <2>2. \A k \in Key : bucket'[k] = Total(Shares(k)') /\ Total(KeptShares(k)') <= MaxIdentity
      BY <1>7, <2>1
    <2> QED BY <2>2 DEF SumInv, Total, Units
  <1>9. \A l \in Link : link'[l] \in Adapter /\ queue'[l] \in Seq(E)
    <2> TAKE l \in Link
    <2>1. CASE l \in torn
      <3>1. <<Sentinel>> \in Seq(E)
        BY DEF Sentinel
      <3>2. queue'[l] = Put(l, <<Sentinel>>)
        BY <1>1, <2>1
      <3> QED BY <1>3, <2>1, <3>1, <3>2, PutTypes
    <2>2. CASE l \notin torn
      BY <1>2, <1>4, <2>2
    <2> QED BY <2>1, <2>2
  <1>10. LinkTypes'
    <2>1. link' \in [Link -> Adapter]
      <3>1. link' = [l \in Link |-> link'[l]]
        BY <1>1
      <3> QED BY <1>9, <3>1
    <2>2. queue' \in [Link -> Seq(E)]
      <3>1. queue' = [l \in Link |-> queue'[l]]
        BY <1>1
      <3> QED BY <1>9, <3>1
    <2>3. bucket' \in [Key -> Nat]
      <3>1. bucket' = [k \in Key |-> bucket'[k]]
        BY <1>1
      <3> QED BY <1>7, <3>1
    <2>4. overtaken' \subseteq Link
      BY <1>1, <1>t DEF LinkInv, LinkTypes
    <2> QED BY <2>1, <2>2, <2>3, <2>4 DEF LinkTypes
  <1>11. ASSUME NEW l \in Link PROVE HeldBy(link'[l], queue'[l], l \in overtaken')
    <2>1. CASE l \in torn
      <3>1. ~(l \in overtaken') => link'[l].thread = "idle"
        BY <1>1, <1>3, <2>1 DEF Locked
      <3> QED BY <1>3, <2>1, <3>1 DEF HeldBy
    <2>2. CASE l \notin torn
      <3>1. link'[l] = link[l] /\ queue'[l] = queue[l] /\ (l \in overtaken' <=> l \in overtaken)
        BY <1>1, <1>4, <2>2
      <3>2. HeldBy(link[l], queue[l], l \in overtaken)
        BY <1>2
      <3> QED BY <3>1, <3>2 DEF HeldBy
    <2> QED BY <2>1, <2>2
  <1>12. (\A l \in Link : HeldBy(link[l], queue[l], l \in overtaken))'
    BY <1>11 DEF HeldBy, Total, Units
  <1> QED BY <1>8, <1>10, <1>12 DEF LinkInv

LEMMA LinkNext == LinkConstants /\ LinkInv /\ [Next]_linkVars => LinkInv'
  <1> SUFFICES ASSUME LinkConstants, LinkInv, [Next]_linkVars PROVE LinkInv'
    OBVIOUS
  <1>1. CASE UNCHANGED linkVars
    <2>1. link' = link /\ queue' = queue /\ bucket' = bucket /\ overtaken' = overtaken
      BY <1>1 DEF linkVars
    <2>2. LinkTypes'
      BY <2>1 DEF LinkInv, LinkTypes
    <2>3. \A k \in Key : Shares(k)' = Shares(k) /\ KeptShares(k)' = KeptShares(k)
      BY <2>1 DEF Shares, KeptShares, ChargedTo, Kept
    <2>4. \A k \in Key : bucket'[k] = Total(Shares(k)') /\ Total(KeptShares(k)') <= MaxIdentity
      BY <2>1, <2>3 DEF LinkInv, SumInv
    <2>5. SumInv'
      BY <2>4 DEF SumInv, Total, Units
    <2>6. \A l \in Link : HeldBy(link'[l], queue'[l], l \in overtaken')
      BY <2>1 DEF LinkInv
    <2>7. (\A l \in Link : HeldBy(link[l], queue[l], l \in overtaken))'
      BY <2>6 DEF HeldBy, Total, Units
    <2> QED BY <2>2, <2>5, <2>7 DEF LinkInv
  <1>2. CASE Shutdown
    BY <1>2, ShutdownSteps
  <1>3. ASSUME NEW l \in Link,
               \/ \E known \in BOOLEAN, use \in {"loop", "refused"} : Open(l, known, use)
               \/ Identify(l)
               \/ \E n \in Chunk, kind \in {"stream", "resource"} : Arrive(l, n, kind)
               \/ Charge(l) \/ TripIdentityCap(l) \/ Deframe(l)
               \/ Account(l) \/ PutResource(l)
               \/ LinkClosed(l) \/ Recv(l) \/ RecvAccounts(l) \/ DrainAndClose(l) \/ Close(l)
        PROVE  LinkInv'
    <2>1. CASE \E known \in BOOLEAN, use \in {"loop", "refused"} : Open(l, known, use)
      BY <2>1, OpenSteps
    <2>2. CASE Identify(l)
      BY <2>2, IdentifySteps
    <2>3. CASE \E n \in Chunk, kind \in {"stream", "resource"} : Arrive(l, n, kind)
      BY <2>3, ArriveSteps
    <2>4. CASE Charge(l)
      BY <2>4, ChargeSteps
    <2>5. CASE TripIdentityCap(l)
      BY <2>5, TripSteps
    <2>6. CASE Deframe(l)
      BY <2>6, DeframeSteps
    <2>7. CASE Account(l)
      BY <2>7, AccountSteps
    <2>8. CASE PutResource(l)
      BY <2>8, PutSteps
    <2>9. CASE LinkClosed(l) \/ Close(l)
      BY <2>9, ClosedSteps
    <2>10. CASE Recv(l)
      BY <2>10, RecvSteps
    <2>11. CASE RecvAccounts(l)
      BY <2>11, RecvAccountsSteps
    <2>12. CASE DrainAndClose(l)
      BY <2>12, DrainAndCloseSteps
    <2> QED BY <1>3, <2>1, <2>2, <2>3, <2>4, <2>5, <2>6, <2>7, <2>8, <2>9, <2>10, <2>11, <2>12
  <1> QED BY <1>1, <1>2, <1>3 DEF Next

LEMMA LinkSafe == LinkConstants /\ LinkInv => BudgetExact
  <1> SUFFICES ASSUME LinkConstants, LinkInv PROVE BudgetExact
    OBVIOUS
  <1>1. ChargesExact
    <2>1. \A k \in Key : bucket[k] = Total([l \in Link |-> ChargedTo(l, k)])
      BY DEF LinkInv, SumInv, Shares
    <2>2. ASSUME NEW l \in Link
          PROVE  /\ link[l].key = NoKey => link[l].charged = 0
                 /\ ~Locked(l) /\ l \notin overtaken =>
                      link[l].charged = IF link[l].closed THEN 0 ELSE link[l].buf + link[l].pend
      <3>1. link[l] \in Adapter /\ HeldBy(link[l], queue[l], l \in overtaken)
        BY AdapterAt
      <3>2. link[l].buf \in Nat /\ link[l].pend \in Nat
        BY <3>1 DEF Adapter
      <3> QED BY <3>1, <3>2 DEF HeldBy, Locked
    <2> QED BY <2>1, <2>2 DEF ChargesExact
  <1>2. IdentityCapHolds
    <2> SUFFICES ASSUME NEW k \in Key, bucket[k] > MaxIdentity,
                        ~ \E l \in Link : link[l].thread = "trip" /\ link[l].key = k
                 PROVE  FALSE
      BY DEF IdentityCapHolds
    <2>1. \A l \in Link : Kept(l, k) = ChargedTo(l, k)
      BY DEF Kept, Keeps, Charges, ChargedTo
    <2>2. KeptShares(k) = Shares(k)
      BY <2>1 DEF KeptShares, Shares
    <2>3. bucket[k] <= MaxIdentity
      BY <2>2 DEF LinkInv, SumInv
    <2>4. bucket[k] \in Nat /\ MaxIdentity \in Nat
      BY DEF LinkInv, LinkTypes, LinkConstants
    <2> QED BY <2>3, <2>4
  <1> QED BY <1>1, <1>2 DEF BudgetExact

\* However many links an identity opens and closes, whenever it identifies, and wherever
\* the RNS threads interrupt each other and the loop: its bucket is the sum of what its
\* links have charged, an open link that no data callback stands in has charged exactly
\* its buffered bytes, and the budget is exceeded only while the link whose migration
\* crossed it is being torn down (_charge_identity_budget, _release_identity_budget).
THEOREM BudgetHeld == ASSUME LinkConstants PROVE Spec => []BudgetExact
  <1>1. Init => LinkInv
    BY LinkInit
  <1>2. LinkInv /\ [Next]_linkVars => LinkInv'
    BY LinkNext
  <1>3. LinkInv => BudgetExact
    BY LinkSafe
  <1> QED BY <1>1, <1>2, <1>3, PTL DEF Spec

-----------------------------------------------------------------------------
(***************************************************************************)
(* RnsGroup                                                                *)
(***************************************************************************)
\* Broadcasts stay among the nodes.
GroupConstants ==
    /\ DedupMax \in Nat /\ DedupTTL \in Nat
    /\ Online \in [Node -> SUBSET Node] /\ Segment \subseteq Node

\* A node's cache of digests, beside when it handled (h) and what it has heard since
\* (hs): no digest twice, each with the time it was handled, and in the order of their
\* last copies.
Digest == [p : Payload, at : Nat]
Ordered(s, h, hs) ==
    /\ s \in Seq(Digest) /\ Len(s) <= DedupMax
    /\ \A i \in 1 .. Len(s) : s[i].at = h[s[i].p]
    /\ \A i, j \in 1 .. Len(s) : i < j => s[j].p # s[i].p /\ s[j].p \in hs[s[i].p]

\* What was handled within the window is in the cache, or was pushed out.
Recalls(s, h, hs, now) ==
    \A q \in Payload : h[q] # -1 /\ now - h[q] <= DedupTTL =>
        Cardinality(hs[q]) >= DedupMax \/ \E i \in 1 .. Len(s) : s[i].p = q

GroupInv ==
    /\ groupClock \in Nat /\ air \subseteq [to : Node, p : Payload]
    /\ seen \in [Node -> Seq(Digest)]
    /\ handledAt \in [Node -> [Payload -> Int]]
    /\ heardSince \in [Node -> [Payload -> SUBSET Payload]]
    /\ \A n \in Node, p \in Payload : IsFiniteSet(heardSince[n][p])
    /\ \A n \in Node : /\ Ordered(seen[n], handledAt[n], heardSince[n])
                       /\ Recalls(seen[n], handledAt[n], heardSince[n], groupClock)

\* The set of payloads heard since, after a copy of p.
Heard(hs, p) == [q \in Payload |-> IF q = p THEN {} ELSE hs[q] \cup {p}]

LEMMA GroupCardinality == \A S : Group!Cardinality(S) = Cardinality(S)
  BY Zenon DEF Group!Cardinality, Cardinality

\* Expiry takes nothing that is within the window.
LEMMA Expires ==
  ASSUME GroupConstants, groupClock \in Nat, NEW h \in [Payload -> Int], NEW hs, NEW s,
         Ordered(s, h, hs), Recalls(s, h, hs, groupClock)
  PROVE  /\ Ordered(Group!Expired(s), h, hs)
         /\ Recalls(Group!Expired(s), h, hs, groupClock)
  <1> DEFINE L == Group!Leading(s)
             k == Cardinality(L)
             t == Group!Expired(s)
  <1>1. s \in Seq(Digest) /\ Len(s) \in Nat /\ Len(s) <= DedupMax /\ DedupMax \in Nat
    BY DEF Ordered, GroupConstants
  <1>2. L \subseteq 1 .. Len(s) /\ \A i \in L : \A j \in 1 .. i : Group!Stale(s[j])
    BY DEF Group!Leading
  <1>3. IsFiniteSet(L) /\ k \in 0 .. Len(s)
    <2>1. IsFiniteSet(1 .. Len(s)) /\ Cardinality(1 .. Len(s)) = Len(s)
      BY <1>1, IntervalCount
    <2>2. IsFiniteSet(L) /\ k <= Len(s)
      BY <1>2, <2>1, FS_Subset
    <2>3. k \in Nat
      BY <2>2, FS_CardinalityType
    <2> HIDE DEF k
    <2> QED BY <1>1, <2>2, <2>3
  <1>4. t = SubSeq(s, k + 1, Len(s))
    BY GroupCardinality DEF Group!Expired
  <1> HIDE DEF k, t
  <1>5. /\ t \in Seq(Digest) /\ Len(t) = Len(s) - k
        /\ \A i \in 1 .. Len(s) - k : t[i] = s[i + k]
    BY <1>1, <1>3, <1>4, Suffix
  <1>6. Ordered(t, h, hs)
    <2>1. Len(t) \in Nat /\ Len(t) <= DedupMax
      BY <1>1, <1>3, <1>5
    <2>2. \A i \in 1 .. Len(t) : t[i] = s[i + k] /\ i + k \in 1 .. Len(s)
      BY <1>1, <1>3, <1>5
    <2>3. \A i \in 1 .. Len(t) : t[i].at = h[t[i].p]
      BY <2>2 DEF Ordered
    <2>4. \A i, j \in 1 .. Len(t) : i < j => t[j].p # t[i].p /\ t[j].p \in hs[t[i].p]
      <3> SUFFICES ASSUME NEW i \in 1 .. Len(t), NEW j \in 1 .. Len(t), i < j
                   PROVE  t[j].p # t[i].p /\ t[j].p \in hs[t[i].p]
        OBVIOUS
      <3>1. i + k < j + k
        BY <1>3
      <3> QED BY <2>2, <3>1 DEF Ordered
    <2> QED BY <1>5, <2>1, <2>3, <2>4 DEF Ordered
  <1>7. Recalls(t, h, hs, groupClock)
    <2> SUFFICES ASSUME NEW q \in Payload, h[q] # -1, groupClock - h[q] <= DedupTTL,
                        ~(Cardinality(hs[q]) >= DedupMax)
                 PROVE  \E i \in 1 .. Len(t) : t[i].p = q
      BY DEF Recalls
    <2>1. PICK i \in 1 .. Len(s) : s[i].p = q
      BY DEF Recalls
    <2>2. ~Group!Stale(s[i])
      <3>1. s[i].at = h[q] /\ h[q] \in Int /\ DedupTTL \in Nat
        BY <2>1 DEF Ordered, GroupConstants
      <3> QED BY <3>1 DEF Group!Stale
    <2>3. L \subseteq 1 .. i - 1
      <3> SUFFICES ASSUME NEW j \in L PROVE j < i
        BY <1>1, <1>2
      <3>1. i \in 1 .. j => Group!Stale(s[i])
        BY <1>2
      <3> QED BY <1>1, <1>2, <2>2, <3>1
    <2>4. k <= i - 1
      <3>1. i - 1 \in Nat
        OBVIOUS
      <3>2. IsFiniteSet(1 .. i - 1) /\ Cardinality(1 .. i - 1) = i - 1
        BY <3>1, IntervalCount
      <3> QED BY <2>3, <3>2, FS_Subset DEF k
    <2>5. i - k \in 1 .. Len(s) - k /\ (i - k) + k = i
      BY <1>1, <1>3, <2>4
    <2> QED BY <1>5, <2>1, <2>5
  <1> QED BY <1>6, <1>7 DEF t

\* What was heard since only grows with a copy of another payload.
LEMMA HeardGrows ==
  ASSUME GroupConstants, NEW hs \in [Payload -> SUBSET Payload], NEW p \in Payload,
         \A q \in Payload : IsFiniteSet(hs[q])
  PROVE  /\ Heard(hs, p) \in [Payload -> SUBSET Payload]
         /\ \A q \in Payload : IsFiniteSet(Heard(hs, p)[q]) /\ Cardinality(Heard(hs, p)[q]) \in Nat
         /\ \A q \in Payload : q # p => /\ hs[q] \subseteq Heard(hs, p)[q] /\ p \in Heard(hs, p)[q]
                                        /\ (Cardinality(hs[q]) >= DedupMax => Cardinality(Heard(hs, p)[q]) >= DedupMax)
  <1>1. Heard(hs, p) \in [Payload -> SUBSET Payload]
    BY DEF Heard
  <1>2. ASSUME NEW q \in Payload PROVE IsFiniteSet(Heard(hs, p)[q])
    <2>1. CASE q = p
      BY <2>1, FS_EmptySet DEF Heard
    <2>2. CASE q # p
      <3>1. Heard(hs, p)[q] = hs[q] \cup {p}
        BY <2>2 DEF Heard
      <3> QED BY <3>1, FS_AddElement, SMTT(30)
    <2> QED BY <2>1, <2>2
  <1>3. \A q \in Payload : Cardinality(Heard(hs, p)[q]) \in Nat
    BY <1>2, FS_CardinalityType
  <1>4. ASSUME NEW q \in Payload, q # p
        PROVE  /\ hs[q] \subseteq Heard(hs, p)[q] /\ p \in Heard(hs, p)[q]
               /\ (Cardinality(hs[q]) >= DedupMax => Cardinality(Heard(hs, p)[q]) >= DedupMax)
    <2>1. hs[q] \subseteq Heard(hs, p)[q] /\ p \in Heard(hs, p)[q]
      BY <1>4 DEF Heard
    <2>2. Cardinality(hs[q]) <= Cardinality(Heard(hs, p)[q])
      BY <1>2, <2>1, FS_Subset
    <2>3. Cardinality(hs[q]) \in Nat /\ DedupMax \in Nat
      BY FS_CardinalityType DEF GroupConstants
    <2> QED BY <1>3, <2>1, <2>2, <2>3
  <1> QED BY <1>1, <1>2, <1>3, <1>4

\* A repeated copy moves its digest to the end and keeps all of them.
LEMMA Touches ==
  ASSUME GroupConstants, NEW now \in Nat, NEW h \in [Payload -> Int],
         NEW hs \in [Payload -> SUBSET Payload],
         \A q \in Payload : IsFiniteSet(hs[q]), NEW p \in Payload, NEW s,
         Ordered(s, h, hs), Recalls(s, h, hs, now), \E i \in 1 .. Len(s) : s[i].p = p
  PROVE  /\ Ordered(Group!Touched(s, p), h, Heard(hs, p))
         /\ Recalls(Group!Touched(s, p), h, Heard(hs, p), now)
  <1> DEFINE n == Len(s)
             i == CHOOSE i \in 1 .. Len(s) : s[i].p = p
             m(j) == IF j < i THEN j ELSE IF j < n THEN j + 1 ELSE i
             t == Group!Touched(s, p)
             g == Heard(hs, p)
  <1>1. /\ s \in Seq(Digest) /\ n \in Nat /\ n <= DedupMax
        /\ \A j \in 1 .. n : s[j] \in Digest /\ s[j].p \in Payload
    <2>1. s \in Seq(Digest) /\ n \in Nat /\ n <= DedupMax
      BY DEF Ordered
    <2>2. \A j \in 1 .. n : s[j] \in Digest
      BY <2>1
    <2>3. \A d \in Digest : d.p \in Payload
      BY DEF Digest
    <2> QED BY <2>1, <2>2, <2>3
  <1>2. i \in 1 .. n /\ s[i].p = p
    <2>1. \E x : x \in 1 .. Len(s) /\ s[x].p = p
      OBVIOUS
    <2>2. i = CHOOSE x : x \in 1 .. Len(s) /\ s[x].p = p
      OBVIOUS
    <2> QED BY <2>1, <2>2
  <1>3. t = [j \in 1 .. n |-> s[m(j)]]
    BY DEF Group!Touched
  <1> HIDE DEF i, t, g
  <1>4. \A j \in 1 .. n : m(j) \in 1 .. n
    BY <1>1, <1>2
  <1>5. \A j, k \in 1 .. n : j < k => m(j) # i /\ m(j) # m(k) /\ (k = n => m(k) = i) /\ (k # n => m(j) < m(k))
    BY <1>1, <1>2
  <1>6. \A x \in 1 .. n : \E j \in 1 .. n : m(j) = x
    <2> TAKE x \in 1 .. n
    <2>1. CASE x < i
      <3>1. m(x) = x
        BY <2>1
      <3> QED BY <3>1
    <2>2. CASE x = i
      <3>1. n \in 1 .. n /\ m(n) = i
        BY <1>1, <1>2
      <3> QED BY <2>2, <3>1
    <2>3. CASE x > i
      <3>1. x - 1 \in 1 .. n /\ m(x - 1) = x
        BY <1>1, <1>2, <2>3
      <3> QED BY <3>1
    <2> QED BY <1>1, <1>2, <2>1, <2>2, <2>3
  <1> HIDE DEF m
  <1>7. t \in Seq(Digest) /\ Len(t) = n /\ \A j \in 1 .. n : t[j] = s[m(j)]
    <2>1. t \in [1 .. n -> Digest]
      BY <1>1, <1>3, <1>4
    <2> QED BY <1>1, <1>3, <2>1
  <1>8. Ordered(t, h, g)
    <2>1. \A j \in 1 .. n : t[j].at = h[t[j].p]
      BY <1>4, <1>7 DEF Ordered
    <2>2. ASSUME NEW j \in 1 .. n, NEW k \in 1 .. n, j < k
          PROVE  t[k].p # t[j].p /\ t[k].p \in g[t[j].p]
      <3>1. m(j) \in 1 .. n /\ m(k) \in 1 .. n /\ m(j) # i /\ m(j) # m(k) /\ t[j] = s[m(j)] /\ t[k] = s[m(k)]
        BY <1>4, <1>5, <1>7, <2>2
      <3>2. t[j].p # p /\ t[j].p \in Payload
        <4>1. \A x \in 1 .. n : x # i => s[x].p # p
          <5> SUFFICES ASSUME NEW x \in 1 .. n, x # i PROVE s[x].p # p
            OBVIOUS
          <5>1. x < i \/ i < x
            BY <1>1, <1>2
          <5> QED BY <1>2, <5>1 DEF Ordered
        <4> QED BY <1>1, <3>1, <4>1
      <3>3. hs[t[j].p] \subseteq g[t[j].p] /\ p \in g[t[j].p]
        BY <3>2, HeardGrows DEF g
      <3>4. CASE k = n
        <4>1. t[k].p = p
          BY <1>2, <1>5, <2>2, <3>1, <3>4
        <4> QED BY <3>2, <3>3, <4>1
      <3>5. CASE k # n
        <4>1. m(j) < m(k)
          BY <1>5, <2>2, <3>5
        <4>2. s[m(k)].p # s[m(j)].p /\ s[m(k)].p \in hs[s[m(j)].p]
          BY <3>1, <4>1 DEF Ordered
        <4> QED BY <3>1, <3>3, <4>2
      <3> QED BY <3>4, <3>5
    <2> QED BY <1>1, <1>7, <2>1, <2>2 DEF Ordered
  <1>9. Recalls(t, h, g, now)
    <2> SUFFICES ASSUME NEW q \in Payload, h[q] # -1, now - h[q] <= DedupTTL
                 PROVE  Cardinality(g[q]) >= DedupMax \/ \E j \in 1 .. n : t[j].p = q
      BY <1>7 DEF Recalls
    <2>1. CASE \E x \in 1 .. n : s[x].p = q
      <3>1. PICK x \in 1 .. n : s[x].p = q
        BY <2>1
      <3>2. PICK j \in 1 .. n : m(j) = x
        BY <1>6
      <3> QED BY <1>7, <3>1, <3>2
    <2>2. CASE ~\E x \in 1 .. n : s[x].p = q
      <3>1. q # p
        BY <1>2, <2>2
      <3>2. Cardinality(hs[q]) >= DedupMax
        BY <2>2 DEF Recalls
      <3> QED BY <3>1, <3>2, HeardGrows DEF g
    <2> QED BY <2>1, <2>2
  <1> QED BY <1>8, <1>9 DEF t, g

\* A first copy is put at the end; what it pushes out has been outrun by as many others
\* as the cache holds.
LEMMA Adds ==
  ASSUME GroupConstants, groupClock \in Nat, NEW h \in [Payload -> Int],
         NEW hs \in [Payload -> SUBSET Payload],
         \A q \in Payload : IsFiniteSet(hs[q]), NEW p \in Payload, NEW s,
         Ordered(s, h, hs), Recalls(s, h, hs, groupClock), ~\E i \in 1 .. Len(s) : s[i].p = p
  PROVE  /\ Ordered(Group!Added(s, p), [h EXCEPT ![p] = groupClock], Heard(hs, p))
         /\ Recalls(Group!Added(s, p), [h EXCEPT ![p] = groupClock], Heard(hs, p), groupClock)
  <1> DEFINE n == Len(s)
             e == [p |-> p, at |-> groupClock]
             l == Append(s, e)
             t == Group!Added(s, p)
             f == [h EXCEPT ![p] = groupClock]
             g == Heard(hs, p)
  <1>1. /\ s \in Seq(Digest) /\ n \in Nat /\ n <= DedupMax /\ DedupMax \in Nat
        /\ \A j \in 1 .. n : s[j] \in Digest /\ s[j].p \in Payload /\ s[j].p # p
    <2>1. s \in Seq(Digest) /\ n \in Nat /\ n <= DedupMax /\ DedupMax \in Nat
      BY DEF Ordered, GroupConstants
    <2>2. \A j \in 1 .. n : s[j] \in Digest
      BY <2>1
    <2>3. \A d \in Digest : d.p \in Payload
      BY DEF Digest
    <2> QED BY <2>1, <2>2, <2>3
  <1>2. e \in Digest /\ e.p = p /\ e.at = groupClock
    BY DEF Digest
  <1>3. t = IF Len(l) > DedupMax THEN Tail(l) ELSE l
    BY DEF Group!Added
  <1>e. f \in [Payload -> Int] /\ f[p] = groupClock /\ \A q \in Payload : q # p => f[q] = h[q]
    OBVIOUS
  <1>h. /\ \A q \in Payload : IsFiniteSet(g[q]) /\ Cardinality(g[q]) \in Nat
        /\ \A q \in Payload : q # p => /\ hs[q] \subseteq g[q] /\ p \in g[q]
                                       /\ (Cardinality(hs[q]) >= DedupMax => Cardinality(g[q]) >= DedupMax)
    BY HeardGrows
  <1> HIDE DEF e, f, g, t
  <1>4. /\ l \in Seq(Digest) /\ Len(l) = n + 1 /\ l[n + 1] = e
        /\ \A j \in 1 .. n : l[j] = s[j]
    BY <1>1, <1>2, AppendProperties
  <1> HIDE DEF l
  <1>5. \A j \in 1 .. n + 1 : l[j].at = f[l[j].p] /\ l[j].p \in Payload
    <2> TAKE j \in 1 .. n + 1
    <2>1. CASE j = n + 1
      BY <1>2, <1>4, <1>e, <2>1
    <2>2. CASE j \in 1 .. n
      BY <1>1, <1>4, <1>e, <2>2 DEF Ordered
    <2> QED BY <1>1, <2>1, <2>2
  <1>6. ASSUME NEW j \in 1 .. n + 1, NEW k \in 1 .. n + 1, j < k
        PROVE  l[k].p # l[j].p /\ l[k].p \in g[l[j].p]
    <2>1. j \in 1 .. n /\ l[j] = s[j] /\ s[j].p \in Payload /\ s[j].p # p
      BY <1>1, <1>4, <1>6
    <2>2. hs[s[j].p] \subseteq g[s[j].p] /\ p \in g[s[j].p]
      BY <1>h, <2>1
    <2>3. CASE k = n + 1
      BY <1>2, <1>4, <2>1, <2>2, <2>3
    <2>4. CASE k \in 1 .. n
      <3>1. s[k].p # s[j].p /\ s[k].p \in hs[s[j].p]
        BY <1>6, <2>1, <2>4 DEF Ordered
      <3> QED BY <1>4, <2>1, <2>2, <2>4, <3>1
    <2> QED BY <1>1, <2>3, <2>4
  <1>7. \A q \in Payload : f[q] # -1 /\ groupClock - f[q] <= DedupTTL =>
            Cardinality(g[q]) >= DedupMax \/ \E j \in 1 .. n + 1 : l[j].p = q
    <2> SUFFICES ASSUME NEW q \in Payload, f[q] # -1, groupClock - f[q] <= DedupTTL
                 PROVE  Cardinality(g[q]) >= DedupMax \/ \E j \in 1 .. n + 1 : l[j].p = q
      OBVIOUS
    <2>1. CASE q = p
      <3>1. n + 1 \in 1 .. n + 1 /\ l[n + 1].p = q
        BY <1>1, <1>2, <1>4, <2>1
      <3> QED BY <3>1
    <2>2. CASE q # p
      <3>1. h[q] # -1 /\ groupClock - h[q] <= DedupTTL
        BY <1>e, <2>2
      <3>2. Cardinality(hs[q]) >= DedupMax \/ \E j \in 1 .. n : s[j].p = q
        BY <3>1 DEF Recalls
      <3>3. \A j \in 1 .. n : j \in 1 .. n + 1 /\ l[j] = s[j]
        BY <1>1, <1>4
      <3> QED BY <1>h, <2>2, <3>2, <3>3
    <2> QED BY <2>1, <2>2
  <1>8. CASE n + 1 <= DedupMax
    <2>1. t = l
      BY <1>1, <1>3, <1>4, <1>8
    <2>2. Ordered(t, f, g)
      BY <1>4, <1>5, <1>6, <1>8, <2>1 DEF Ordered
    <2>3. Recalls(t, f, g, groupClock)
      BY <1>4, <1>7, <2>1 DEF Recalls
    <2> QED BY <2>2, <2>3 DEF t, f, g
  <1>9. CASE ~(n + 1 <= DedupMax)
    <2>1. n = DedupMax /\ t = Tail(l)
      BY <1>1, <1>3, <1>4, <1>9
    <2>2. t \in Seq(Digest) /\ Len(t) = n /\ \A j \in 1 .. n : t[j] = l[j + 1]
      BY <1>1, <1>4, <2>1, HeadTailProperties
    <2>3. \A j \in 1 .. n : j + 1 \in 1 .. n + 1
      BY <1>1
    <2>4. Ordered(t, f, g)
      <3>1. \A j \in 1 .. n : t[j].at = f[t[j].p]
        BY <1>5, <2>2, <2>3
      <3>2. ASSUME NEW j \in 1 .. n, NEW k \in 1 .. n, j < k
            PROVE  t[k].p # t[j].p /\ t[k].p \in g[t[j].p]
        <4>1. j + 1 < k + 1
          BY <3>2
        <4> QED BY <1>6, <2>2, <2>3, <4>1
      <3> QED BY <1>1, <2>2, <3>1, <3>2 DEF Ordered
    <2>5. ASSUME NEW q \in Payload, q = l[1].p PROVE Cardinality(g[q]) >= DedupMax
      <3> DEFINE others == [j \in 1 .. n |-> l[j + 1].p]
      <3>1. \A j \in 1 .. n : others[j] \in g[q]
        <4>1. \A j \in 1 .. n : 1 \in 1 .. n + 1 /\ 1 < j + 1
          BY <1>1
        <4> QED BY <1>6, <2>3, <2>5, <4>1
      <3>2. \A j, k \in 1 .. n : others[j] = others[k] => j = k
        <4> SUFFICES ASSUME NEW j \in 1 .. n, NEW k \in 1 .. n, j # k PROVE l[j + 1].p # l[k + 1].p
          OBVIOUS
        <4>1. j + 1 < k + 1 \/ k + 1 < j + 1
          BY <1>1
        <4> QED BY <1>6, <2>3, <4>1
      <3>3. others \in [1 .. n -> g[q]]
        BY <3>1
      <3> HIDE DEF others
      <3>4. others \in Injection(1 .. n, g[q])
        BY <3>2, <3>3, Fun_IsInj
      <3>5. Cardinality(1 .. n) <= Cardinality(g[q])
        BY <1>h, <3>4, FS_Injection
      <3>6. Cardinality(1 .. n) = n
        BY <1>1, IntervalCount
      <3> QED BY <1>1, <1>h, <2>1, <3>5, <3>6
    <2>6. Recalls(t, f, g, groupClock)
      <3> SUFFICES ASSUME NEW q \in Payload, f[q] # -1, groupClock - f[q] <= DedupTTL
                   PROVE  Cardinality(g[q]) >= DedupMax \/ \E j \in 1 .. n : t[j].p = q
        BY <2>2 DEF Recalls
      <3>1. CASE Cardinality(g[q]) >= DedupMax
        BY <3>1
      <3>2. CASE \E j \in 1 .. n + 1 : l[j].p = q
        <4>1. PICK j \in 1 .. n + 1 : l[j].p = q
          BY <3>2
        <4>2. CASE j = 1
          BY <2>5, <4>1, <4>2
        <4>3. CASE j # 1
          <5>1. j - 1 \in 1 .. n /\ (j - 1) + 1 = j
            BY <1>1, <4>3
          <5>2. t[j - 1] = l[j]
            BY <2>2, <5>1
          <5> QED BY <4>1, <5>1, <5>2
        <4> QED BY <4>2, <4>3
      <3> QED BY <1>7, <3>1, <3>2
    <2> QED BY <2>4, <2>6 DEF t, f, g
  <1> QED BY <1>8, <1>9

LEMMA GroupInit == ASSUME GroupConstants PROVE Group!Init => GroupInv
  <1> SUFFICES ASSUME Group!Init PROVE GroupInv
    OBVIOUS
  <1>1. \A n \in Node : seen[n] = <<>> /\ Len(seen[n]) = 0
    BY DEF Group!Init
  <1>2. \A n \in Node, p \in Payload : handledAt[n][p] = -1 /\ heardSince[n][p] = {} /\ IsFiniteSet(heardSince[n][p])
    BY FS_EmptySet DEF Group!Init
  <1>3. <<>> \in Seq(Digest) /\ 0 <= DedupMax
    BY EmptySeq DEF GroupConstants
  <1>4. \A n \in Node : /\ Ordered(seen[n], handledAt[n], heardSince[n])
                        /\ Recalls(seen[n], handledAt[n], heardSince[n], groupClock)
    <2> TAKE n \in Node
    <2>1. Ordered(<<>>, handledAt[n], heardSince[n])
      BY <1>3 DEF Ordered
    <2>2. Recalls(seen[n], handledAt[n], heardSince[n], groupClock)
      BY <1>2 DEF Recalls
    <2> QED BY <1>1, <2>1, <2>2
  <1>5. /\ groupClock \in Nat /\ air \subseteq [to : Node, p : Payload]
        /\ seen \in [Node -> Seq(Digest)]
        /\ handledAt \in [Node -> [Payload -> Int]]
        /\ heardSince \in [Node -> [Payload -> SUBSET Payload]]
    BY <1>3 DEF Group!Init
  <1> QED BY <1>2, <1>4, <1>5 DEF GroupInv

\* A copy of either phase.
LEMMA GroupReceive ==
  ASSUME GroupConstants, GroupInv, NEW c \in air, Group!Receive(c) PROVE GroupInv' /\ Group!HandledNow
  <1> DEFINE n == c.to
             p == c.p
             s == Group!Expired(seen[n])
             dup == \E i \in 1 .. Len(s) : s[i].p = p
             t == IF dup THEN Group!Touched(s, p) ELSE Group!Added(s, p)
             h == IF dup THEN handledAt[n] ELSE [handledAt[n] EXCEPT ![p] = groupClock]
             g == Heard(heardSince[n], p)
  <1>1. n \in Node /\ p \in Payload
    BY DEF GroupInv
  <1>2. /\ seen' = [seen EXCEPT ![n] = t] /\ groupClock' = groupClock /\ air' = air
        /\ handledAt' = IF dup THEN handledAt ELSE [handledAt EXCEPT ![n][p] = groupClock]
        /\ heardSince' = [heardSince EXCEPT ![n] = g]
    BY DEF Group!Receive, Heard
  <1>3. /\ groupClock \in Nat /\ handledAt[n] \in [Payload -> Int]
        /\ heardSince[n] \in [Payload -> SUBSET Payload]
        /\ \A q \in Payload : IsFiniteSet(heardSince[n][q])
        /\ Ordered(seen[n], handledAt[n], heardSince[n])
        /\ Recalls(seen[n], handledAt[n], heardSince[n], groupClock)
    BY <1>1 DEF GroupInv
  <1> HIDE DEF n, p
  <1>4. /\ Ordered(s, handledAt[n], heardSince[n])
        /\ Recalls(s, handledAt[n], heardSince[n], groupClock)
    BY <1>3, Expires
  <1> HIDE DEF s
  <1>5. handledAt' = [handledAt EXCEPT ![n] = h]
    BY <1>2, <1>1 DEF GroupInv
  <1>6. Ordered(t, h, g) /\ Recalls(t, h, g, groupClock) /\ h \in [Payload -> Int]
    <2>1. CASE dup
      BY <1>1, <1>3, <1>4, <2>1, Touches
    <2>2. CASE ~dup
      <3>1. h = [handledAt[n] EXCEPT ![p] = groupClock] /\ t = Group!Added(s, p)
        BY <2>2
      <3>2. h \in [Payload -> Int]
        BY <1>1, <1>3, <3>1
      <3> HIDE DEF t, h
      <3>3. /\ Ordered(Group!Added(s, p), [handledAt[n] EXCEPT ![p] = groupClock], g)
            /\ Recalls(Group!Added(s, p), [handledAt[n] EXCEPT ![p] = groupClock], g, groupClock)
        BY <1>1, <1>3, <1>4, <2>2, Adds
      <3> QED BY <3>1, <3>2, <3>3
    <2> QED BY <2>1, <2>2
  <1>7. g \in [Payload -> SUBSET Payload] /\ \A q \in Payload : IsFiniteSet(g[q])
    BY <1>1, <1>3, HeardGrows
  <1>8. t \in Seq(Digest)
    BY <1>6 DEF Ordered
  <1> HIDE DEF t, h, g, dup
  <1>9. /\ seen'[n] = t /\ handledAt'[n] = h /\ heardSince'[n] = g
        /\ \A m \in Node \ {n} : seen'[m] = seen[m] /\ handledAt'[m] = handledAt[m] /\ heardSince'[m] = heardSince[m]
    BY <1>1, <1>2, <1>5 DEF GroupInv
  <1>10. GroupInv'
    <2>1. /\ groupClock' \in Nat /\ air' \subseteq [to : Node, p : Payload]
          /\ seen' \in [Node -> Seq(Digest)]
          /\ handledAt' \in [Node -> [Payload -> Int]]
          /\ heardSince' \in [Node -> [Payload -> SUBSET Payload]]
      BY <1>2, <1>5, <1>6, <1>7, <1>8 DEF GroupInv
    <2>2. \A m \in Node, q \in Payload : IsFiniteSet(heardSince'[m][q])
      BY <1>7, <1>9 DEF GroupInv
    <2>3. ASSUME NEW m \in Node
          PROVE  /\ Ordered(seen'[m], handledAt'[m], heardSince'[m])
                 /\ Recalls(seen'[m], handledAt'[m], heardSince'[m], groupClock')
      <3>1. CASE m = n
        BY <1>2, <1>6, <1>9, <3>1
      <3>2. CASE m # n
        BY <1>2, <1>9, <3>2 DEF GroupInv
      <3> QED BY <3>1, <3>2
    <2>4. (\A m \in Node : /\ Ordered(seen[m], handledAt[m], heardSince[m])
                           /\ Recalls(seen[m], handledAt[m], heardSince[m], groupClock))'
      BY <2>3 DEF Ordered, Recalls
    <2> QED BY <2>1, <2>2, <2>4 DEF GroupInv
  <1>11. Group!HandledNow
    <2> SUFFICES ASSUME NEW m \in Node, NEW q \in Payload,
                        handledAt'[m][q] # handledAt[m][q], handledAt[m][q] # -1,
                        ~(groupClock - handledAt[m][q] > DedupTTL)
                 PROVE  Cardinality(heardSince[m][q]) >= DedupMax
      BY GroupCardinality DEF Group!HandledNow
    <2>1. m = n
      BY <1>9
    <2>2. ~dup /\ q = p
      <3>1. ~dup
        BY <1>9, <2>1 DEF h
      <3>2. h = [handledAt[n] EXCEPT ![p] = groupClock]
        BY <3>1 DEF h
      <3> QED BY <1>3, <1>9, <2>1, <3>1, <3>2
    <2>3. groupClock - handledAt[n][q] <= DedupTTL
      <3>1. handledAt[n][q] \in Int /\ DedupTTL \in Nat
        BY <1>3 DEF GroupConstants
      <3> QED BY <1>3, <2>1, <3>1
    <2> QED BY <1>4, <2>1, <2>2, <2>3 DEF Recalls, dup
  <1> QED BY <1>10, <1>11

LEMMA GroupNext ==
  ASSUME GroupConstants, GroupInv, [Group!Next]_groupVars PROVE GroupInv' /\ (Group!HandledNow \/ UNCHANGED groupVars)
  <1>1. CASE \E c \in air : Group!Receive(c)
    BY <1>1, GroupReceive
  <1>2. ASSUME UNCHANGED <<seen, handledAt, heardSince>>, groupClock' \in {groupClock, groupClock + 1},
               air' \subseteq [to : Node, p : Payload]
        PROVE  GroupInv' /\ Group!HandledNow
    <2>1. groupClock \in Nat /\ groupClock' \in Nat /\ groupClock <= groupClock' /\ DedupTTL \in Nat
      BY <1>2 DEF GroupInv, GroupConstants
    <2>2. ASSUME NEW m \in Node
          PROVE  /\ Ordered(seen'[m], handledAt'[m], heardSince'[m])
                 /\ Recalls(seen'[m], handledAt'[m], heardSince'[m], groupClock')
      <3>1. Ordered(seen[m], handledAt[m], heardSince[m]) /\ Recalls(seen[m], handledAt[m], heardSince[m], groupClock)
        BY DEF GroupInv
      <3>2. \A q \in Payload : handledAt[m][q] \in Int
        BY DEF GroupInv
      <3>3. \A q \in Payload : groupClock' - handledAt[m][q] <= DedupTTL => groupClock - handledAt[m][q] <= DedupTTL
        BY <2>1, <3>2
      <3>4. Recalls(seen[m], handledAt[m], heardSince[m], groupClock')
        BY <3>1, <3>3 DEF Recalls
      <3> QED BY <1>2, <3>1, <3>4
    <2>3. (\A m \in Node : /\ Ordered(seen[m], handledAt[m], heardSince[m])
                           /\ Recalls(seen[m], handledAt[m], heardSince[m], groupClock))'
      BY <2>2 DEF Ordered, Recalls
    <2>4. GroupInv'
      BY <1>2, <2>1, <2>3 DEF GroupInv
    <2>5. Group!HandledNow
      BY <1>2 DEF Group!HandledNow
    <2> QED BY <2>4, <2>5
  <1>3. ASSUME NEW n \in Node, NEW m \in Node, NEW f \in {"group", "other"}, Group!Announced(n, m, f)
        PROVE  GroupInv' /\ Group!HandledNow
    BY <1>2, <1>3 DEF Group!Announced, GroupInv
  <1>4. ASSUME NEW n \in Node, NEW p \in Payload, NEW d \in BOOLEAN, Group!Broadcast(n, p, d)
        PROVE  GroupInv' /\ Group!HandledNow
    <2>1. Group!FanOut(n) \subseteq Node
      BY DEF Group!FanOut, GroupConstants
    <2>2. air' \subseteq [to : Node, p : Payload]
      BY <1>4, <2>1 DEF Group!Broadcast, GroupInv, GroupConstants
    <2> QED BY <1>2, <1>4, <2>2 DEF Group!Broadcast, GroupInv
  <1>5. CASE Group!Tick
    BY <1>2, <1>5 DEF Group!Tick, GroupInv
  <1>6. CASE UNCHANGED groupVars
    BY <1>2, <1>6 DEF groupVars, GroupInv
  <1> QED BY <1>1, <1>3, <1>4, <1>5, <1>6 DEF Group!Next

\* With any window, size of the cache and number of nodes, over any loss, repetition
\* and order of the copies: a group payload is handled again only when the window since
\* it was handled has passed, or as many other payloads as the cache holds came after
\* its last copy (_on_rns_group_message).
THEOREM BroadcastHandledOnce == ASSUME GroupConstants PROVE Group!Spec => HandledOnce
  <1>1. GroupConstants /\ Group!Init => GroupInv
    BY GroupInit
  <1>2. GroupConstants /\ GroupInv /\ [Group!Next]_groupVars => GroupInv' /\ [Group!HandledNow]_groupVars
    BY GroupNext
  <1> QED BY <1>1, <1>2, PTL DEF Group!Spec, HandledOnce, Group!HandledOnce, Group!groupVars, groupVars
=============================================================================
