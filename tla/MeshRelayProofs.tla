-------------------------- MODULE MeshRelayProofs --------------------------
(***************************************************************************)
(* Proofs about MeshRelay, for every set of nodes and messages, whatever   *)
(* next hops the relays choose and whatever is re-sent or lost: the type   *)
(* invariant and the hop budget, whatever the caches forget; and, with     *)
(* caches that have room for every message in flight, that a node forwards *)
(* a message once while it remembers, and that a mesh which remembers      *)
(* implements MeshDelivery.  Then the cache that runs by itself in         *)
(* MCMeshRelay: what it forgets, and when.                                 *)
(***************************************************************************)
EXTENDS MCMeshRelay, FiniteSetTheorems, FunctionTheorems, SequenceTheorems,
        WellFoundedInduction, TLAPS

\* What one routed copy has spent: HopBudget for a single copy.
Paid(c) ==
    c.kind = "MSG" =>
        /\ c.ttl + Len(c.hops) = MaxHops
        /\ \A i, j \in 1 .. Len(c.hops) : c.hops[i] = c.hops[j] => i = j

\* A copy that passed the TTL and hop-list checks is one hop further for one
\* less TTL, and still names every relay once.
LEMMA HoppedPaid ==
    ASSUME NEW c \in Copy, NEW next \in Node, c.kind = "MSG",
           Paid(c), ~TtlSpent(c), ~Looped(c)
    PROVE  Hopped(c, next) \in Copy /\ Paid(Hopped(c, next))
<1> DEFINE h == Hopped(c, next)
<1>1. c.hops \in Seq(Node) /\ c.ttl \in Nat /\ c.to \in Node /\ c.msg \in Msg
  BY DEF Copy
<1>2. /\ h.kind = "MSG" /\ h.msg = c.msg /\ h.to = next
      /\ h.ttl = c.ttl - 1 /\ h.hops = Append(c.hops, c.to)
  BY DEF Hopped
<1>3. h.ttl \in Nat
  BY <1>1, <1>2 DEF TtlSpent
<1>4. h.hops \in Seq(Node) /\ Len(h.hops) = Len(c.hops) + 1
  BY <1>1, <1>2
<1>5. h \in Copy
  <2>1. "MSG" \in Kinds
    BY DEF Kinds
  <2> QED
    BY <1>1, <1>2, <1>3, <1>4, <2>1 DEF Hopped, Copy
<1>6. h.ttl + Len(h.hops) = MaxHops
  <2>1. c.ttl + Len(c.hops) = MaxHops /\ Len(c.hops) \in Nat
    BY <1>1 DEF Paid
  <2> HIDE DEF h
  <2> QED
    BY <1>1, <1>2, <1>4, <2>1
<1>7. ASSUME NEW i \in 1 .. Len(h.hops), NEW j \in 1 .. Len(h.hops), h.hops[i] = h.hops[j]
      PROVE  i = j
  <2>1. \A k \in 1 .. Len(c.hops) : h.hops[k] = c.hops[k] /\ c.hops[k] # c.to
    BY <1>1, <1>2 DEF Looped
  <2>2. h.hops[Len(c.hops) + 1] = c.to
    BY <1>1, <1>2
  <2>3. i \in 1 .. Len(c.hops) \/ i = Len(c.hops) + 1
    BY <1>1, <1>4
  <2>4. j \in 1 .. Len(c.hops) \/ j = Len(c.hops) + 1
    BY <1>1, <1>4
  <2> QED
    BY <1>7, <2>1, <2>2, <2>3, <2>4 DEF Paid
<1> QED
  BY <1>5, <1>6, <1>7 DEF Paid

\* A new message starts with the full budget and no hops.
LEMMA SentPaid ==
    ASSUME NEW m \in Msg, NEW next \in Node
    PROVE  LET c == [kind |-> "MSG", msg |-> m, to |-> next, ttl |-> MaxHops, hops |-> <<>>]
           IN  c \in Copy /\ Paid(c)
BY RelayAssumption DEF Copy, Kinds, Paid

\* A notice is a copy, and no routed message.
LEMMA NoticeType ==
    ASSUME NEW c \in Copy, NEW back \in Node
    PROVE  Notice(c, back) \in Copy /\ Paid(Notice(c, back))
BY DEF Copy, Kinds, Notice, Paid

BudgetInv == TypeOK /\ \A c \in wire : Paid(c)

\* The network only ever holds copies whose budget adds up.
LEMMA BudgetStep ==
    ASSUME BudgetInv, [Next]_relayVars
    PROVE  BudgetInv'
<1> USE RelayAssumption
<1>0. /\ \A c \in wire : c \in Copy /\ Paid(c)
      /\ sent \subseteq Msg /\ noticed \subseteq Node \X Msg /\ forgot \subseteq Node /\ resends \in 0 .. MaxResends
      /\ published \in [Node -> [Msg -> Nat]] /\ forwards \in [Node -> [Msg -> 0 .. 2]]
  BY DEF BudgetInv, TypeOK
<1>q. ASSUME /\ \A c \in wire' : c \in Copy /\ Paid(c)
             /\ sent' \subseteq Msg /\ noticed' \subseteq Node \X Msg /\ forgot' \subseteq Node /\ resends' \in 0 .. MaxResends
             /\ published' \in [Node -> [Msg -> Nat]] /\ forwards' \in [Node -> [Msg -> 0 .. 2]]
      PROVE  BudgetInv'
  BY <1>q DEF BudgetInv, TypeOK, Paid
<1>t. \A c, again : Taken(c, again) => resends' \in 0 .. MaxResends
  BY <1>0 DEF Taken
<1>l. ASSUME NEW c, NEW again, NEW e \in Left(c, again) PROVE e \in wire
  BY DEF Left
<1>1. ASSUME NEW m \in Msg, NEW next \in Node, Send(m, next)
      PROVE  BudgetInv'
  <2>1. \A c \in wire' : c \in Copy /\ Paid(c)
    BY <1>0, <1>1, SentPaid DEF Send
  <2> QED
    BY <1>0, <1>1, <1>q, <2>1 DEF Send
<1>2. ASSUME NEW c \in wire, NEW again \in BOOLEAN, DeliverTerminal(c, again)
      PROVE  BudgetInv'
  <2>1. \A e \in wire' : e \in Copy /\ Paid(e)
    BY <1>0, <1>2, <1>l DEF DeliverTerminal
  <2>2. c.to \in Node /\ c.msg \in Msg
    BY <1>0 DEF Copy
  <2>3. published' \in [Node -> [Msg -> Nat]]
    BY <1>0, <1>2, <2>2 DEF DeliverTerminal, Publish
  <2> QED
    BY <1>0, <1>2, <1>q, <1>t, <2>1, <2>3 DEF DeliverTerminal
<1>3. ASSUME NEW c \in wire, NEW again \in BOOLEAN, DropRelay(c, again)
      PROVE  BudgetInv'
  <2>1. \A e \in wire' : e \in Copy /\ Paid(e)
    BY <1>0, <1>3, <1>l DEF DropRelay
  <2> QED
    BY <1>0, <1>3, <1>q, <1>t, <2>1 DEF DropRelay
<1>4. ASSUME NEW c \in wire, NEW again \in BOOLEAN, NEW next \in Node, RelayForward(c, next, again)
      PROVE  BudgetInv'
  <2>1. c \in Copy /\ Paid(c) /\ c.kind = "MSG" /\ ~TtlSpent(c) /\ ~Looped(c)
    BY <1>0, <1>4 DEF RelayForward, Relays
  <2>2. Hopped(c, next) \in Copy /\ Paid(Hopped(c, next))
    BY <2>1, HoppedPaid
  <2>3. \A e \in wire' : e \in Copy /\ Paid(e)
    BY <1>0, <1>4, <1>l, <2>2 DEF RelayForward
  <2>4. c.to \in Node /\ c.msg \in Msg
    BY <2>1 DEF Copy
  <2>5. forwards' \in [Node -> [Msg -> 0 .. 2]]
    BY <1>0, <1>4, <2>4 DEF RelayForward
  <2> QED
    BY <1>0, <1>4, <1>q, <1>t, <2>3, <2>5 DEF RelayForward
<1>5. ASSUME NEW c \in wire, NEW again \in BOOLEAN, NEW back \in Node \cup {None},
             RelayNoRoute(c, back, again)
      PROVE  BudgetInv'
  <2>1. back # None => Notice(c, back) \in Copy /\ Paid(Notice(c, back))
    BY <1>0, NoticeType
  <2>2. \A e \in wire' : e \in Copy /\ Paid(e)
    BY <1>0, <1>5, <1>l, <2>1 DEF RelayNoRoute, Notices
  <2> QED
    BY <1>0, <1>5, <1>q, <1>t, <2>2 DEF RelayNoRoute
<1>6. ASSUME NEW c \in wire, NEW stale \in BOOLEAN, RefuseRelay(c, stale)
      PROVE  BudgetInv'
  BY <1>0, <1>6, <1>q, <1>t DEF RefuseRelay
<1>7. ASSUME NEW c \in wire, ReceiveNotice(c)
      PROVE  BudgetInv'
  <2>1. c.to \in Node /\ c.msg \in Msg
    BY <1>0 DEF Copy
  <2>2. noticed' = noticed \cup {<<c.to, c.msg>>}
    BY <1>7 DEF ReceiveNotice
  <2>3. noticed' \subseteq Node \X Msg
    BY <1>0, <2>1, <2>2
  <2>4. \A e \in wire' : e \in Copy /\ Paid(e)
    BY <1>0, <1>7 DEF ReceiveNotice
  <2>5. resends' \in 0 .. MaxResends
    BY <1>7, <1>t DEF ReceiveNotice
  <2> QED
    BY <1>0, <1>7, <1>q, <2>3, <2>4, <2>5 DEF ReceiveNotice
<1>8. ASSUME NEW c \in wire, Lose(c)
      PROVE  BudgetInv'
  BY <1>0, <1>8, <1>q DEF Lose
<1>9. ASSUME NEW n \in Node, NEW old, Forget(n, old)
      PROVE  BudgetInv'
  BY <1>0, <1>9, <1>q DEF Forget
<1>10. ASSUME NEW c \in wire, NEW again \in BOOLEAN, PublishUnmeshed(c, again)
       PROVE  BudgetInv'
  <2>1. \A e \in wire' : e \in Copy /\ Paid(e)
    BY <1>0, <1>10, <1>l DEF PublishUnmeshed
  <2>2. c.to \in Node /\ c.msg \in Msg
    BY <1>0 DEF Copy
  <2>3. published' \in [Node -> [Msg -> Nat]]
    BY <1>0, <1>10, <2>2 DEF PublishUnmeshed
  <2> QED
    BY <1>0, <1>10, <1>q, <1>t, <2>1, <2>3 DEF PublishUnmeshed
<1>11. CASE UNCHANGED relayVars
  BY <1>0, <1>11, <1>q DEF relayVars
<1> QED
  BY <1>1, <1>2, <1>3, <1>4, <1>5, <1>6, <1>7, <1>8, <1>9, <1>10, <1>11 DEF Next, Handle

\* At first nothing is on the way.
LEMMA BudgetInit == Init => BudgetInv
BY RelayAssumption DEF Init, BudgetInv, TypeOK

\* mesh.py, relay_message: a TTL never goes below zero and every copy on the
\* network is a well-formed one.
THEOREM TypeCorrect == Spec => []TypeOK
<1>1. BudgetInv => TypeOK
  BY DEF BudgetInv
<1> QED
  BY <1>1, BudgetInit, BudgetStep, PTL DEF Spec

\* mesh.py, relay_message, TTL and hop-list checks: the relays a copy has been
\* through are all different and each of them took one from its TTL, so no copy
\* is relayed more than max_hops times, whatever the routing tables say and
\* whatever the duplicate caches forget.
THEOREM BudgetKept == Spec => []HopBudget
<1>1. BudgetInv => HopBudget
  BY DEF BudgetInv, HopBudget, Paid
<1> QED
  BY <1>1, BudgetInit, BudgetStep, PTL DEF Spec

-----------------------------------------------------------------------------
(***************************************************************************)
(* The duplicate cache                                                     *)
(***************************************************************************)
Sources == {Source[m] : m \in Msg}

\* The caches' bounds are not reached: per_source_max ids of every source and
\* sources_max sources (beyond that a cache evicts, which CacheRemembers
\* bounds, and a late copy is taken for new).
RoomyCaches ==
    /\ IsFiniteSet(Msg)
    /\ Cardinality(Msg) <= PerSourceMax
    /\ Cardinality(Sources) <= SourcesMax

Distinct(s) == \A i, j \in 1 .. Len(s) : s[i] = s[j] => i = j
Bucket == [src : Sources, ids : Seq(Msg)]

\* One bucket per source, each id in it once.
CacheOK(buckets) ==
    /\ buckets \in Seq(Bucket)
    /\ \A i, j \in 1 .. Len(buckets) : buckets[i].src = buckets[j].src => i = j
    /\ \A i \in 1 .. Len(buckets) : Distinct(buckets[i].ids)

\* A list without repetitions is no longer than what it lists.
LEMMA DistinctLength ==
    ASSUME NEW S, IsFiniteSet(S), NEW s \in Seq(S), Distinct(s)
    PROVE  Len(s) <= Cardinality(S)
<1>1. s \in [1 .. Len(s) -> S] /\ Len(s) \in Nat
  BY LenProperties
<1>2. s \in Injection(1 .. Len(s), S)
  BY <1>1 DEF Injection, IsInjective, Distinct
<1>3. Cardinality(1 .. Len(s)) <= Cardinality(S)
  BY <1>2, FS_Injection
<1>4. Cardinality(1 .. Len(s)) = Len(s)
  <2>1. 1 \in Int /\ Len(s) \in Int
    BY <1>1
  <2>2. Cardinality(1 .. Len(s)) = IF 1 > Len(s) THEN 0 ELSE Len(s) - 1 + 1
    BY <2>1, FS_Interval, Zenon
  <2> QED
    BY <1>1, <2>2
<1> QED
  BY <1>3, <1>4

\* Finitely many messages have finitely many sources.
LEMMA SourcesFinite ==
    ASSUME IsFiniteSet(Msg)
    PROVE  IsFiniteSet(Sources)
<1> DEFINE first == [x \in Sources |-> CHOOSE m \in Msg : Source[m] = x]
<1>1. \A x \in Sources : first[x] \in Msg /\ Source[first[x]] = x
  BY DEF Sources
<1>2. first \in [Sources -> Msg]
  BY <1>1
<1>3. \A x, y \in Sources : first[x] = first[y] => x = y
  BY <1>1
<1> HIDE DEF first
<1>4. first \in Injection(Sources, Msg)
  BY <1>2, <1>3 DEF Injection, IsInjective
<1> QED
  BY <1>4, FS_Injection

\* A list of buckets, one for each source it names, is within sources_max.
LEMMA BucketCount ==
    ASSUME RoomyCaches, NEW buckets, CacheOK(buckets)
    PROVE  Len(buckets) <= SourcesMax
<1> DEFINE names == [i \in 1 .. Len(buckets) |-> buckets[i].src]
<1>0. buckets \in Seq(Bucket) /\ Len(buckets) \in Nat
  BY DEF CacheOK
<1>1. \A i \in 1 .. Len(buckets) : buckets[i] \in Bucket
  BY <1>0
<1>2. names \in Seq(Sources) /\ Len(names) = Len(buckets)
  BY <1>0, <1>1 DEF Bucket
<1>3. \A i, j \in 1 .. Len(buckets) : names[i] = names[j] => i = j
  BY DEF CacheOK
<1> HIDE DEF names
<1>4. Distinct(names)
  BY <1>2, <1>3 DEF Distinct
<1>5. Len(names) <= Cardinality(Sources)
  BY <1>2, <1>4, SourcesFinite, DistinctLength DEF RoomyCaches
<1>6. Cardinality(Sources) \in Nat
  BY SourcesFinite, FS_CardinalityType DEF RoomyCaches
<1> QED
  BY <1>0, <1>2, <1>5, <1>6, CacheAssumption DEF RoomyCaches

\* Where a source's bucket is, what it holds and what the others are.
LEMMA BucketFacts ==
    ASSUME NEW buckets, CacheOK(buckets), NEW src \in Sources
    PROVE  /\ IdsOf(buckets, src) \in Seq(Msg) /\ Distinct(IdsOf(buckets, src))
           /\ \A id : HasItem(IdsOf(buckets, src), id) <=> IsDuplicate(buckets, src, id)
           /\ CacheOK(Others(buckets, src))
           /\ \A i \in 1 .. Len(Others(buckets, src)) : Others(buckets, src)[i].src # src
           /\ \A s, id : s # src /\ IsDuplicate(buckets, s, id) => IsDuplicate(Others(buckets, src), s, id)
<1> DEFINE k == BucketOf(buckets, src)
           n == Len(buckets)
           rest == Others(buckets, src)
<1>0. /\ buckets \in Seq(Bucket) /\ n \in Nat
      /\ \A i \in 1 .. n : buckets[i] \in Bucket
      /\ \A i, j \in 1 .. n : buckets[i].src = buckets[j].src => i = j
      /\ \A i \in 1 .. n : Distinct(buckets[i].ids)
  BY DEF CacheOK
<1>1. CASE k = 0
  <2>1. \A i \in 1 .. n : buckets[i].src # src
    BY <1>0, <1>1 DEF BucketOf
  <2>2. IdsOf(buckets, src) = <<>> /\ rest = buckets
    BY <1>1 DEF IdsOf, Others
  <2>3. <<>> \in Seq(Msg) /\ Distinct(<<>>) /\ \A id : ~HasItem(<<>>, id)
    BY DEF Distinct, HasItem
  <2>4. \A id : ~IsDuplicate(buckets, src, id)
    BY <2>1 DEF IsDuplicate
  <2> QED
    BY <2>1, <2>2, <2>3, <2>4
<1>2. CASE k # 0
  <2>1. k \in 1 .. n /\ buckets[k].src = src
    BY <1>2 DEF BucketOf
  <2>2. IdsOf(buckets, src) = buckets[k].ids
    BY <1>2 DEF IdsOf
  <2>3. rest = [j \in 1 .. n - 1 |-> buckets[IF j < k THEN j ELSE j + 1]]
    BY <1>2 DEF Others
  <2> HIDE DEF k, n, rest
  <2>4. IdsOf(buckets, src) \in Seq(Msg) /\ Distinct(IdsOf(buckets, src))
    BY <1>0, <2>1, <2>2 DEF Bucket
  <2>5. \A id : HasItem(IdsOf(buckets, src), id) <=> IsDuplicate(buckets, src, id)
    BY <1>0, <2>1, <2>2 DEF IsDuplicate, n
  <2>6. \A j \in 1 .. n - 1 : /\ (IF j < k THEN j ELSE j + 1) \in 1 .. n
                              /\ (IF j < k THEN j ELSE j + 1) # k
    BY <1>0, <2>1
  <2>7. rest \in Seq(Bucket) /\ Len(rest) = n - 1
    <3>1. \A j \in 1 .. n - 1 : buckets[IF j < k THEN j ELSE j + 1] \in Bucket
      BY <1>0, <2>6
    <3>2. n - 1 \in Nat
      BY <1>0, <2>1
    <3> QED
      BY <2>3, <3>1, <3>2
  <2>8. \A j \in 1 .. n - 1 : rest[j] = buckets[IF j < k THEN j ELSE j + 1]
    BY <2>3
  <2>9. \A i, j \in 1 .. n - 1 : rest[i].src = rest[j].src => i = j
    <3> SUFFICES ASSUME NEW i \in 1 .. n - 1, NEW j \in 1 .. n - 1, rest[i].src = rest[j].src
                 PROVE  i = j
      OBVIOUS
    <3>1. (IF i < k THEN i ELSE i + 1) = (IF j < k THEN j ELSE j + 1)
      BY <1>0, <2>6, <2>8
    <3> QED
      BY <1>0, <2>1, <3>1
  <2>10. \A j \in 1 .. n - 1 : rest[j].src # src
    BY <1>0, <2>1, <2>6, <2>8
  <2>11. \A j \in 1 .. n - 1 : Distinct(rest[j].ids)
    BY <1>0, <2>6, <2>8
  <2>12. CacheOK(rest)
    BY <2>7, <2>9, <2>11 DEF CacheOK
  <2>13. ASSUME NEW s, NEW id, s # src, IsDuplicate(buckets, s, id)
         PROVE  IsDuplicate(rest, s, id)
    <3>1. PICK i \in 1 .. n : buckets[i].src = s /\ HasItem(buckets[i].ids, id)
      BY <2>13 DEF IsDuplicate, n
    <3>2. i # k
      BY <2>1, <2>13, <3>1
    <3> DEFINE j == IF i < k THEN i ELSE i - 1
    <3>3. j \in 1 .. n - 1 /\ (IF j < k THEN j ELSE j + 1) = i
      BY <1>0, <2>1, <3>2
    <3>4. rest[j] = buckets[i]
      BY <2>8, <3>3
    <3> QED
      BY <2>7, <3>1, <3>3, <3>4 DEF IsDuplicate
  <2> QED
    BY <2>4, <2>5, <2>7, <2>10, <2>12, <2>13 DEF rest
<1> QED
  BY <1>1, <1>2

\* Appending something new keeps a list without repetitions.
LEMMA AppendDistinct ==
    ASSUME NEW S, NEW s \in Seq(S), Distinct(s), NEW e \in S, ~HasItem(s, e)
    PROVE  /\ Append(s, e) \in Seq(S) /\ Distinct(Append(s, e)) /\ HasItem(Append(s, e), e)
           /\ \A x : HasItem(s, x) => HasItem(Append(s, e), x)
<1>1. /\ Append(s, e) \in Seq(S) /\ Len(s) \in Nat /\ Len(Append(s, e)) = Len(s) + 1
      /\ Append(s, e)[Len(s) + 1] = e
      /\ \A i \in 1 .. Len(s) : Append(s, e)[i] = s[i]
  OBVIOUS
<1>2. \A i \in 1 .. Len(s) + 1 : i \in 1 .. Len(s) \/ i = Len(s) + 1
  BY <1>1
<1>3. Distinct(Append(s, e))
  BY <1>1, <1>2 DEF Distinct, HasItem
<1> QED
  BY <1>1, <1>3 DEF HasItem

\* mesh.py, _add_locked, with room: the pair is remembered, nothing that was
\* is forgotten, and the cache keeps its shape.
LEMMA AddRemembers ==
    ASSUME RoomyCaches, NEW buckets, CacheOK(buckets), NEW m \in Msg,
           ~IsDuplicate(buckets, Source[m], m)
    PROVE  /\ CacheOK(Add(buckets, Source[m], m))
           /\ IsDuplicate(Add(buckets, Source[m], m), Source[m], m)
           /\ \A s, id : IsDuplicate(buckets, s, id) => IsDuplicate(Add(buckets, Source[m], m), s, id)
<1> DEFINE src == Source[m]
           old == IdsOf(buckets, src)
           new == Append(old, m)
           rest == Others(buckets, src)
           bucket == [src |-> src, ids |-> new]
           all == Append(rest, bucket)
<1>1. src \in Sources
  BY DEF Sources
<1>2. /\ old \in Seq(Msg) /\ Distinct(old) /\ ~HasItem(old, m)
      /\ \A id : HasItem(old, id) <=> IsDuplicate(buckets, src, id)
      /\ CacheOK(rest)
      /\ \A i \in 1 .. Len(rest) : rest[i].src # src
      /\ \A s, id : s # src /\ IsDuplicate(buckets, s, id) => IsDuplicate(rest, s, id)
  BY <1>1, BucketFacts
<1> HIDE DEF src, old, rest
<1>3. /\ new \in Seq(Msg) /\ Distinct(new) /\ HasItem(new, m)
      /\ \A x : HasItem(old, x) => HasItem(new, x)
  BY <1>2, AppendDistinct
<1>4. Trim(new, PerSourceMax) = new
  <2>1. Len(new) <= Cardinality(Msg)
    BY <1>3, DistinctLength DEF RoomyCaches
  <2>2. Cardinality(Msg) \in Nat /\ Len(new) \in Nat
    BY <1>3, FS_CardinalityType DEF RoomyCaches
  <2> HIDE DEF new
  <2> QED
    BY <2>1, <2>2, CacheAssumption DEF Trim, RoomyCaches
<1> HIDE DEF new
<1>5. bucket \in Bucket /\ bucket.src = src /\ bucket.ids = new
  BY <1>1, <1>3 DEF Bucket
<1> HIDE DEF bucket
<1>6. rest \in Seq(Bucket) /\ Len(rest) \in Nat
  BY <1>2 DEF CacheOK
<1>7. /\ all \in Seq(Bucket) /\ Len(all) = Len(rest) + 1
      /\ all[Len(rest) + 1] = bucket
      /\ \A i \in 1 .. Len(rest) : all[i] = rest[i]
  BY <1>5, <1>6
<1>8. \A i \in 1 .. Len(all) : i \in 1 .. Len(rest) \/ i = Len(rest) + 1
  BY <1>6, <1>7
<1> HIDE DEF all
<1>9. \A i, j \in 1 .. Len(all) : all[i].src = all[j].src => i = j
  BY <1>2, <1>5, <1>7, <1>8 DEF CacheOK
<1>10. \A i \in 1 .. Len(all) : Distinct(all[i].ids)
  BY <1>2, <1>3, <1>5, <1>7, <1>8 DEF CacheOK
<1>11. CacheOK(all)
  BY <1>7, <1>9, <1>10 DEF CacheOK
<1>12. Trim(all, SourcesMax) = all
  <2>1. Len(all) <= SourcesMax /\ Len(all) \in Nat
    BY <1>6, <1>7, <1>11, BucketCount
  <2> QED
    BY <2>1, CacheAssumption DEF Trim
<1>13. Add(buckets, src, m) = all
  BY <1>4, <1>12 DEF Add, all, bucket, new, old, rest
<1>14. \A id : HasItem(new, id) => IsDuplicate(all, src, id)
  <2>1. Len(rest) + 1 \in 1 .. Len(all)
    BY <1>6, <1>7
  <2> QED
    BY <1>5, <1>7, <2>1 DEF IsDuplicate
<1>15. ASSUME NEW s, NEW id, IsDuplicate(buckets, s, id)
       PROVE  IsDuplicate(all, s, id)
  <2>1. CASE s = src
    BY <1>2, <1>3, <1>14, <1>15, <2>1
  <2>2. CASE s # src
    <3>1. PICK i \in 1 .. Len(rest) : rest[i].src = s /\ HasItem(rest[i].ids, id)
      BY <1>2, <1>15, <2>2 DEF IsDuplicate
    <3>2. i \in 1 .. Len(all) /\ all[i] = rest[i]
      BY <1>6, <1>7
    <3> QED
      BY <3>1, <3>2 DEF IsDuplicate
  <2> QED
    BY <2>1, <2>2
<1>16. IsDuplicate(all, src, m)
  BY <1>3, <1>14
<1> QED
  BY <1>11, <1>13, <1>15, <1>16 DEF src

-----------------------------------------------------------------------------
(***************************************************************************)
(* Once, while remembered                                                  *)
(***************************************************************************)
\* What a node that has forgotten nothing has done with m: whatever it forwarded,
\* or published if it has a router, is in its cache.
Remembered(n) ==
    /\ CacheOK(seen[n])
    /\ \A m \in Msg :
         /\ forwards[n][m] <= 1
         /\ forwards[n][m] > 0 => IsDuplicate(seen[n], Source[m], m)
         /\ Mode[n] # "off" => published[n][m] <= 1
         /\ Mode[n] # "off" /\ published[n][m] > 0 =>
              n = Dest[m] /\ IsDuplicate(seen[n], Source[m], m)

OnceInv ==
    /\ BudgetInv
    /\ DOMAIN seen = Node
    /\ \A c \in wire : c.msg \in sent
    /\ ~Forgetful => forgot = {}
    /\ \A n \in Node \ forgot : Remembered(n)

\* A copy that is recorded in its node's cache leaves the pair there, and
\* everything that was there before.
LEMMA RecordKeeps ==
    ASSUME RoomyCaches, NEW buckets, CacheOK(buckets), NEW m \in Msg
    PROVE  /\ CacheOK(CheckAndAdd(buckets, Source[m], m))
           /\ IsDuplicate(CheckAndAdd(buckets, Source[m], m), Source[m], m)
           /\ \A s, id : IsDuplicate(buckets, s, id) => IsDuplicate(CheckAndAdd(buckets, Source[m], m), s, id)
BY AddRemembers DEF CheckAndAdd

\* A handler that records its copy, and counts it at most where it was not seen.
LEMMA RecordStep ==
    ASSUME RoomyCaches, OnceInv, NEW c \in wire, Remember(c), UNCHANGED forgot,
           \A n \in Node, m \in Msg :
              /\ \/ forwards'[n][m] = forwards[n][m]
                 \/ n = c.to /\ m = c.msg /\ ~IsSeen(c) /\ forwards[n][m] \in {0, 1} /\ forwards'[n][m] = forwards[n][m] + 1
              /\ \/ published'[n][m] = published[n][m]
                 \/ n = c.to /\ m = c.msg /\ ~IsSeen(c) /\ n = Dest[m] /\ published'[n][m] = published[n][m] + 1
    PROVE  DOMAIN seen' = Node /\ \A n \in Node \ forgot' : Remembered(n)'
<1> DEFINE new == CheckAndAdd(seen[c.to], Source[c.msg], c.msg)
<1>1. c.to \in Node /\ c.msg \in Msg
  BY DEF OnceInv, BudgetInv, TypeOK, Copy
<1>2. /\ DOMAIN seen' = Node /\ seen'[c.to] = new
      /\ \A n \in Node \ {c.to} : seen'[n] = seen[n]
  BY <1>1 DEF Remember, OnceInv
<1>3. published \in [Node -> [Msg -> Nat]] /\ forwards \in [Node -> [Msg -> 0 .. 2]]
  BY DEF OnceInv, BudgetInv, TypeOK
<1> HIDE DEF new
<1>4. ASSUME NEW n \in Node \ forgot
      PROVE  Remembered(n)'
  <2>1. Remembered(n)
    BY <1>4 DEF OnceInv
  <2>2. CASE n # c.to
    <3>1. seen'[n] = seen[n] /\ \A m \in Msg : forwards'[n][m] = forwards[n][m] /\ published'[n][m] = published[n][m]
      BY <1>2, <2>2
    <3> QED
      BY <2>1, <3>1 DEF Remembered
  <2>3. CASE n = c.to
    <3>1. /\ CacheOK(new) /\ IsDuplicate(new, Source[c.msg], c.msg)
          /\ \A s, id : IsDuplicate(seen[n], s, id) => IsDuplicate(new, s, id)
      BY <1>1, <2>1, <2>3, RecordKeeps DEF new, Remembered
    <3>2. seen'[n] = new
      BY <1>2, <2>3
    <3>3. ASSUME NEW m \in Msg
          PROVE  /\ forwards'[n][m] <= 1
                 /\ forwards'[n][m] > 0 => IsDuplicate(new, Source[m], m)
                 /\ Mode[n] # "off" => published'[n][m] <= 1
                 /\ Mode[n] # "off" /\ published'[n][m] > 0 =>
                      n = Dest[m] /\ IsDuplicate(new, Source[m], m)
      <4>1. /\ forwards[n][m] \in Nat /\ published[n][m] \in Nat
            /\ forwards[n][m] <= 1
            /\ forwards[n][m] > 0 => IsDuplicate(seen[n], Source[m], m)
            /\ Mode[n] # "off" => published[n][m] <= 1
            /\ Mode[n] # "off" /\ published[n][m] > 0 =>
                 n = Dest[m] /\ IsDuplicate(seen[n], Source[m], m)
        BY <1>3, <2>1 DEF Remembered
      <4>2. CASE m = c.msg /\ ~IsSeen(c)
        <5>1. ~IsDuplicate(seen[n], Source[m], m)
          BY <2>3, <4>2 DEF IsSeen
        <5>2. forwards[n][m] = 0 /\ (Mode[n] # "off" => published[n][m] = 0)
          BY <4>1, <5>1
        <5> QED
          BY <2>3, <3>1, <4>2, <5>2
      <4>3. CASE ~(m = c.msg /\ ~IsSeen(c))
        <5>1. forwards'[n][m] = forwards[n][m] /\ published'[n][m] = published[n][m]
          BY <4>3
        <5> QED
          BY <3>1, <4>1, <5>1
      <4> QED
        BY <4>2, <4>3
    <3>4. CacheOK(seen[n])'
      BY <3>1, <3>2 DEF CacheOK, Distinct
    <3>5. \A m \in Msg : IsDuplicate(seen[n], Source[m], m)' <=> IsDuplicate(new, Source[m], m)
      BY <3>2 DEF IsDuplicate, HasItem
    <3> QED
      BY <3>3, <3>4, <3>5 DEF Remembered
  <2> QED
    BY <2>2, <2>3
<1> QED
  BY <1>2, <1>4

\* Every step keeps it.
LEMMA OnceStep ==
    ASSUME RoomyCaches, OnceInv, [Next]_relayVars
    PROVE  OnceInv'
<1>0. /\ DOMAIN seen = Node /\ \A c \in wire : c.msg \in sent /\ c.to \in Node /\ c.msg \in Msg
      /\ ~Forgetful => forgot = {}
      /\ \A n \in Node \ forgot : Remembered(n)
      /\ published \in [Node -> [Msg -> Nat]] /\ forwards \in [Node -> [Msg -> 0 .. 2]]
  BY DEF OnceInv, BudgetInv, TypeOK, Copy
<1>b. BudgetInv'
  BY BudgetStep DEF OnceInv
<1>q. ASSUME DOMAIN seen' = Node, \A c \in wire' : c.msg \in sent',
             ~Forgetful => forgot' = {}, \A n \in Node \ forgot' : Remembered(n)'
      PROVE  OnceInv'
  BY <1>b, <1>q DEF OnceInv
<1>l. ASSUME NEW c, NEW again, NEW e \in Left(c, again) PROVE e \in wire
  BY DEF Left
<1>same. ASSUME UNCHANGED <<seen, published, forwards, forgot>>
         PROVE  DOMAIN seen' = Node /\ (~Forgetful => forgot' = {}) /\ \A n \in Node \ forgot' : Remembered(n)'
  <2>1. \A n \in Node \ forgot' : Remembered(n)'
    BY <1>0, <1>same DEF Remembered
  <2> QED
    BY <1>0, <1>same, <2>1
<1>1. ASSUME NEW m \in Msg, NEW next \in Node, Send(m, next)
      PROVE  OnceInv'
  <2>1. \A c \in wire' : c.msg \in sent'
    BY <1>0, <1>1 DEF Send
  <2> QED
    BY <1>1, <1>q, <1>same, <2>1 DEF Send
<1>2. ASSUME NEW c \in wire, NEW again \in BOOLEAN, DeliverTerminal(c, again)
      PROVE  OnceInv'
  <2>1. \A e \in wire' : e.msg \in sent'
    BY <1>0, <1>2, <1>l DEF DeliverTerminal
  <2>2. \A n \in Node, m \in Msg :
           \/ published'[n][m] = published[n][m]
           \/ n = c.to /\ m = c.msg /\ ~IsSeen(c) /\ n = Dest[m] /\ published'[n][m] = published[n][m] + 1
    <3>1. CASE IsSeen(c)
      BY <1>2, <3>1 DEF DeliverTerminal, Publish
    <3>2. CASE ~IsSeen(c)
      <4>1. published' = [published EXCEPT ![c.to][c.msg] = @ + 1] /\ c.to = Dest[c.msg]
        BY <1>2, <3>2 DEF DeliverTerminal, Publish, ForMe
      <4> QED
        BY <1>0, <3>2, <4>1
    <3> QED
      BY <3>1, <3>2
  <2>3. Remember(c) /\ UNCHANGED <<forgot, forwards>>
    BY <1>2 DEF DeliverTerminal
  <2>4. DOMAIN seen' = Node /\ \A n \in Node \ forgot' : Remembered(n)'
    BY <2>2, <2>3, RecordStep
  <2> QED
    BY <1>0, <1>q, <2>1, <2>3, <2>4
<1>3. ASSUME NEW c \in wire, NEW again \in BOOLEAN, DropRelay(c, again)
      PROVE  OnceInv'
  <2>1. \A e \in wire' : e.msg \in sent'
    BY <1>0, <1>3, <1>l DEF DropRelay
  <2>2. Remember(c) /\ UNCHANGED <<forgot, forwards, published>>
    BY <1>3 DEF DropRelay
  <2>3. DOMAIN seen' = Node /\ \A n \in Node \ forgot' : Remembered(n)'
    BY <2>2, RecordStep
  <2> QED
    BY <1>0, <1>q, <2>1, <2>2, <2>3
<1>4. ASSUME NEW c \in wire, NEW again \in BOOLEAN, NEW next \in Node, RelayForward(c, next, again)
      PROVE  OnceInv'
  <2>1. \A e \in wire' : e.msg \in sent'
    BY <1>0, <1>4, <1>l DEF RelayForward, Hopped
  <2>2. Remember(c) /\ UNCHANGED <<forgot, published>> /\ ~IsSeen(c)
    BY <1>4 DEF RelayForward
  <2>3. DOMAIN seen' = Node /\ \A n \in Node \ forgot' : Remembered(n)'
    <3>1. CASE c.to \in forgot
      <4>1. \A n \in Node \ forgot : /\ seen'[n] = seen[n]
                                     /\ forwards'[n] = forwards[n] /\ published'[n] = published[n]
        BY <1>0, <1>4, <2>2, <3>1 DEF RelayForward, Remember
      <4>2. DOMAIN seen' = Node
        BY <1>0, <2>2 DEF Remember
      <4>3. \A n \in Node \ forgot : Remembered(n)'
        BY <1>0, <4>1 DEF Remembered
      <4> QED
        BY <2>2, <4>2, <4>3
    <3>2. CASE c.to \notin forgot
      <4>1. forwards[c.to][c.msg] = 0
        <5>1. Remembered(c.to) /\ c.msg \in Msg /\ ~IsDuplicate(seen[c.to], Source[c.msg], c.msg)
          BY <1>0, <2>2, <3>2 DEF IsSeen
        <5>2. ~(forwards[c.to][c.msg] > 0)
          BY <5>1 DEF Remembered
        <5>3. forwards[c.to][c.msg] \in 0 .. 2
          BY <1>0
        <5> QED
          BY <5>2, <5>3
      <4>2. \A n \in Node, m \in Msg :
               \/ forwards'[n][m] = forwards[n][m]
               \/ n = c.to /\ m = c.msg /\ ~IsSeen(c) /\ forwards[n][m] \in {0, 1} /\ forwards'[n][m] = forwards[n][m] + 1
        BY <1>0, <1>4, <2>2, <4>1 DEF RelayForward
      <4> QED
        BY <2>2, <4>2, RecordStep
    <3> QED
      BY <3>1, <3>2
  <2> QED
    BY <1>0, <1>q, <2>1, <2>2, <2>3
<1>5. ASSUME NEW c \in wire, NEW again \in BOOLEAN, NEW back \in Node \cup {None},
             RelayNoRoute(c, back, again)
      PROVE  OnceInv'
  <2>1. \A e \in wire' : e.msg \in sent'
    BY <1>0, <1>5, <1>l DEF RelayNoRoute, Notices, Notice
  <2>2. Remember(c) /\ UNCHANGED <<forgot, forwards, published>>
    BY <1>5 DEF RelayNoRoute
  <2>3. DOMAIN seen' = Node /\ \A n \in Node \ forgot' : Remembered(n)'
    BY <2>2, RecordStep
  <2> QED
    BY <1>0, <1>q, <2>1, <2>2, <2>3
<1>6. ASSUME NEW c \in wire, NEW stale \in BOOLEAN, RefuseRelay(c, stale)
      PROVE  OnceInv'
  <2>1. \A e \in wire' : e.msg \in sent'
    BY <1>0, <1>6 DEF RefuseRelay
  <2> QED
    BY <1>6, <1>q, <1>same, <2>1 DEF RefuseRelay
<1>7. ASSUME NEW c \in wire, ReceiveNotice(c) \/ Lose(c)
      PROVE  OnceInv'
  <2>1. \A e \in wire' : e.msg \in sent'
    BY <1>0, <1>7 DEF ReceiveNotice, Lose
  <2> QED
    BY <1>7, <1>q, <1>same, <2>1 DEF ReceiveNotice, Lose
<1>8. ASSUME NEW n \in Node, NEW old, Forget(n, old)
      PROVE  OnceInv'
  <2>1. /\ \A k \in Node \ forgot' : /\ k \in Node \ forgot /\ seen'[k] = seen[k]
                                     /\ forwards'[k] = forwards[k] /\ published'[k] = published[k]
        /\ DOMAIN seen' = Node /\ Forgetful
        /\ \A e \in wire' : e.msg \in sent'
    BY <1>0, <1>8 DEF Forget
  <2>2. \A k \in Node \ forgot' : Remembered(k)'
    BY <1>0, <2>1 DEF Remembered
  <2> QED
    BY <1>q, <2>1, <2>2
<1>9. ASSUME NEW c \in wire, NEW again \in BOOLEAN, PublishUnmeshed(c, again)
      PROVE  OnceInv'
  <2>1. \A e \in wire' : e.msg \in sent'
    BY <1>0, <1>9, <1>l DEF PublishUnmeshed
  <2>2. /\ UNCHANGED <<seen, forwards, forgot>> /\ Mode[c.to] = "off"
        /\ \A n \in Node : n # c.to => published'[n] = published[n]
    BY <1>0, <1>9 DEF PublishUnmeshed, Meshed
  <2>3. \A n \in Node \ forgot' : Remembered(n)'
    BY <1>0, <2>2 DEF Remembered
  <2> QED
    BY <1>0, <1>q, <2>1, <2>2, <2>3
<1>10. CASE UNCHANGED relayVars
  BY <1>0, <1>10, <1>q, <1>same DEF relayVars
<1> QED
  BY <1>1, <1>2, <1>3, <1>4, <1>5, <1>6, <1>7, <1>8, <1>9, <1>10 DEF Next, Handle

\* Nobody has seen anything at first.
LEMMA OnceInit == Init => OnceInv
<1> SUFFICES ASSUME Init PROVE OnceInv
  OBVIOUS
<1>1. CacheOK(<<>>)
  BY DEF CacheOK
<1>2. \A n \in Node : Remembered(n)
  BY <1>1 DEF Init, EmptyCache, Remembered
<1> QED
  BY <1>2, BudgetInit DEF Init, OnceInv

\* mesh.py, relay_message's duplicate check: with caches that have room, a node
\* whose cache has not aged or been lost forwards a message at most once,
\* however many copies reach it over whatever routes.
THEOREM ForwardsOnce ==
    ASSUME RoomyCaches
    PROVE  Spec => []ForwardOnce
<1>1. OnceInv => ForwardOnce
  BY DEF OnceInv, Remembered, ForwardOnce
<1>2. OnceInv /\ [Next]_relayVars => OnceInv'
  BY OnceStep
<1> QED
  BY <1>1, <1>2, OnceInit, PTL DEF Spec

-----------------------------------------------------------------------------
(***************************************************************************)
(* The refinement                                                          *)
(***************************************************************************)
Promise == INSTANCE MeshDelivery WITH published <- Shown(Mode)

\* Every step of the relays is a step of the promise, or none that shows.
LEMMA PromiseStep ==
    ASSUME OnceInv, ~Forgetful, [Next]_relayVars
    PROVE  [Promise!Next]_<<sent, Shown(Mode)>>
<1>0. /\ \A c \in wire : c.msg \in sent /\ c.to \in Node /\ c.msg \in Msg
      /\ \A n \in Node : Remembered(n)
      /\ published \in [Node -> [Msg -> Nat]]
  BY DEF OnceInv, BudgetInv, TypeOK, Copy
<1>s. UNCHANGED published => UNCHANGED Shown(Mode)
  BY DEF Shown
<1>1. ASSUME NEW m \in Msg, NEW next \in Node, Send(m, next)
      PROVE  Promise!Next
  BY <1>1, <1>s DEF Send, Promise!Next, Promise!Send
<1>2. ASSUME NEW c \in wire, NEW again \in BOOLEAN, DeliverTerminal(c, again)
      PROVE  [Promise!Next]_<<sent, Shown(Mode)>>
  <2>1. CASE IsSeen(c)
    BY <1>2, <1>s, <2>1 DEF DeliverTerminal, Publish
  <2>2. CASE ~IsSeen(c)
    <3>1. /\ published' = [published EXCEPT ![c.to][c.msg] = @ + 1] /\ sent' = sent
          /\ c.to = Dest[c.msg] /\ Mode[c.to] # "off"
      BY <1>2, <2>2 DEF DeliverTerminal, Publish, ForMe, Meshed
    <3>2. published[c.to][c.msg] = 0
      <4>1. Remembered(c.to) /\ c.msg \in Msg /\ ~IsDuplicate(seen[c.to], Source[c.msg], c.msg)
        BY <1>0, <2>2 DEF IsSeen
      <4> QED
        BY <1>0, <3>1, <4>1 DEF Remembered
    <3>3. Shown(Mode)[c.to] = published[c.to]
      BY <1>0, <3>1 DEF Shown
    <3>4. Shown(Mode)' = [Shown(Mode) EXCEPT ![c.to][c.msg] = 1]
      <4>1. published' = [published EXCEPT ![c.to][c.msg] = 1]
        BY <1>0, <3>1, <3>2
      <4>2. \A n \in Node : n # c.to => published'[n] = published[n]
        BY <1>0, <4>1
      <4>3. published'[c.to] = [published[c.to] EXCEPT ![c.msg] = 1]
        BY <1>0, <4>1
      <4>4. \A n \in Node : Shown(Mode)'[n] = [Shown(Mode) EXCEPT ![c.to][c.msg] = 1][n]
        BY <1>0, <3>1, <3>3, <4>2, <4>3 DEF Shown
      <4> QED
        BY <4>4 DEF Shown
    <3>5. Promise!Deliver(c.msg)
      BY <1>0, <3>1, <3>2, <3>3, <3>4 DEF Promise!Deliver
    <3> QED
      BY <1>0, <3>5 DEF Promise!Next
  <2> QED
    BY <2>1, <2>2
<1>3. ASSUME NEW c \in wire, NEW again \in BOOLEAN, PublishUnmeshed(c, again)
      PROVE  UNCHANGED <<sent, Shown(Mode)>>
  <2>1. /\ sent' = sent /\ Mode[c.to] = "off"
        /\ \A n \in Node : n # c.to => published'[n] = published[n]
    BY <1>0, <1>3 DEF PublishUnmeshed, Meshed
  <2> QED
    BY <2>1 DEF Shown
<1>4. ASSUME \/ \E c \in wire :
                  \/ \E again \in BOOLEAN :
                       \/ DropRelay(c, again)
                       \/ \E next \in Node : RelayForward(c, next, again)
                       \/ \E back \in Node \cup {None} : RelayNoRoute(c, back, again)
                  \/ \E stale \in BOOLEAN : RefuseRelay(c, stale)
                  \/ ReceiveNotice(c) \/ Lose(c)
             \/ \E n \in Node : \E old \in SUBSET {<<Source[m], m>> : m \in Msg} : Forget(n, old)
             \/ UNCHANGED relayVars
      PROVE  UNCHANGED <<sent, Shown(Mode)>>
  <2>1. UNCHANGED <<sent, published>>
    BY <1>4 DEF DropRelay, RelayForward, RelayNoRoute, RefuseRelay, ReceiveNotice, Lose, Forget,
                relayVars
  <2> QED
    BY <1>s, <2>1
<1> QED
  BY <1>1, <1>2, <1>3, <1>4 DEF Next, Handle

\* routing.py, _dispatch_message, "Deliver each (source, msg_id) exactly once":
\* nodes whose caches have room and forget nothing implement MeshDelivery, over any
\* routes, however often copies are re-sent or lost, and whichever nodes between
\* them only listen or run without a router: a node that has one publishes a message
\* only if it is its destination, after it was sent, and once.
THEOREM MeshImplementsDelivery ==
    ASSUME RoomyCaches, ~Forgetful
    PROVE  Spec /\ [](env = "memory") => DeliversOnce
<1> DEFINE shown == <<IF env \in {"memory", "mixed"} THEN sent ELSE {},
                      IF env = "memory" THEN Shown(Mode)
                      ELSE IF env = "mixed" THEN Shown(MixedMode)
                      ELSE [n \in Node |-> [m \in Msg |-> 0]]>>
<1>1. Init /\ env = "memory" => Remembering!Init
  BY DEF Init, Remembering!Init, Shown
<1>2. OnceInv /\ [Next]_relayVars => OnceInv'
  BY OnceStep
<1>3. OnceInv /\ [Next]_relayVars /\ env = "memory" /\ (env = "memory")' =>
          [Remembering!Next]_shown
  <2> SUFFICES ASSUME OnceInv, [Next]_relayVars, env = "memory", env' = "memory"
               PROVE  [Remembering!Next]_shown
    OBVIOUS
  <2>1. [Promise!Next]_<<sent, Shown(Mode)>>
    BY PromiseStep
  <2>2. Promise!Next => Remembering!Next
    BY DEF Promise!Next, Promise!Send, Promise!Deliver, Remembering!Next, Remembering!Send,
           Remembering!Deliver
  <2>3. UNCHANGED <<sent, Shown(Mode)>> => UNCHANGED shown
    OBVIOUS
  <2> QED
    BY <2>1, <2>2, <2>3
<1> QED
  BY <1>1, <1>2, <1>3, OnceInit, PTL DEF Spec, DeliversOnce, Remembering!Spec

-----------------------------------------------------------------------------
(***************************************************************************)
(* The cache by itself                                                     *)
(***************************************************************************)
\* Induction over the natural numbers, for a set of them.
LEMMA Induction ==
  ASSUME NEW T \in SUBSET Nat, 0 \in T, \A n \in T : n + 1 \in T PROVE T = Nat
  <1> DEFINE R == {p \in Nat \X Nat : p[1] < p[2]}
             U == Nat \ T
  <1>1. IsWellFoundedOn(R, Nat)
    BY NatLessThanWellFounded DEF OpToRel
  <1>2. SUFFICES ASSUME U # {} PROVE FALSE
    OBVIOUS
  <1>3. PICK x \in U : \A y \in U : <<y, x>> \notin R
    <2> HIDE DEF R, U
    <2>1. U \subseteq Nat
      BY DEF U
    <2> QED BY <1>1, <1>2, <2>1, WFMin
  <1>4. x - 1 \in Nat
    BY <1>3
  <1>5. <<x - 1, x>> \in R
    BY <1>3, <1>4
  <1>6. x - 1 \in T /\ x - 1 + 1 = x
    BY <1>3, <1>4, <1>5
  <1> QED BY <1>3, <1>6

\* r lists what is kept of s up to n: its elements are at these positions.
Selects(at, s, I, n, r) ==
    /\ at \in [1 .. Len(r) -> I]
    /\ \A a \in 1 .. Len(r) : at[a] <= n /\ r[a] = s[at[a]]
    /\ \A a, b \in 1 .. Len(r) : a < b => at[a] < at[b]
    /\ \A i \in I : i <= n => \E a \in 1 .. Len(r) : at[a] = i
Selection(s, I, n, r) == \E at : Selects(at, s, I, n, r)

Step(s, I, u, n) == IF n = 0 THEN <<>> ELSE IF n \in I THEN Append(u[n - 1], s[n]) ELSE u[n - 1]

\* The recursion defines a function.
LEMMA KeptExists ==
  ASSUME NEW S, NEW s \in Seq(S), NEW I
  PROVE  \E u : u = [n \in 0 .. Len(s) |-> Step(s, I, u, n)]
  <1> DEFINE T == {n \in Nat : \E u : u = [m \in 0 .. n |-> Step(s, I, u, m)]}
  <1>1. 0 \in T
    <2> DEFINE u == [m \in 0 .. 0 |-> <<>>]
    <2>1. u = [m \in 0 .. 0 |-> Step(s, I, u, m)]
      BY DEF Step
    <2> HIDE DEF u
    <2> QED BY <2>1
  <1>2. ASSUME NEW n \in T PROVE n + 1 \in T
    <2>1. n \in Nat
      OBVIOUS
    <2>2. PICK u : u = [m \in 0 .. n |-> Step(s, I, u, m)]
      OBVIOUS
    <2>5. \A m \in 0 .. n : u[m] = Step(s, I, u, m)
      <3> DEFINE w == [m \in 0 .. n |-> Step(s, I, u, m)]
      <3>1. \A m \in 0 .. n : w[m] = Step(s, I, u, m)
        OBVIOUS
      <3> HIDE DEF w
      <3>2. u = w
        BY <2>2 DEF w
      <3> QED BY <3>1, <3>2
    <2> HIDE <2>2
    <2> DEFINE v == [m \in 0 .. n + 1 |-> IF m <= n THEN u[m] ELSE Step(s, I, u, m)]
    <2>3. ASSUME NEW m \in 0 .. n + 1 PROVE v[m] = Step(s, I, v, m)
      <3>1. CASE m = 0
        <4>1. 0 \in 0 .. n /\ u[0] = Step(s, I, u, 0)
          BY <2>1, <2>5
        <4>2. v[0] = u[0]
          BY <2>1
        <4> QED BY <3>1, <4>1, <4>2 DEF Step
      <3>2. CASE m # 0
        <4>1. m - 1 \in 0 .. n /\ v[m - 1] = u[m - 1]
          BY <2>1, <3>2
        <4>2. Step(s, I, v, m) = Step(s, I, u, m)
          BY <3>2, <4>1 DEF Step
        <4>3. v[m] = Step(s, I, u, m)
          <5>1. CASE m <= n
            BY <2>1, <2>5, <5>1
          <5>2. CASE ~(m <= n)
            BY <5>2
          <5> QED BY <5>1, <5>2
        <4> QED BY <4>2, <4>3
      <3> QED BY <3>1, <3>2
    <2>4. v = [m \in 0 .. n + 1 |-> Step(s, I, v, m)]
      <3>1. v = [m \in 0 .. n + 1 |-> v[m]]
        OBVIOUS
      <3> HIDE DEF v
      <3> QED BY <2>3, <3>1
    <2> HIDE DEF v
    <2> QED BY <2>1, <2>4
  <1>3. T \in SUBSET Nat
    OBVIOUS
  <1> HIDE DEF T
  <1>4. T = Nat
    BY <1>1, <1>2, <1>3, Induction
  <1> QED BY <1>4 DEF T

LEMMA KeptFacts ==
  ASSUME NEW S, NEW s \in Seq(S), NEW I \in SUBSET (1 .. Len(s))
  PROVE  Cache!Kept(s, I) \in Seq(S) /\ Selection(s, I, Len(s), Cache!Kept(s, I))
  <1> DEFINE u == CHOOSE u : u = [n \in 0 .. Len(s) |-> Step(s, I, u, n)]
  <1>0. Len(s) \in Nat /\ \A i \in I : i \in Nat /\ i # 0
    OBVIOUS
  <1>1. Cache!Kept(s, I) = u[Len(s)]
    BY DEF Cache!Kept, Step
  <1>2. \A n \in 0 .. Len(s) : u[n] = Step(s, I, u, n)
    <2> DEFINE w == [n \in 0 .. Len(s) |-> Step(s, I, u, n)]
    <2>1. u = w
      BY KeptExists
    <2>2. \A n \in 0 .. Len(s) : w[n] = Step(s, I, u, n)
      OBVIOUS
    <2> HIDE DEF w, u
    <2> QED BY <2>1, <2>2
  <1> HIDE DEF u
  <1> DEFINE T == {n \in Nat : n <= Len(s) => u[n] \in Seq(S) /\ Selection(s, I, n, u[n])}
  <1>3. 0 \in T
    <2>1. u[0] = <<>>
      BY <1>0, <1>2 DEF Step
    <2>2. <<>> \in Seq(S) /\ Selection(s, I, 0, <<>>)
      <3> DEFINE at == [a \in {} |-> 1]
      <3>1. at \in [{} -> I] /\ 1 .. Len(<<>>) = {}
        OBVIOUS
      <3>2. \A i \in I : ~(i <= 0)
        BY <1>0
      <3> HIDE DEF at
      <3>3. Selects(at, s, I, 0, <<>>)
        BY <3>1, <3>2 DEF Selects
      <3> QED BY <3>3 DEF Selection
    <2> QED BY <2>1, <2>2
  <1>4. ASSUME NEW n \in T PROVE n + 1 \in T
    <2> SUFFICES ASSUME n + 1 <= Len(s)
                 PROVE  u[n + 1] \in Seq(S) /\ Selection(s, I, n + 1, u[n + 1])
      OBVIOUS
    <2> DEFINE r == u[n]
    <2>1. n \in Nat /\ r \in Seq(S) /\ Selection(s, I, n, r)
      BY <1>0
    <2>2. u[n + 1] = IF n + 1 \in I THEN Append(r, s[n + 1]) ELSE r
      <3>1. n + 1 \in 0 .. Len(s) /\ n + 1 # 0 /\ n + 1 - 1 = n
        BY <1>0, <2>1
      <3> QED BY <1>2, <3>1 DEF Step
    <2> HIDE DEF r
    <2>9. PICK at : Selects(at, s, I, n, r)
      BY <2>1 DEF Selection
    <2>3. /\ at \in [1 .. Len(r) -> I]
          /\ \A a \in 1 .. Len(r) : at[a] \in I /\ at[a] \in Nat /\ at[a] <= n /\ r[a] = s[at[a]]
          /\ \A a, b \in 1 .. Len(r) : a < b => at[a] < at[b]
          /\ \A i \in I : i <= n => \E a \in 1 .. Len(r) : at[a] = i
      <3>1. \A a \in 1 .. Len(r) : at[a] \in I
        BY <2>9 DEF Selects
      <3> QED BY <1>0, <2>9, <3>1 DEF Selects
    <2>4. Len(r) \in Nat /\ \A i \in I : i <= n + 1 => i <= n \/ i = n + 1
      BY <2>1
    <2>5. CASE n + 1 \notin I
      <3>1. u[n + 1] = r /\ \A a \in 1 .. Len(r) : at[a] <= n + 1
        BY <2>1, <2>2, <2>3, <2>5
      <3>2. \A i \in I : i <= n + 1 => \E a \in 1 .. Len(r) : at[a] = i
        BY <2>3, <2>4, <2>5
      <3>4. Selects(at, s, I, n + 1, r)
        BY <2>3, <3>1, <3>2 DEF Selects
      <3>3. Selection(s, I, n + 1, r)
        BY <3>4 DEF Selection
      <3> QED BY <2>1, <3>1, <3>3
    <2>6. CASE n + 1 \in I
      <3> DEFINE q == Append(r, s[n + 1])
                 to == [a \in 1 .. Len(r) + 1 |-> IF a <= Len(r) THEN at[a] ELSE n + 1]
      <3>1. /\ s[n + 1] \in S /\ q \in Seq(S) /\ Len(q) = Len(r) + 1 /\ q[Len(r) + 1] = s[n + 1]
            /\ \A a \in 1 .. Len(r) : q[a] = r[a]
        <4>1. s[n + 1] \in S
          BY <1>0, <2>1, ElementOfSeq
        <4> QED BY <2>1, <4>1, AppendProperties
      <3>2. /\ to \in [1 .. Len(r) + 1 -> I] /\ to[Len(r) + 1] = n + 1
            /\ \A a \in 1 .. Len(r) : to[a] = at[a] /\ at[a] \in I /\ at[a] <= n
        BY <2>1, <2>3, <2>4, <2>6
      <3>3. \A a \in 1 .. Len(r) + 1 : a \in 1 .. Len(r) \/ a = Len(r) + 1
        BY <2>4
      <3>8. \A a \in 1 .. Len(r) + 1 : to[a] <= n + 1
        BY <2>1, <2>3, <3>2, <3>3
      <3> HIDE DEF to, q
      <3>4. ASSUME NEW a \in 1 .. Len(r) + 1, NEW b \in 1 .. Len(r) + 1, a < b
            PROVE  to[a] < to[b]
        <4>1. a \in 1 .. Len(r)
          BY <2>4, <3>4
        <4>2. CASE b \in 1 .. Len(r)
          BY <2>3, <3>2, <3>4, <4>1, <4>2
        <4>3. CASE b = Len(r) + 1
          <5>1. to[a] <= n /\ to[b] = n + 1 /\ to[a] \in Nat
            BY <2>3, <3>2, <4>1, <4>3
          <5> QED BY <2>1, <5>1
        <4> QED BY <3>3, <4>2, <4>3
      <3>5. \A a \in 1 .. Len(r) + 1 : q[a] = s[to[a]]
        BY <2>3, <3>1, <3>2, <3>3
      <3>6. \A i \in I : i <= n + 1 => \E a \in 1 .. Len(r) + 1 : to[a] = i
        <4>1. 1 .. Len(r) \subseteq 1 .. Len(r) + 1 /\ Len(r) + 1 \in 1 .. Len(r) + 1
          BY <2>4
        <4> QED BY <2>3, <2>4, <3>2, <4>1
      <3>9. Selects(to, s, I, n + 1, q)
        BY <3>1, <3>2, <3>4, <3>5, <3>6, <3>8 DEF Selects
      <3>7. Selection(s, I, n + 1, q)
        BY <3>9 DEF Selection
      <3> QED BY <2>2, <2>6, <3>1, <3>7 DEF q
    <2> QED BY <2>5, <2>6
  <1>5. T \in SUBSET Nat
    OBVIOUS
  <1>6. T = Nat
    <2> HIDE DEF T
    <2> QED BY <1>3, <1>4, <1>5, Induction
  <1> QED BY <1>0, <1>1, <1>6

\* In the sequence B, y came after the last x; the elements of s came in this order.
After(B, x, y) == \E k \in 1 .. Len(B) : B[k] = y /\ \A m \in k .. Len(B) : B[m] # x
InOrder(B, s) == \A i, j \in 1 .. Len(s) : i < j => After(B, s[i], s[j])

LEMMA OrderedDistinct ==
  ASSUME NEW S, NEW B \in Seq(S), NEW s, Len(s) \in Nat, InOrder(B, s)
  PROVE  \A i, j \in 1 .. Len(s) : s[i] = s[j] => i = j
  <1>1. \A x : ~After(B, x, x)
    BY DEF After
  <1>2. \A i, j \in 1 .. Len(s) : i < j => s[i] # s[j]
    BY <1>1 DEF InOrder
  <1> QED BY <1>2

LEMMA AfterAppend ==
  ASSUME NEW S, NEW B \in Seq(S), NEW z \in S, NEW x, x # z
  PROVE  /\ After(Append(B, z), x, z)
         /\ \A y : After(B, x, y) => After(Append(B, z), x, y)
  <1> DEFINE C == Append(B, z)
  <1>1. /\ Len(B) \in Nat /\ Len(C) = Len(B) + 1 /\ C[Len(B) + 1] = z
        /\ \A k \in 1 .. Len(B) : C[k] = B[k]
    OBVIOUS
  <1> HIDE DEF C
  <1>2. \A k \in 1 .. Len(C) : k \in 1 .. Len(B) \/ k = Len(C)
    BY <1>1
  <1>3. After(C, x, z)
    <2>1. Len(C) \in 1 .. Len(C) /\ \A m \in Len(C) .. Len(C) : m = Len(C)
      BY <1>1
    <2> QED BY <1>1, <2>1 DEF After
  <1>4. ASSUME NEW y, After(B, x, y) PROVE After(C, x, y)
    <2>1. PICK k \in 1 .. Len(B) : B[k] = y /\ \A m \in k .. Len(B) : B[m] # x
      BY <1>4 DEF After
    <2>2. k \in 1 .. Len(C) /\ C[k] = y
      BY <1>1, <2>1
    <2>3. \A m \in k .. Len(C) : C[m] # x
      BY <1>1, <1>2, <2>1
    <2> QED BY <2>2, <2>3 DEF After
  <1> QED BY <1>3, <1>4 DEF C

\* Where the rest of s came after one of its first.
Followed(w, B, s, k) ==
    /\ w \in [1 .. Len(s) - 1 -> k + 1 .. Len(B)]
    /\ \A i \in 1 .. Len(s) - 1 : B[w[i]] = s[i + 1] /\ s[i + 1] # B[k]
    /\ \A i, j \in 1 .. Len(s) - 1 : B[w[i]] = B[w[j]] => i = j

LEMMA OrderedCount ==
  ASSUME NEW S, NEW B \in Seq(S), NEW s \in Seq(S), InOrder(B, s), s # <<>>,
         NEW k \in 1 .. Len(B), B[k] = s[1]
  PROVE  \E w : Followed(w, B, s, k)
  <1>1. Len(s) \in Nat /\ Len(B) \in Nat /\ 1 \in 1 .. Len(s)
    OBVIOUS
  <1>2. ASSUME NEW i \in 1 .. Len(s) - 1
        PROVE  \E n \in k + 1 .. Len(B) : B[n] = s[i + 1]
    <2>1. i + 1 \in 1 .. Len(s) /\ 1 < i + 1
      BY <1>1
    <2>2. After(B, s[1], s[i + 1])
      BY <1>1, <2>1 DEF InOrder
    <2>3. PICK n \in 1 .. Len(B) : B[n] = s[i + 1] /\ \A m \in n .. Len(B) : B[m] # s[1]
      BY <2>2 DEF After
    <2>4. k \notin n .. Len(B)
      BY <2>3
    <2> QED BY <1>1, <2>3, <2>4
  <1> DEFINE w == [i \in 1 .. Len(s) - 1 |-> CHOOSE n \in k + 1 .. Len(B) : B[n] = s[i + 1]]
  <1>3. /\ w \in [1 .. Len(s) - 1 -> k + 1 .. Len(B)]
        /\ \A i \in 1 .. Len(s) - 1 : B[w[i]] = s[i + 1]
    BY <1>2
  <1>4. \A i, j \in 1 .. Len(s) : s[i] = s[j] => i = j
    BY <1>1, OrderedDistinct
  <1>5. \A i \in 1 .. Len(s) - 1 : i + 1 \in 1 .. Len(s) /\ i + 1 # 1
    BY <1>1
  <1> HIDE DEF w
  <1>6. \A i \in 1 .. Len(s) - 1 : s[i + 1] # B[k]
    BY <1>1, <1>4, <1>5
  <1>7. \A i, j \in 1 .. Len(s) - 1 : B[w[i]] = B[w[j]] => i = j
    <2>1. \A i, j \in 1 .. Len(s) - 1 : s[i + 1] = s[j + 1] => i + 1 = j + 1
      BY <1>4, <1>5
    <2> QED BY <1>3, <2>1
  <1> QED BY <1>3, <1>6, <1>7 DEF Followed

LEMMA Count ==
  ASSUME NEW n \in Nat, NEW T, IsFiniteSet(T), NEW f \in [1 .. n -> T],
         \A i, j \in 1 .. n : f[i] = f[j] => i = j
  PROVE  n <= Cardinality(T)
  <1>1. f \in Injection(1 .. n, T)
    BY DEF Injection, IsInjective
  <1>2. Cardinality(1 .. n) <= Cardinality(T)
    BY <1>1, FS_Injection
  <1>3. Cardinality(1 .. n) = n
    <2>1. 1 \in Int /\ n \in Int /\ (IF 1 > n THEN 0 ELSE n - 1 + 1) = n
      OBVIOUS
    <2> QED BY <2>1, FS_Interval
  <1> QED BY <1>2, <1>3

LEMMA Positions == ASSUME NEW a \in Nat, NEW b \in Nat PROVE IsFiniteSet(a + 1 .. b)
  <1>1. a + 1 \in Int /\ b \in Int
    OBVIOUS
  <1> QED BY <1>1, FS_Interval

\* At so many positions, and so many different values.
LEMMA PositionsAfter ==
  ASSUME NEW S, NEW B \in Seq(S), NEW s \in Seq(S), InOrder(B, s), s # <<>>,
         NEW k \in 1 .. Len(B), B[k] = s[1], NEW T, \A i \in 1 .. Len(s) : s[i] \in T
  PROVE  Len(s) - 1 <= Cardinality({j \in k + 1 .. Len(B) : B[j] \in T})
  <1> DEFINE P == {j \in k + 1 .. Len(B) : B[j] \in T}
  <1>1. PICK w : Followed(w, B, s, k)
    BY OrderedCount
  <1>2. Len(s) - 1 \in Nat /\ Len(B) \in Nat /\ \A i \in 1 .. Len(s) - 1 : i + 1 \in 1 .. Len(s)
    OBVIOUS
  <1>3. w \in [1 .. Len(s) - 1 -> P] /\ \A i, j \in 1 .. Len(s) - 1 : w[i] = w[j] => i = j
    <2>1. /\ w \in [1 .. Len(s) - 1 -> k + 1 .. Len(B)]
          /\ \A i \in 1 .. Len(s) - 1 : w[i] \in P
      BY <1>1, <1>2 DEF Followed
    <2> HIDE DEF P
    <2> QED BY <1>1, <2>1 DEF Followed
  <1>4. IsFiniteSet(P)
    <2>1. P \subseteq k + 1 .. Len(B) /\ k \in Nat
      OBVIOUS
    <2> QED BY <1>2, <2>1, Positions, FS_Subset
  <1> HIDE DEF P
  <1>5. Len(s) - 1 <= Cardinality(P)
    BY <1>2, <1>3, <1>4, Count
  <1> QED BY <1>5 DEF P

LEMMA ValuesAfter ==
  ASSUME NEW S, NEW B \in Seq(S), NEW s \in Seq(S), InOrder(B, s), s # <<>>,
         NEW k \in 1 .. Len(B), B[k] = s[1]
  PROVE  Len(s) - 1 <= Cardinality({B[j] : j \in k + 1 .. Len(B)} \ {B[k]})
  <1> DEFINE V == {B[j] : j \in k + 1 .. Len(B)}
             W == V \ {B[k]}
             f == [i \in 1 .. Len(s) - 1 |-> s[i + 1]]
  <1>1. PICK w : Followed(w, B, s, k)
    BY OrderedCount
  <1>2. Len(s) - 1 \in Nat /\ Len(B) \in Nat /\ k \in Nat
    OBVIOUS
  <1>3. f \in [1 .. Len(s) - 1 -> W] /\ \A i, j \in 1 .. Len(s) - 1 : f[i] = f[j] => i = j
    <2>1. \A i \in 1 .. Len(s) - 1 : w[i] \in k + 1 .. Len(B) /\ f[i] = B[w[i]] /\ f[i] # B[k]
      BY <1>1 DEF Followed
    <2>2. \A i \in 1 .. Len(s) - 1 : s[i + 1] \in W
      BY <2>1
    <2>3. f \in [1 .. Len(s) - 1 -> W]
      <3> HIDE DEF W
      <3> QED BY <2>2
    <2>4. \A i, j \in 1 .. Len(s) - 1 : f[i] = f[j] => i = j
      <3> HIDE DEF f
      <3> QED BY <1>1, <2>1 DEF Followed
    <2> QED BY <2>3, <2>4, Zenon
  <1>4. IsFiniteSet(W)
    <2>1. IsFiniteSet(k + 1 .. Len(B))
      BY <1>2, Positions
    <2>2. IsFiniteSet(V)
      <3> DEFINE to == [j \in k + 1 .. Len(B) |-> B[j]]
      <3>1. to \in [k + 1 .. Len(B) -> V] /\ \A v \in V : \E j \in k + 1 .. Len(B) : to[j] = v
        OBVIOUS
      <3> HIDE DEF to, V
      <3>2. to \in Surjection(k + 1 .. Len(B), V)
        BY <3>1, Fun_IsSurj
      <3> QED BY <2>1, <3>2, FS_Surjection
    <2>3. W \subseteq V
      OBVIOUS
    <2> HIDE DEF V, W
    <2> QED BY <2>2, <2>3, FS_Subset
  <1> HIDE DEF W, f
  <1>5. Len(s) - 1 <= Cardinality(W)
    BY <1>2, <1>3, <1>4, Count
  <1> QED BY <1>5 DEF W

CacheConstants == CacheSources \in Nat \ {0} /\ CachePerSource \in Nat \ {0}

Entry == [src : Src, ids : Seq(Id)]
Names(c) == [i \in 1 .. Len(c) |-> c[i].src]
Pairs(b) == [i \in 1 .. Len(b.ids) |-> <<b.src, b.ids[i]>>]
SourcesIn(A) == [k \in 1 .. Len(A) |-> A[k][1]]

\* The buckets are in the order in which their sources were last added to, and the
\* ids in a bucket in the order in which they were last added.
LruOrder(c, A) ==
    /\ InOrder(SourcesIn(A), Names(c))
    /\ \A i \in 1 .. Len(c) : InOrder(A, Pairs(c[i]))

CacheInv ==
    /\ added \in Seq(Src \X Id) /\ expired \in 0 .. Len(added)
    /\ cache \in Seq(Entry) /\ Len(cache) <= CacheSources
    /\ \A i \in 1 .. Len(cache) : Len(cache[i].ids) <= CachePerSource
    /\ LruOrder(cache, added)
    /\ CacheRemembers

LEMMA OrderKept ==
  ASSUME NEW B, NEW s, NEW I \in SUBSET (1 .. Len(s)), NEW n, NEW r, NEW at,
         Selects(at, s, I, n, r), InOrder(B, s)
  PROVE  InOrder(B, r)
  <1> SUFFICES ASSUME NEW i \in 1 .. Len(r), NEW j \in 1 .. Len(r), i < j
               PROVE  After(B, r[i], r[j])
    BY DEF InOrder
  <1>1. /\ at[i] \in 1 .. Len(s) /\ at[j] \in 1 .. Len(s) /\ at[i] < at[j]
        /\ r[i] = s[at[i]] /\ r[j] = s[at[j]]
    BY DEF Selects
  <1> QED BY <1>1 DEF InOrder

LEMMA NamesKept ==
  ASSUME NEW s \in Seq(Entry), NEW I \in SUBSET (1 .. Len(s)), NEW r \in Seq(Entry),
         NEW at, Selects(at, s, I, Len(s), r)
  PROVE  Selects(at, Names(s), I, Len(s), Names(r))
  <1>1. Len(Names(s)) = Len(s) /\ Len(Names(r)) = Len(r)
    BY DEF Names
  <1>2. \A a \in 1 .. Len(r) : at[a] \in 1 .. Len(s)
    BY DEF Selects
  <1>3. \A a \in 1 .. Len(r) : Names(r)[a] = Names(s)[at[a]]
    BY <1>2 DEF Names, Selects
  <1> QED BY <1>1, <1>3 DEF Selects

\* Some buckets of a cache, in their order.
LEMMA BucketsKept ==
  ASSUME NEW A, NEW s \in Seq(Entry), NEW I \in SUBSET (1 .. Len(s)), NEW r \in Seq(Entry),
         Selection(s, I, Len(s), r), LruOrder(s, A)
  PROVE  /\ LruOrder(r, A)
         /\ \A i \in 1 .. Len(r) : \E j \in I : r[i] = s[j]
         /\ \A j \in I : \E i \in 1 .. Len(r) : r[i] = s[j]
  <1>1. PICK at : Selects(at, s, I, Len(s), r)
    BY DEF Selection
  <1>2. \A i \in 1 .. Len(r) : at[i] \in I /\ r[i] = s[at[i]]
    BY <1>1 DEF Selects
  <1>3. \A j \in I : \E i \in 1 .. Len(r) : r[i] = s[j]
    BY <1>1 DEF Selects
  <1>4. InOrder(SourcesIn(A), Names(r))
    <2>1. Len(Names(s)) = Len(s)
      BY DEF Names
    <2>2. Selects(at, Names(s), I, Len(s), Names(r))
      BY <1>1, NamesKept
    <2> QED BY <2>1, <2>2, OrderKept DEF LruOrder
  <1> QED BY <1>2, <1>3, <1>4 DEF LruOrder

\* What Trim leaves.
LEMMA TrimFacts ==
  ASSUME NEW S, NEW s \in Seq(S), NEW k \in Nat, Len(s) <= k + 1
  PROVE  LET r == Cache!Trim(s, k)
             I == {i \in 1 .. Len(s) : i > Len(s) - k}
         IN  /\ r \in Seq(S) /\ Len(r) <= k /\ Selection(s, I, Len(s), r)
             /\ \A i \in 1 .. Len(s) : i \in I \/ (i = 1 /\ Len(s) = k + 1)
  <1> DEFINE r == Cache!Trim(s, k)
             I == {i \in 1 .. Len(s) : i > Len(s) - k}
             d == IF Len(s) > k THEN 1 ELSE 0
             at == [a \in 1 .. Len(s) - d |-> a + d]
  <1>1. Len(s) \in Nat /\ d \in 0 .. 1 /\ d <= Len(s) /\ Len(s) - d <= k
    OBVIOUS
  <1>2. /\ r \in Seq(S) /\ Len(r) = Len(s) - d
        /\ \A a \in 1 .. Len(s) - d : r[a] = s[a + d]
    <2>1. CASE Len(s) > k
      <3>1. Len(s) = k + 1 /\ r = SubSeq(s, 2, Len(s)) /\ d = 1
        BY <1>1, <2>1 DEF Cache!Trim, Cache!Newest
      <3>2. \A i \in 2 .. Len(s) : s[i] \in S
        OBVIOUS
      <3> QED BY <1>1, <3>1, <3>2, SubSeqProperties
    <2>2. CASE ~(Len(s) > k)
      BY <2>2 DEF Cache!Trim
    <2> QED BY <2>1, <2>2
  <1>3. /\ at \in [1 .. Len(s) - d -> I]
        /\ \A a \in 1 .. Len(s) - d : at[a] = a + d
    BY <1>1
  <1>4. \A i \in I : i - d \in 1 .. Len(s) - d /\ at[i - d] = i
    BY <1>1
  <1>5. \A i \in 1 .. Len(s) : i \in I \/ (i = 1 /\ Len(s) = k + 1)
    BY <1>1
  <1> HIDE DEF r, at, d
  <1>6. Selects(at, s, I, Len(s), r)
    BY <1>1, <1>2, <1>3, <1>4, SMTT(30) DEF Selects
  <1> QED BY <1>1, <1>2, <1>5, <1>6 DEF Selection, r

\* The other buckets, in their order; the ids of the one that is moved.
LEMMA OthersFacts ==
  ASSUME NEW c \in Seq(Entry), NEW s,
         \A i, j \in 1 .. Len(c) : c[i].src = c[j].src => i = j
  PROVE  /\ Cache!Others(c, s) \in Seq(Entry) /\ Len(Cache!Others(c, s)) <= Len(c)
         /\ Selection(c, {i \in 1 .. Len(c) : c[i].src # s}, Len(c), Cache!Others(c, s))
         /\ \/ /\ Cache!IdsOf(c, s) = <<>> /\ \A i \in 1 .. Len(c) : c[i].src # s
            \/ \E i \in 1 .. Len(c) : c[i].src = s /\ Cache!IdsOf(c, s) = c[i].ids
  <1> DEFINE k == Cache!BucketOf(c, s)
             I == {i \in 1 .. Len(c) : c[i].src # s}
             r == Cache!Others(c, s)
  <1>0. Len(c) \in Nat /\ \A i \in 1 .. Len(c) : c[i] \in Entry
    OBVIOUS
  <1>1. CASE \A i \in 1 .. Len(c) : c[i].src # s
    <2>1. k = 0 /\ r = c /\ Cache!IdsOf(c, s) = <<>>
      <3>1. {i \in 1 .. Len(c) : c[i].src = s} = {}
        BY <1>1
      <3>2. k = 0
        BY <3>1 DEF Cache!BucketOf
      <3> QED BY <3>2 DEF Cache!Others, Cache!IdsOf
    <2> DEFINE at == [a \in 1 .. Len(c) |-> a]
    <2>2. at \in [1 .. Len(c) -> I] /\ \A a \in 1 .. Len(c) : at[a] = a
      BY <1>1
    <2> HIDE DEF at
    <2>3. Selects(at, c, I, Len(c), c)
      BY <1>0, <2>2 DEF Selects
    <2>4. Selection(c, I, Len(c), r)
      BY <2>1, <2>3 DEF Selection
    <2> QED BY <1>0, <1>1, <2>1, <2>4
  <1>2. CASE \E i \in 1 .. Len(c) : c[i].src = s
    <2>1. k \in 1 .. Len(c) /\ c[k].src = s
      BY <1>2 DEF Cache!BucketOf
    <2>2. \A i \in 1 .. Len(c) : i \in I <=> i # k
      BY <2>1
    <2>3. k # 0 /\ Cache!IdsOf(c, s) = c[k].ids
      BY <1>0, <2>1 DEF Cache!IdsOf
    <2>4. r = [j \in 1 .. Len(c) - 1 |-> c[IF j < k THEN j ELSE j + 1]]
      BY <2>3 DEF Cache!Others
    <2> DEFINE at == [j \in 1 .. Len(c) - 1 |-> IF j < k THEN j ELSE j + 1]
    <2> HIDE DEF k
    <2>5. /\ at \in [1 .. Len(c) - 1 -> 1 .. Len(c)]
          /\ \A a \in 1 .. Len(c) - 1 : at[a] = IF a < k THEN a ELSE a + 1
      BY <1>0, <2>1
    <2>6. r \in Seq(Entry) /\ Len(r) = Len(c) - 1 /\ \A a \in 1 .. Len(r) : r[a] = c[at[a]]
      BY <1>0, <2>1, <2>4, <2>5
    <2>7. at \in [1 .. Len(c) - 1 -> I]
      BY <1>0, <2>1, <2>2, <2>5
    <2>8. \A a, b \in 1 .. Len(c) - 1 : a < b => at[a] < at[b]
      BY <1>0, <2>1, <2>5
    <2>9. \A i \in I : \E a \in 1 .. Len(c) - 1 : at[a] = i
      <3> SUFFICES ASSUME NEW i \in I PROVE \E a \in 1 .. Len(c) - 1 : at[a] = i
        OBVIOUS
      <3>1. CASE i < k
        <4>1. i \in 1 .. Len(c) - 1
          BY <1>0, <2>1, <3>1
        <4>2. at[i] = i
          BY <2>5, <3>1, <4>1
        <4> QED BY <4>1, <4>2
      <3>2. CASE i > k
        <4>1. i - 1 \in 1 .. Len(c) - 1 /\ ~(i - 1 < k) /\ i - 1 + 1 = i
          BY <1>0, <2>1, <3>2
        <4>2. at[i - 1] = i
          BY <2>5, <4>1
        <4> QED BY <4>1, <4>2
      <3> QED BY <1>0, <2>1, <2>2, <3>1, <3>2
    <2>10. \A a \in 1 .. Len(c) - 1 : at[a] <= Len(c)
      BY <1>0, <2>5
    <2> HIDE DEF at, r, I
    <2>11. Selects(at, c, I, Len(c), r)
      BY <2>6, <2>7, <2>8, <2>9, <2>10 DEF Selects
    <2>12. Selection(c, I, Len(c), r)
      BY <2>11 DEF Selection
    <2> QED BY <1>0, <2>1, <2>3, <2>6, <2>12 DEF I, r
  <1> QED BY <1>1, <1>2

\* What counts as newer only grows.
LEMMA NewerGrows ==
  ASSUME added \in Seq(Src \X Id), NEW p \in Src \X Id, added' = Append(added, p),
         NEW k \in 1 .. Len(added)
  PROVE  /\ added'[k] = added[k]
         /\ SameAfter(k)' >= SameAfter(k) /\ SourcesAfter(k)' >= SourcesAfter(k)
         /\ {SameAfter(k), SourcesAfter(k), SameAfter(k)', SourcesAfter(k)'} \subseteq Nat
  <1> DEFINE n == Len(added)
             J == {j \in k + 1 .. Len(added) : added[j][1] = added[k][1]}
             J2 == {j \in k + 1 .. Len(added') : added'[j][1] = added'[k][1]}
             V == {added[j][1] : j \in k + 1 .. Len(added)}
             V2 == {added'[j][1] : j \in k + 1 .. Len(added')}
  <1>1. /\ n \in Nat /\ Len(added') = n + 1 /\ k \in Nat
        /\ \A j \in 1 .. n : added'[j] = added[j]
    OBVIOUS
  <1>2. k + 1 .. n \subseteq k + 1 .. n + 1 /\ k + 1 .. n \subseteq 1 .. n
    BY <1>1
  <1>3. J \subseteq J2 /\ V \subseteq V2
    BY <1>1, <1>2
  <1>4. IsFiniteSet(k + 1 .. n + 1)
    BY <1>1, Positions
  <1>5. IsFiniteSet(J2)
    <2>1. J2 \subseteq k + 1 .. n + 1
      BY <1>1
    <2> HIDE DEF J2
    <2> QED BY <1>4, <2>1, FS_Subset
  <1>6. IsFiniteSet(V2)
    <2> DEFINE to == [j \in k + 1 .. n + 1 |-> added'[j][1]]
    <2>1. to \in [k + 1 .. n + 1 -> V2] /\ \A v \in V2 : \E j \in k + 1 .. n + 1 : to[j] = v
      BY <1>1
    <2> HIDE DEF to, V2
    <2>2. to \in Surjection(k + 1 .. n + 1, V2)
      BY <2>1, Fun_IsSurj
    <2> QED BY <1>4, <2>2, FS_Surjection
  <1>7. /\ Cardinality(J) <= Cardinality(J2)
        /\ Cardinality(J) \in Nat /\ Cardinality(J2) \in Nat
    <2> HIDE DEF J, J2
    <2> QED BY <1>3, <1>5, FS_Subset, FS_CardinalityType
  <1>8. LET W == V \ {added[k][1]}
            W2 == V2 \ {added[k][1]}
        IN  /\ Cardinality(W) <= Cardinality(W2)
            /\ Cardinality(W) \in Nat /\ Cardinality(W2) \in Nat
    <2> HIDE DEF V, V2
    <2>1. V \ {added[k][1]} \subseteq V2 \ {added[k][1]} /\ V2 \ {added[k][1]} \subseteq V2
      BY <1>3
    <2> QED BY <1>6, <2>1, FS_Subset, FS_CardinalityType
  <1> QED BY <1>1, <1>7, <1>8 DEF SameAfter, SourcesAfter

LEMMA SelectionLength ==
  ASSUME NEW S, NEW s \in Seq(S), NEW I \in SUBSET (1 .. Len(s)), NEW r \in Seq(S),
         Selection(s, I, Len(s), r)
  PROVE  Len(r) <= Len(s)
  <1>1. PICK at : Selects(at, s, I, Len(s), r)
    BY DEF Selection
  <1>2. Len(r) \in Nat /\ Len(s) \in Nat /\ 0 \in Nat /\ 0 + 1 = 1
    OBVIOUS
  <1>3. at \in [1 .. Len(r) -> 1 .. Len(s)] /\ \A i, j \in 1 .. Len(r) : at[i] = at[j] => i = j
    <2>1. at \in [1 .. Len(r) -> 1 .. Len(s)]
      BY <1>1 DEF Selects
    <2>2. \A i, j \in 1 .. Len(r) : i < j \/ j < i \/ i = j
      BY <1>2
    <2>3. \A i, j \in 1 .. Len(r) : i < j => at[i] < at[j] /\ at[i] \in Nat /\ at[j] \in Nat
      BY <1>1, <2>1, SMTT(30) DEF Selects
    <2> QED BY <2>1, <2>2, <2>3
  <1>4. IsFiniteSet(1 .. Len(s)) /\ Cardinality(1 .. Len(s)) = Len(s)
    <2>1. 1 \in Int /\ Len(s) \in Int /\ (IF 1 > Len(s) THEN 0 ELSE Len(s) - 1 + 1) = Len(s)
      BY <1>2
    <2> QED BY <2>1, FS_Interval
  <1>5. Len(r) <= Cardinality(1 .. Len(s))
    BY <1>2, <1>3, <1>4, Count
  <1> QED BY <1>4, <1>5

\* Ids of a bucket, in their order.
LEMMA IdsKept ==
  ASSUME NEW A, NEW b \in Entry, NEW c \in Entry, b.src = c.src,
         NEW I \in SUBSET (1 .. Len(b.ids)), Selection(b.ids, I, Len(b.ids), c.ids),
         InOrder(A, Pairs(b))
  PROVE  /\ InOrder(A, Pairs(c)) /\ Len(c.ids) <= Len(b.ids)
         /\ \A i \in I : Cache!HasItem(c.ids, b.ids[i])
  <1>1. PICK at : Selects(at, b.ids, I, Len(b.ids), c.ids)
    BY DEF Selection
  <1>2. Len(Pairs(b)) = Len(b.ids) /\ Len(Pairs(c)) = Len(c.ids) /\ b.ids \in Seq(Id) /\ c.ids \in Seq(Id)
    BY DEF Pairs, Entry
  <1>3. Selects(at, Pairs(b), I, Len(b.ids), Pairs(c))
    <2>1. \A a \in 1 .. Len(c.ids) : at[a] \in 1 .. Len(b.ids)
      BY <1>1 DEF Selects
    <2>2. \A a \in 1 .. Len(c.ids) : Pairs(c)[a] = Pairs(b)[at[a]]
      BY <1>1, <2>1 DEF Pairs, Selects
    <2> QED BY <1>1, <1>2, <2>2 DEF Selects
  <1>4. InOrder(A, Pairs(c))
    BY <1>2, <1>3, OrderKept
  <1>5. \A i \in I : Cache!HasItem(c.ids, b.ids[i])
    BY <1>1 DEF Selects, Cache!HasItem
  <1>6. Len(c.ids) <= Len(b.ids)
    BY <1>2, SelectionLength
  <1> QED BY <1>4, <1>5, <1>6

\* What comes last comes after all the others.
LEMMA OrderAppend ==
  ASSUME NEW S, NEW B \in Seq(S), NEW z \in S, NEW s \in Seq(S), InOrder(B, s),
         \A i \in 1 .. Len(s) : s[i] # z
  PROVE  InOrder(Append(B, z), s) /\ InOrder(Append(B, z), Append(s, z))
  <1> DEFINE C == Append(B, z)
             t == Append(s, z)
  <1>1. \A i \in 1 .. Len(s) : After(C, s[i], z) /\ \A y : After(B, s[i], y) => After(C, s[i], y)
    BY AfterAppend
  <1>2. /\ Len(s) \in Nat /\ Len(t) = Len(s) + 1 /\ t[Len(s) + 1] = z
        /\ \A i \in 1 .. Len(s) : t[i] = s[i]
    OBVIOUS
  <1> HIDE DEF C, t
  <1>3. InOrder(C, s)
    BY <1>1 DEF InOrder
  <1>4. InOrder(C, t)
    <2> SUFFICES ASSUME NEW i \in 1 .. Len(t), NEW j \in 1 .. Len(t), i < j
                 PROVE  After(C, t[i], t[j])
      BY DEF InOrder
    <2>1. i \in 1 .. Len(s) /\ (j \in 1 .. Len(s) \/ j = Len(s) + 1)
      BY <1>2
    <2> QED BY <1>1, <1>2, <1>3, <2>1 DEF InOrder
  <1> QED BY <1>3, <1>4 DEF C, t

LEMMA SourcesSeq ==
  ASSUME NEW A \in Seq(Src \X Id), NEW p \in Src \X Id
  PROVE  /\ SourcesIn(A) \in Seq(Src) /\ Len(SourcesIn(A)) = Len(A)
         /\ SourcesIn(Append(A, p)) = Append(SourcesIn(A), p[1])
  <1>1. Len(A) \in Nat /\ \A k \in 1 .. Len(A) : A[k][1] \in Src
    OBVIOUS
  <1>2. SourcesIn(A) \in Seq(Src) /\ Len(SourcesIn(A)) = Len(A)
    BY <1>1 DEF SourcesIn
  <1>3. SourcesIn(Append(A, p)) = Append(SourcesIn(A), p[1])
    BY <1>1, <1>2 DEF SourcesIn
  <1> QED BY <1>2, <1>3

LEMMA NamesSeq ==
  ASSUME NEW c \in Seq(Entry), NEW b \in Entry
  PROVE  /\ Names(c) \in Seq(Src) /\ Len(Names(c)) = Len(c)
         /\ Names(Append(c, b)) = Append(Names(c), b.src)
  <1>1. Len(c) \in Nat /\ \A k \in 1 .. Len(c) : c[k].src \in Src
    <2>1. \A k \in 1 .. Len(c) : c[k] \in Entry
      OBVIOUS
    <2> QED BY <2>1 DEF Entry
  <1>2. Names(c) \in Seq(Src) /\ Len(Names(c)) = Len(c)
    BY <1>1 DEF Names
  <1>3. Names(Append(c, b)) = Append(Names(c), b.src)
    BY <1>1, <1>2 DEF Names
  <1> QED BY <1>2, <1>3

LEMMA PairsSeq ==
  ASSUME NEW b \in Entry, NEW id \in Id
  PROVE  /\ Pairs(b) \in Seq(Src \X Id) /\ Len(Pairs(b)) = Len(b.ids)
         /\ Pairs([src |-> b.src, ids |-> Append(b.ids, id)]) = Append(Pairs(b), <<b.src, id>>)
  <1>1. /\ Len(b.ids) \in Nat /\ b.src \in Src /\ b.ids \in Seq(Id)
        /\ \A k \in 1 .. Len(b.ids) : b.ids[k] \in Id
    BY DEF Entry
  <1>2. Pairs(b) \in Seq(Src \X Id) /\ Len(Pairs(b)) = Len(b.ids)
    BY <1>1 DEF Pairs
  <1>3. Pairs([src |-> b.src, ids |-> Append(b.ids, id)]) = Append(Pairs(b), <<b.src, id>>)
    <2> DEFINE n == Len(b.ids)
               t == Append(b.ids, id)
               l == Pairs([src |-> b.src, ids |-> t])
               r == Append(Pairs(b), <<b.src, id>>)
    <2>1. n \in Nat /\ Len(t) = n + 1 /\ t[n + 1] = id /\ \A k \in 1 .. n : t[k] = b.ids[k]
      BY <1>1
    <2> HIDE DEF t
    <2>2. l = [k \in 1 .. n + 1 |-> <<b.src, t[k]>>]
      BY <2>1 DEF Pairs
    <2>3. Pairs(b) = [k \in 1 .. n |-> <<b.src, b.ids[k]>>]
      BY DEF Pairs
    <2>4. r = [k \in 1 .. n + 1 |-> IF k = n + 1 THEN <<b.src, id>> ELSE Pairs(b)[k]]
      BY <1>2, <2>1
    <2>5. \A k \in 1 .. n + 1 : <<b.src, t[k]>> = IF k = n + 1 THEN <<b.src, id>> ELSE Pairs(b)[k]
      BY <2>1, <2>3
    <2> HIDE DEF l, r
    <2>6. l = r
      BY <2>2, <2>4, <2>5
    <2> QED BY <2>6 DEF l, r, t
  <1> QED BY <1>2, <1>3

\* The parts of an add: the bucket of the source and the other ones, with the history.
LEMMA CacheAdds ==
  ASSUME CacheConstants, CacheInv, NEW src \in Src, NEW id \in Id, SeeNew(src, id)
  PROVE  CacheInv'
  <1> DEFINE p == <<src, id>>
             old == Cache!IdsOf(cache, src)
             new == Append(old, id)
             ids == Cache!Trim(new, CachePerSource)
             b0 == [src |-> src, ids |-> old]
             b1 == [src |-> src, ids |-> new]
             b == [src |-> src, ids |-> ids]
             rest == Cache!Others(cache, src)
             all == Append(rest, b)
             others == {i \in 1 .. Len(cache) : cache[i].src # src}
             kept == {i \in 1 .. Len(new) : i > Len(new) - CachePerSource}
             keptAll == {i \in 1 .. Len(all) : i > Len(all) - CacheSources}
  <1>0. /\ added \in Seq(Src \X Id) /\ p \in Src \X Id /\ added' = Append(added, p)
        /\ expired' = expired /\ expired \in 0 .. Len(added)
        /\ cache \in Seq(Entry) /\ cache' = Cache!Trim(all, CacheSources)
        /\ ~Cache!IsDuplicate(cache, src, id)
    BY DEF SeeNew, CacheInv, Cache!CheckAndAdd, Cache!Add
  <1>1. \A i, j \in 1 .. Len(cache) : cache[i].src = cache[j].src => i = j
    <2>1. SourcesIn(added) \in Seq(Src) /\ InOrder(SourcesIn(added), Names(cache))
      BY <1>0, SourcesSeq DEF CacheInv, LruOrder
    <2>2. /\ Len(Names(cache)) = Len(cache) /\ Len(cache) \in Nat
          /\ \A i \in 1 .. Len(cache) : Names(cache)[i] = cache[i].src
      BY <1>0 DEF Names
    <2> QED BY <2>1, <2>2, OrderedDistinct
  <1>2. /\ rest \in Seq(Entry) /\ Len(rest) <= Len(cache)
        /\ Selection(cache, others, Len(cache), rest)
        /\ \/ old = <<>> /\ \A i \in 1 .. Len(cache) : cache[i].src # src
           \/ \E i \in 1 .. Len(cache) : cache[i].src = src /\ old = cache[i].ids
    BY <1>0, <1>1, OthersFacts
  <1>3. /\ LruOrder(rest, added)
        /\ \A i \in 1 .. Len(rest) : \E j \in others : rest[i] = cache[j]
        /\ \A j \in others : \E i \in 1 .. Len(rest) : rest[i] = cache[j]
    <2>1. others \in SUBSET (1 .. Len(cache)) /\ LruOrder(cache, added)
      BY DEF CacheInv
    <2> HIDE DEF others, rest
    <2> QED BY <1>0, <1>2, <2>1, BucketsKept
  <1> HIDE DEF rest, old
  <1>4. /\ b0 \in Entry /\ Len(old) <= CachePerSource /\ Len(old) \in Nat
        /\ InOrder(added, Pairs(b0)) /\ \A i \in 1 .. Len(old) : old[i] # id
    <2>1. CASE old = <<>>
      BY <2>1 DEF Entry, CacheConstants, InOrder, Pairs
    <2>2. ASSUME NEW i \in 1 .. Len(cache), cache[i].src = src, old = cache[i].ids
          PROVE  <1>4!:
      <3>1. cache[i] \in Entry
        BY <1>0
      <3>2. b0 = cache[i]
        BY <2>2, <3>1 DEF Entry
      <3>3. /\ Len(old) <= CachePerSource /\ InOrder(added, Pairs(cache[i]))
        BY <2>2 DEF CacheInv, LruOrder
      <3>4. \A x \in 1 .. Len(old) : old[x] # id
        BY <1>0, <2>2 DEF Cache!IsDuplicate, Cache!HasItem
      <3>5. Len(old) \in Nat
        BY <2>2, <3>1 DEF Entry
      <3> QED BY <3>1, <3>2, <3>3, <3>4, <3>5
    <2> QED BY <1>2, <2>1, <2>2
  <1>5. /\ b1 \in Entry /\ Len(new) = Len(old) + 1 /\ new[Len(new)] = id
        /\ \A i \in 1 .. Len(old) : new[i] = old[i]
        /\ Pairs(b1) = Append(Pairs(b0), p) /\ InOrder(added', Pairs(b1))
    <2>1. old \in Seq(Id)
      BY <1>4 DEF Entry
    <2>2. /\ Pairs(b0) \in Seq(Src \X Id) /\ Len(Pairs(b0)) = Len(old)
          /\ Pairs(b1) = Append(Pairs(b0), p)
      BY <1>4, PairsSeq
    <2>3. \A i \in 1 .. Len(old) : Pairs(b0)[i] # p
      BY <1>4 DEF Pairs
    <2>4. InOrder(added', Pairs(b1))
      BY <1>0, <1>4, <2>2, <2>3, OrderAppend
    <2>5. /\ new \in Seq(Id) /\ Len(new) = Len(old) + 1 /\ new[Len(new)] = id
          /\ \A i \in 1 .. Len(old) : new[i] = old[i]
      BY <2>1
    <2>6. b1 \in Entry
      BY <2>5 DEF Entry
    <2> QED BY <2>2, <2>4, <2>5, <2>6
  <1>6. /\ b \in Entry /\ Len(ids) <= CachePerSource /\ InOrder(added', Pairs(b))
        /\ \A i \in kept : Cache!HasItem(ids, new[i])
        /\ \A i \in 1 .. Len(new) : i \in kept \/ (i = 1 /\ Len(new) = CachePerSource + 1)
    <2>1. new \in Seq(Id) /\ CachePerSource \in Nat /\ Len(new) <= CachePerSource + 1
      BY <1>4, <1>5 DEF Entry, CacheConstants
    <2>2. /\ ids \in Seq(Id) /\ Len(ids) <= CachePerSource /\ Selection(new, kept, Len(new), ids)
          /\ \A i \in 1 .. Len(new) : i \in kept \/ (i = 1 /\ Len(new) = CachePerSource + 1)
      BY <2>1, TrimFacts
    <2>3. b \in Entry /\ b.src = b1.src /\ b.ids = ids /\ b1.ids = new
      BY <2>2 DEF Entry
    <2>4. InOrder(added', Pairs(b)) /\ \A i \in kept : Cache!HasItem(ids, new[i])
      <3> HIDE DEF ids, b, b1, new
      <3>1. kept \in SUBSET (1 .. Len(new))
        OBVIOUS
      <3> HIDE DEF kept
      <3> QED BY <1>5, <2>2, <2>3, <3>1, IdsKept
    <2> QED BY <2>2, <2>3, <2>4
  <1> HIDE DEF ids, new, b, b0, b1, kept
  <1>7. /\ all \in Seq(Entry) /\ Len(all) = Len(rest) + 1 /\ all[Len(all)] = b
        /\ \A i \in 1 .. Len(rest) : all[i] = rest[i]
    BY <1>2, <1>6
  <1>8. LruOrder(all, added') /\ InOrder(SourcesIn(added'), Names(all))
    <2>1. \A i \in 1 .. Len(rest) : rest[i].src # src
      BY <1>3
    <2>2. InOrder(SourcesIn(added'), Names(all))
      <3>1. /\ Names(rest) \in Seq(Src) /\ Len(Names(rest)) = Len(rest)
            /\ Names(all) = Append(Names(rest), src)
        <4>1. b.src = src
          BY DEF b
        <4> QED BY <1>2, <1>6, <4>1, NamesSeq
      <3>2. /\ SourcesIn(added) \in Seq(Src)
            /\ SourcesIn(added') = Append(SourcesIn(added), src)
        BY <1>0, SourcesSeq
      <3>3. \A i \in 1 .. Len(rest) : Names(rest)[i] # src
        BY <2>1 DEF Names
      <3>4. InOrder(SourcesIn(added), Names(rest))
        BY <1>3 DEF LruOrder
      <3> QED BY <3>1, <3>2, <3>3, <3>4, OrderAppend
    <2>3. ASSUME NEW i \in 1 .. Len(all) PROVE InOrder(added', Pairs(all[i]))
      <3>1. CASE i \in 1 .. Len(rest)
        <4>1. all[i] = rest[i] /\ rest[i] \in Entry /\ rest[i].src # src
          BY <1>2, <1>7, <2>1, <3>1
        <4>2. /\ Pairs(rest[i]) \in Seq(Src \X Id) /\ Len(Pairs(rest[i])) = Len(rest[i].ids)
          BY <4>1, PairsSeq
        <4>3. \A x \in 1 .. Len(rest[i].ids) : Pairs(rest[i])[x] # p
          BY <4>1 DEF Pairs
        <4>4. InOrder(added, Pairs(rest[i]))
          BY <1>3, <3>1 DEF LruOrder
        <4> QED BY <1>0, <4>1, <4>2, <4>3, <4>4, OrderAppend
      <3>2. CASE i = Len(all)
        BY <1>6, <1>7, <3>2
      <3> QED BY <1>2, <1>7, <3>1, <3>2
    <2> QED BY <2>2, <2>3 DEF LruOrder
  <1> HIDE DEF all
  <1>9. /\ cache' \in Seq(Entry) /\ Len(cache') <= CacheSources
        /\ Selection(all, keptAll, Len(all), cache')
        /\ \A i \in 1 .. Len(all) : i \in keptAll \/ (i = 1 /\ Len(all) = CacheSources + 1)
    <2>1. CacheSources \in Nat /\ Len(all) <= CacheSources + 1
      BY <1>0, <1>2, <1>7 DEF CacheConstants, CacheInv
    <2> QED BY <1>0, <1>7, <2>1, TrimFacts
  <1>10. /\ LruOrder(cache', added')
         /\ \A i \in 1 .. Len(cache') : \E j \in keptAll : cache'[i] = all[j]
         /\ \A j \in keptAll : \E i \in 1 .. Len(cache') : cache'[i] = all[j]
    <2>1. keptAll \in SUBSET (1 .. Len(all))
      OBVIOUS
    <2>2. /\ all \in Seq(Entry) /\ LruOrder(all, added') /\ cache' \in Seq(Entry)
          /\ Selection(all, keptAll, Len(all), cache')
      BY <1>7, <1>8, <1>9
    <2> HIDE DEF keptAll
    <2> QED BY <2>1, <2>2, BucketsKept
  <1>11. \A i \in 1 .. Len(cache') : Len(cache'[i].ids) <= CachePerSource
    <2>1. \A i \in 1 .. Len(rest) : Len(rest[i].ids) <= CachePerSource
      BY <1>3 DEF CacheInv
    <2>2. b.ids = ids
      BY DEF b
    <2>3. \A i \in 1 .. Len(all) : Len(all[i].ids) <= CachePerSource
      BY <1>2, <1>6, <1>7, <2>1, <2>2
    <2> QED BY <1>10, <2>3
  <1>12. Cache!IsDuplicate(cache', src, id)
    <2>1. Len(all) \in keptAll /\ Len(new) \in kept
      BY <1>2, <1>4, <1>5, <1>7 DEF CacheConstants, kept
    <2>2. PICK i \in 1 .. Len(cache') : cache'[i] = b
      BY <1>7, <1>10, <2>1
    <2>3. b.src = src /\ b.ids = ids
      BY DEF b
    <2>4. Cache!HasItem(ids, id)
      BY <1>5, <1>6, <2>1
    <2> QED BY <2>2, <2>3, <2>4 DEF Cache!IsDuplicate
  <1>13. ASSUME NEW k \in expired' + 1 .. Len(added'),
                SameAfter(k)' < CachePerSource, SourcesAfter(k)' < CacheSources
         PROVE  Cache!IsDuplicate(cache', added'[k][1], added'[k][2])
    <2>1. /\ Len(added) \in Nat /\ Len(added') = Len(added) + 1 /\ added'[Len(added')] = p
          /\ k \in 1 .. Len(added')
      BY <1>0
    <2>2. CASE k = Len(added')
      BY <1>12, <2>1, <2>2
    <2>3. CASE k # Len(added')
      <3>1. k \in expired + 1 .. Len(added) /\ k \in 1 .. Len(added)
        BY <1>0, <2>1, <2>3
      <3> DEFINE s == added[k][1]
                 m == added[k][2]
      <3>2. /\ added'[k] = added[k] /\ s \in Src /\ m \in Id /\ added[k] = <<s, m>>
            /\ SameAfter(k) < CachePerSource /\ SourcesAfter(k) < CacheSources
            /\ SameAfter(k)' \in Nat /\ SourcesAfter(k)' \in Nat
        BY <1>0, <1>13, <3>1, NewerGrows, SMTT(30) DEF CacheConstants
      <3>3. Cache!IsDuplicate(cache, s, m)
        BY <3>1, <3>2 DEF CacheInv, CacheRemembers
      <3> HIDE DEF s, m
      <3>4. PICK x \in 1 .. Len(cache) : cache[x].src = s /\ Cache!HasItem(cache[x].ids, m)
        BY <3>3 DEF Cache!IsDuplicate
      <3>5. CASE s = src
        <4>1. old = cache[x].ids
          BY <1>1, <1>2, <3>4, <3>5
        <4>2. PICK y \in 1 .. Len(old) : old[y] = m
          BY <3>4, <4>1 DEF Cache!HasItem
        <4>3. y \in 1 .. Len(new) /\ new[y] = m
          BY <1>4, <1>5, <4>2
        <4>4. CASE y \in kept
          <5>1. Cache!HasItem(ids, m) /\ b.src = src /\ b.ids = ids
            BY <1>6, <4>3, <4>4 DEF b
          <5>2. PICK i \in 1 .. Len(cache') : cache'[i] = b
            <6>1. Len(all) \in keptAll
              BY <1>2, <1>7 DEF CacheConstants
            <6> QED BY <1>7, <1>10, <6>1
          <5> QED BY <3>2, <3>5, <5>1, <5>2 DEF Cache!IsDuplicate
        <4>5. CASE y = 1 /\ Len(new) = CachePerSource + 1
          <5> DEFINE T == {q \in Src \X Id : q[1] = src}
          <5>1. /\ Pairs(b1) \in Seq(Src \X Id) /\ Len(Pairs(b1)) = CachePerSource + 1
                /\ Pairs(b1)[1] = added'[k]
                /\ \A i \in 1 .. Len(Pairs(b1)) : Pairs(b1)[i] \in T
            <6>1. Pairs(b1) \in Seq(Src \X Id) /\ Len(Pairs(b1)) = Len(new) /\ Len(new) \in Nat
              <7>1. b1.ids = new
                BY DEF b1
              <7>2. Len(new) \in Nat
                BY <1>4, <1>5
              <7> QED BY <1>5, <7>1, <7>2, PairsSeq
            <6>2. /\ \A i \in 1 .. Len(new) : Pairs(b1)[i] = <<src, new[i]>>
              BY DEF b1, Pairs
            <6>3. \A i \in 1 .. Len(new) : Pairs(b1)[i] \in Src \X Id
              BY <6>1, ElementOfSeq
            <6>4. Len(new) = CachePerSource + 1 /\ 1 \in 1 .. Len(new) /\ new[1] = m
              BY <4>3, <4>5
            <6>5. Pairs(b1)[1] = added'[k]
              BY <3>2, <3>5, <6>2, <6>4
            <6>6. \A i \in 1 .. Len(new) : Pairs(b1)[i] \in T
              BY <6>2, <6>3
            <6> QED BY <6>1, <6>4, <6>5, <6>6
          <5>2. Len(Pairs(b1)) - 1 <= Cardinality({j \in k + 1 .. Len(added') : added'[j] \in T})
            <6> DEFINE q == Pairs(b1)
            <6>1. /\ added' \in Seq(Src \X Id) /\ k \in 1 .. Len(added')
                  /\ q \in Seq(Src \X Id) /\ q # <<>> /\ added'[k] = q[1]
              BY <1>0, <2>1, <5>1 DEF CacheConstants
            <6>2. InOrder(added', q) /\ \A i \in 1 .. Len(q) : q[i] \in T
              BY <1>5, <5>1
            <6> HIDE DEF q, T
            <6>3. Len(q) - 1 <= Cardinality({j \in k + 1 .. Len(added') : added'[j] \in T})
              BY <6>1, <6>2, PositionsAfter
            <6> QED BY <6>3 DEF q
          <5>3. SameAfter(k)' = Cardinality({j \in k + 1 .. Len(added') : added'[j] \in T})
            <6>1. \A j \in k + 1 .. Len(added') : added'[j] \in Src \X Id
              BY <1>0, <2>1, ElementOfSeq
            <6>2. added'[k][1] = src
              BY <3>2, <3>5
            <6> QED BY <6>1, <6>2 DEF SameAfter
          <5> QED BY <1>13, <3>2, <5>1, <5>2, <5>3 DEF CacheConstants
        <4> QED BY <1>6, <4>3, <4>4, <4>5
      <3>6. CASE s # src
        <4>1. PICK y \in 1 .. Len(rest) : rest[y] = cache[x]
          BY <1>3, <3>4, <3>6
        <4>2. y \in 1 .. Len(all) /\ all[y] = cache[x]
          BY <1>2, <1>7, <4>1
        <4>3. CASE y \in keptAll
          <5>1. PICK i \in 1 .. Len(cache') : cache'[i] = all[y]
            BY <1>10, <4>3
          <5>2. cache'[i].src = s /\ Cache!HasItem(cache'[i].ids, m)
            BY <3>4, <4>2, <5>1
          <5>3. added'[k][1] = s /\ added'[k][2] = m
            BY <3>2
          <5> QED BY <5>2, <5>3 DEF Cache!IsDuplicate
        <4>4. CASE y = 1 /\ Len(all) = CacheSources + 1
          <5> DEFINE B == SourcesIn(added')
          <5>1. /\ Names(all) \in Seq(Src) /\ Len(Names(all)) = CacheSources + 1
                /\ Names(all)[1] = s
            <6>1. /\ Names(all) \in Seq(Src) /\ Len(Names(all)) = Len(all)
                  /\ Len(all) \in Nat
              BY <1>7, <1>6, NamesSeq
            <6>2. Names(all)[1] = all[1].src
              BY <4>2, <4>4 DEF Names
            <6> QED BY <3>4, <4>2, <4>4, <6>1, <6>2
          <5>2. /\ B \in Seq(Src) /\ Len(B) = Len(added') /\ B[k] = s
                /\ \A j \in 1 .. Len(B) : B[j] = added'[j][1]
            <6>1. added' \in Seq(Src \X Id) /\ p \in Src \X Id
              BY <1>0
            <6>2. B \in Seq(Src) /\ Len(B) = Len(added')
              BY <6>1, SourcesSeq
            <6>3. \A j \in 1 .. Len(added') : B[j] = added'[j][1]
              BY DEF SourcesIn
            <6> QED BY <2>1, <3>2, <6>2, <6>3
          <5> HIDE DEF B
          <5>3. Len(Names(all)) - 1 <= Cardinality({B[j] : j \in k + 1 .. Len(B)} \ {B[k]})
            <6>1. InOrder(B, Names(all)) /\ Names(all) # <<>> /\ k \in 1 .. Len(B)
              BY <1>8, <2>1, <5>1, <5>2 DEF B, CacheConstants
            <6> QED BY <5>1, <5>2, <6>1, ValuesAfter
          <5>4. SourcesAfter(k)' = Cardinality({B[j] : j \in k + 1 .. Len(B)} \ {B[k]})
            <6>1. \A j \in k + 1 .. Len(B) : j \in 1 .. Len(B)
              BY <2>1
            <6>2. {B[j] : j \in k + 1 .. Len(B)} = {added'[j][1] : j \in k + 1 .. Len(added')}
              BY <5>2, <6>1
            <6> QED BY <2>1, <5>2, <6>2 DEF SourcesAfter
          <5> QED BY <1>13, <3>2, <5>1, <5>3, <5>4 DEF CacheConstants
        <4> QED BY <1>9, <4>2, <4>3, <4>4
      <3> QED BY <3>5, <3>6
    <2> QED BY <2>2, <2>3
  <1> QED
    <2>1. added' \in Seq(Src \X Id) /\ expired' \in 0 .. Len(added')
      BY <1>0
    <2> QED BY <1>9, <1>10, <1>11, <1>13, <2>1 DEF CacheInv, CacheRemembers

\* What is past its ttl goes, and the rest stays in its order.
LEMMA CacheExpires ==
  ASSUME CacheConstants, CacheInv, NEW k, Expire(k)
  PROVE  CacheInv'
  <1> DEFINE old == {added[i] : i \in 1 .. k} \ {added[i] : i \in k + 1 .. Len(added)}
             Live(b) == {i \in 1 .. Len(b.ids) : <<b.src, b.ids[i]>> \notin old}
             rest == [j \in 1 .. Len(cache) |->
                        [cache[j] EXCEPT !.ids = Cache!Kept(cache[j].ids, Live(cache[j]))]]
             I == {j \in 1 .. Len(rest) : rest[j].ids # <<>>}
  <1>0. /\ added \in Seq(Src \X Id) /\ added' = added /\ expired' = k
        /\ k \in Nat /\ expired < k /\ k <= Len(added) /\ expired \in Nat
        /\ cache \in Seq(Entry) /\ Len(cache) \in Nat /\ cache' = Cache!Kept(rest, I)
    BY DEF Expire, CacheInv, Cache!CleanupExpired
  <1>1. ASSUME NEW j \in 1 .. Len(cache)
        PROVE  /\ rest[j] \in Entry /\ rest[j].src = cache[j].src
               /\ InOrder(added, Pairs(rest[j])) /\ Len(rest[j].ids) <= CachePerSource
               /\ \A i \in 1 .. Len(cache[j].ids) :
                    <<cache[j].src, cache[j].ids[i]>> \notin old =>
                      Cache!HasItem(rest[j].ids, cache[j].ids[i])
    <2> DEFINE b == cache[j]
               L == Live(b)
               r == Cache!Kept(b.ids, L)
    <2>1. b \in Entry /\ b.ids \in Seq(Id) /\ b.src \in Src /\ Len(b.ids) \in Nat
      <3>1. cache[j] \in Entry
        BY <1>0
      <3> HIDE DEF rest, L
      <3> QED BY <3>1 DEF Entry
    <2>2. L \in SUBSET (1 .. Len(b.ids))
      OBVIOUS
    <2>3. rest[j] = [b EXCEPT !.ids = r]
      OBVIOUS
    <2>4. InOrder(added, Pairs(b)) /\ Len(b.ids) <= CachePerSource
      BY DEF CacheInv, LruOrder
    <2>5. \A i \in 1 .. Len(b.ids) : <<b.src, b.ids[i]>> \notin old => i \in L
      OBVIOUS
    <2> HIDE DEF rest, L, b, old
    <2>6. r \in Seq(Id) /\ Selection(b.ids, L, Len(b.ids), r)
      BY <2>1, <2>2, KeptFacts
    <2> HIDE DEF r
    <2> DEFINE c == rest[j]
    <2>7. c \in Entry /\ c.src = b.src /\ c.ids = r
      BY <2>1, <2>3, <2>6 DEF Entry
    <2> HIDE DEF c
    <2>8. /\ InOrder(added, Pairs(c)) /\ Len(c.ids) <= Len(b.ids)
          /\ \A i \in L : Cache!HasItem(c.ids, b.ids[i])
      BY <2>1, <2>2, <2>4, <2>6, <2>7, IdsKept
    <2>9. Len(c.ids) \in Nat
      BY <2>6, <2>7
    <2> QED BY <2>1, <2>4, <2>5, <2>7, <2>8, <2>9 DEF c, b, CacheConstants
  <1>2. rest \in Seq(Entry) /\ Len(rest) = Len(cache) /\ I \in SUBSET (1 .. Len(rest))
    <2>1. Len(rest) = Len(cache)
      BY <1>0
    <2>2. \A j \in 1 .. Len(cache) : rest[j] \in Entry
      BY <1>1
    <2>3. rest = [j \in 1 .. Len(cache) |-> rest[j]]
      OBVIOUS
    <2> HIDE DEF rest
    <2> QED BY <1>0, <2>1, <2>2, <2>3
  <1>3. \A i \in 1 .. Len(rest) : rest[i].ids # <<>> => i \in I
    OBVIOUS
  <1> HIDE DEF rest, I, old
  <1>4. cache' \in Seq(Entry) /\ Selection(rest, I, Len(rest), cache')
    BY <1>0, <1>2, KeptFacts
  <1>5. LruOrder(rest, added)
    <2>1. Names(rest) = Names(cache)
      BY <1>1, <1>2 DEF Names
    <2>2. InOrder(SourcesIn(added), Names(cache))
      BY DEF CacheInv, LruOrder
    <2> QED BY <1>1, <1>2, <2>1, <2>2 DEF LruOrder
  <1>6. /\ LruOrder(cache', added) /\ Len(cache') <= Len(cache)
        /\ \A i \in 1 .. Len(cache') : \E j \in I : cache'[i] = rest[j]
        /\ \A j \in I : \E i \in 1 .. Len(cache') : cache'[i] = rest[j]
    <2>1. Len(cache') <= Len(rest)
      BY <1>2, <1>4, SelectionLength
    <2>2. /\ LruOrder(cache', added)
          /\ \A i \in 1 .. Len(cache') : \E j \in I : cache'[i] = rest[j]
          /\ \A j \in I : \E i \in 1 .. Len(cache') : cache'[i] = rest[j]
      BY <1>2, <1>4, <1>5, BucketsKept
    <2> QED BY <1>2, <2>1, <2>2
  <1>7. Len(cache') <= CacheSources /\ \A i \in 1 .. Len(cache') : Len(cache'[i].ids) <= CachePerSource
    <2>1. Len(cache) <= CacheSources /\ Len(cache') \in Nat
      BY <1>4 DEF CacheInv
    <2>2. \A j \in I : Len(rest[j].ids) <= CachePerSource
      BY <1>1, <1>2
    <2> QED BY <1>0, <1>6, <2>1, <2>2 DEF CacheConstants
  <1>8. CacheRemembers'
    <2> SUFFICES ASSUME NEW x \in k + 1 .. Len(added),
                        SameAfter(x) < CachePerSource, SourcesAfter(x) < CacheSources
                 PROVE  Cache!IsDuplicate(cache', added[x][1], added[x][2])
      BY <1>0 DEF CacheRemembers, SameAfter, SourcesAfter
    <2>1. x \in 1 .. Len(added) /\ x \in expired + 1 .. Len(added)
      BY <1>0
    <2>2. added[x] = <<added[x][1], added[x][2]>> /\ added[x] \notin old
      BY <1>0, <2>1 DEF old
    <2>3. Cache!IsDuplicate(cache, added[x][1], added[x][2])
      BY <2>1 DEF CacheInv, CacheRemembers
    <2>4. PICK j \in 1 .. Len(cache) :
            cache[j].src = added[x][1] /\ Cache!HasItem(cache[j].ids, added[x][2])
      BY <2>3 DEF Cache!IsDuplicate
    <2>5. PICK i \in 1 .. Len(cache[j].ids) : cache[j].ids[i] = added[x][2]
      BY <2>4 DEF Cache!HasItem
    <2>6. rest[j].src = added[x][1] /\ Cache!HasItem(rest[j].ids, added[x][2])
      BY <1>1, <2>2, <2>4, <2>5
    <2>7. j \in I
      <3>1. rest[j].ids # <<>>
        BY <2>6 DEF Cache!HasItem
      <3> QED BY <1>2, <1>3, <3>1
    <2>8. PICK y \in 1 .. Len(cache') : cache'[y] = rest[j]
      BY <1>6, <2>7
    <2> QED BY <2>6, <2>8 DEF Cache!IsDuplicate
  <1>9. LruOrder(cache', added') /\ added' \in Seq(Src \X Id) /\ expired' \in 0 .. Len(added')
    BY <1>0, <1>6
  <1> QED BY <1>4, <1>7, <1>8, <1>9 DEF CacheInv

LEMMA CacheStarts == CacheConstants /\ CacheInit => CacheInv
  BY DEF CacheConstants, CacheInit, CacheInv, Cache!EmptyCache, CacheRemembers, LruOrder,
         InOrder, Names, SourcesIn

LEMMA CacheSteps == CacheConstants /\ CacheInv /\ [CacheNext]_cacheVars => CacheInv'
  <1> SUFFICES ASSUME CacheConstants, CacheInv, [CacheNext]_cacheVars PROVE CacheInv'
    OBVIOUS
  <1>1. ASSUME UNCHANGED cacheVars PROVE CacheInv'
    <2>1. cache' = cache /\ added' = added /\ expired' = expired
      BY <1>1 DEF cacheVars
    <2>2. \A k : SameAfter(k)' = SameAfter(k) /\ SourcesAfter(k)' = SourcesAfter(k)
      BY <2>1 DEF SameAfter, SourcesAfter
    <2>3. CacheRemembers'
      BY <2>1, <2>2 DEF CacheInv, CacheRemembers
    <2> QED BY <2>1, <2>3 DEF CacheInv
  <1>2. ASSUME NEW s \in Src, NEW i \in Id, SeeAgain(s, i) PROVE CacheInv'
    BY <1>1, <1>2 DEF SeeAgain, Cache!CheckAndAdd, cacheVars
  <1> QED BY <1>1, <1>2, CacheAdds, CacheExpires DEF CacheNext

\* mesh.py, DedupCache: whatever arrives and however often entries are aged out, a pair
\* is forgotten only for its age, or after per_source_max newer ids of its own source,
\* or after sources_max other sources.
THEOREM RemembersWithinBounds ==
  ASSUME CacheConstants PROVE CacheSpec => []CacheRemembers
  <1>1. CacheInv => CacheRemembers
    BY DEF CacheInv
  <1> QED BY <1>1, CacheStarts, CacheSteps, PTL DEF CacheSpec
=============================================================================
