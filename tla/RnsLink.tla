------------------------------ MODULE RnsLink ------------------------------
(***************************************************************************)
(* The RNSLinkAdapters of one daemon and the byte budget they share        *)
(* (reticulum_transport.py).  Three kinds of thread meet on an adapter:    *)
(* the RNS thread that delivers data (it holds _buf_lock from its first    *)
(* check to its last), the RNS thread that reports the link closed (it     *)
(* takes no _buf_lock), and the asyncio loop that consumes and closes.     *)
(* Bytes are counted, never looked at; what a length prefix says is a      *)
(* free choice of the peer.                                                *)
(***************************************************************************)
EXTENDS Integers, Sequences, SequencesExt, FiniteSets, FiniteSetsExt

CONSTANTS
    Link,
    Identity,       \* the remote RNS identity behind each link
    Anonymous,      \* the bucket of each link until its remote has identified
    MaxPeer,        \* MAX_PEER_BUFFERED_BYTES
    MaxIdentity,    \* MAX_IDENTITY_BUFFERED_BYTES
    MaxMsg,         \* MAX_RNS_MSG
    Header,         \* the length prefix
    Chunk,          \* sizes of what RNS hands over at once
    MaxArrivals     \* bound: chunks and resources

VARIABLES
    link,           \* adapter state, see Fresh
    queue,          \* scheduled puts and the receive queue, one FIFO
    bucket,         \* _identity_buffered, 0 for an absent entry
    overtaken       \* history: links closed while their data callback ran

linkVars == <<link, queue, bucket, overtaken>>

Key == {Identity[l] : l \in Link} \cup {Anonymous[l] : l \in Link}
NoKey == "none"
ASSUME NoKeyAssumption == NoKey \notin Key

\* Entries of "queue" that are no message: the sentinel that ends recv(), and
\* a scheduled _drain_and_close.
Sentinel == 0
DrainMark == -1

\* "thread" is where the data thread stands inside the locked section, "use"
\* what the daemon's connection handler does with the adapter.
Fresh == [up |-> FALSE, closed |-> FALSE, known |-> FALSE, buf |-> 0, pend |-> 0,
          key |-> NoKey, charged |-> 0, thread |-> "idle", chunk |-> 0,
          put |-> 0, use |-> "none", taken |-> 0, arrivals |-> 0]

Init ==
    /\ link = [l \in Link |-> Fresh]
    /\ queue = [l \in Link |-> <<>>]
    /\ bucket = [k \in Key |-> 0]
    /\ overtaken = {}

-----------------------------------------------------------------------------
\* _aggregate_key
AggregateKey(l) == IF link[l].known THEN Identity[l] ELSE Anonymous[l]

\* _bucket_adjust: an entry that falls to zero or below is dropped.
Adjusted(b, k, delta) == [b EXCEPT ![k] = IF @ + delta > 0 THEN @ + delta ELSE 0]

\* _charge_identity_budget, its migration of an earlier charge included.
MigratedByCopy(l) ==
    IF link[l].key \notin {NoKey, AggregateKey(l)} /\ link[l].charged # 0
      THEN Adjusted(bucket, AggregateKey(l), link[l].charged)
      ELSE bucket

Migrated(l) ==
    IF link[l].key \notin {NoKey, AggregateKey(l)} /\ link[l].charged # 0
      THEN Adjusted(Adjusted(bucket, link[l].key, -link[l].charged),
                    AggregateKey(l), link[l].charged)
      ELSE bucket

Fits(l) == Migrated(l)[AggregateKey(l)] + link[l].chunk <= MaxIdentity

\* _release_identity_budget: clamped to what this adapter has charged.
Clamped(a, n) == IF n < a.charged THEN n ELSE a.charged
Released(b, a, n) ==
    IF a.key = NoKey THEN b ELSE Adjusted(b, a.key, -Clamped(a, n))
AfterRelease(a, n) ==
    [a EXCEPT !.charged = @ - Clamped(a, n),
              !.key = IF a.charged = Clamped(a, n) THEN NoKey ELSE @]

\* The sum of the values of f: how many units they are made of.
Units(f) == UNION {{i} \X (1 .. f[i]) : i \in DOMAIN f}
Total(f) == Cardinality(Units(f))

\* What l has charged to k.
ChargedTo(l, k) == IF link[l].key = k THEN link[l].charged ELSE 0

\* _release_identity_budget_all
FreedAll(b, a) == Released(b, a, a.charged)
HoldsNothing(a) == [a EXCEPT !.charged = 0, !.key = NoKey]

Locked(l) == link[l].thread # "idle"

\* call_soon_threadsafe(put_nowait, ...).  What nobody will take any more is
\* left out: the queue of a link without a reader is garbage.
Put(l, items) == IF link[l].use = "loop" THEN queue[l] \o items ELSE <<>>

Arrivals == FoldSet(LAMBDA l, s : s + link[l].arrivals, 0, Link)

-----------------------------------------------------------------------------
\* _on_incoming_link or a successful connect_to_destination.  The remote may
\* have identified before the callback is attached.  A connection over the rate
\* limit is left by _handle_connection before its try block: nothing will ever
\* consume from that adapter or close it.
Open(l, known, use) ==
    /\ link[l] = Fresh
    /\ link' = [link EXCEPT ![l] = [@ EXCEPT !.up = TRUE, !.known = known, !.use = use]]
    /\ UNCHANGED <<queue, bucket, overtaken>>

\* _on_remote_identified
Identify(l) ==
    /\ link[l].up /\ ~link[l].known
    /\ link' = [link EXCEPT ![l].known = TRUE]
    /\ UNCHANGED <<queue, bucket, overtaken>>

-----------------------------------------------------------------------------
(* The data thread: _on_data_ready and _on_resource_concluded.             *)

\* The shared teardown of a tripped cap (_free_buffers_and_close).  The RNS
\* link's closed callback fires inside teardown().
FreeBuffersAndClose(l) ==
    /\ link' = [link EXCEPT ![l] =
                  [HoldsNothing(@) EXCEPT !.buf = 0, !.pend = 0, !.closed = TRUE,
                                          !.up = FALSE, !.thread = "idle", !.chunk = 0]]
    /\ bucket' = FreedAll(bucket, link[l])
    /\ queue' = [queue EXCEPT ![l] =
                   Put(l, IF link[l].up THEN <<Sentinel, DrainMark>> ELSE <<DrainMark>>)]
    /\ UNCHANGED overtaken

\* Up to the per-link cap, which trips at once.
Arrive(l, n, kind) ==
    LET a == link[l] IN
    /\ a.up /\ ~a.closed /\ ~Locked(l) /\ Arrivals < MaxArrivals
    /\ IF a.buf + a.pend + n > MaxPeer
         THEN FreeBuffersAndClose(l)
         ELSE /\ link' = [link EXCEPT ![l] = [a EXCEPT !.thread = kind, !.chunk = n,
                                                       !.arrivals = a.arrivals + 1]]
              /\ UNCHANGED <<queue, bucket, overtaken>>

\* The check-and-reserve under the registry's lock.
Charge(l) ==
    LET a == link[l] IN
    /\ a.thread \in {"stream", "resource"}
    /\ bucket' = IF Fits(l) THEN Adjusted(Migrated(l), AggregateKey(l), a.chunk)
                            ELSE Migrated(l)
    /\ link' = [link EXCEPT ![l] =
                  [a EXCEPT !.key = AggregateKey(l),
                            !.charged = IF Fits(l) THEN a.charged + a.chunk ELSE a.charged,
                            !.thread = IF ~Fits(l) THEN "trip"
                                       ELSE IF a.thread = "stream" THEN "deframe" ELSE "account"]]
    /\ UNCHANGED <<queue, overtaken>>

\* _trip_identity_cap
TripIdentityCap(l) ==
    /\ link[l].thread = "trip"
    /\ FreeBuffersAndClose(l)

\* What deframing b buffered bytes can give: complete messages in order, and
\* what stays; a bad length clears the buffer.
Deframings(b) ==
    {d \in [msgs : BoundedSeq(1..MaxMsg, b \div (Header + 1)), rest : 0..b] :
        LET used == Total(d.msgs) + Header * Len(d.msgs) IN
        \/ used + d.rest = b
        \/ used + Header <= b /\ d.rest = 0}

\* The stream path after the charge: append, deframe, and give back the surplus
\* of the charge over what is still held.
Deframe(l) ==
    LET a == link[l] IN
    /\ a.thread = "deframe"
    /\ \E d \in Deframings(a.buf + a.chunk) :
         LET pend == a.pend + Total(d.msgs)
             surplus == a.charged - (d.rest + pend)
             held == [a EXCEPT !.buf = d.rest, !.pend = pend, !.thread = "idle", !.chunk = 0]
         IN /\ link' = [link EXCEPT ![l] =
                          IF surplus > 0 THEN AfterRelease(held, surplus) ELSE held]
            /\ bucket' = IF surplus > 0 THEN Released(bucket, held, surplus) ELSE bucket
            /\ queue' = [queue EXCEPT ![l] = Put(l, d.msgs)]
    /\ UNCHANGED overtaken

\* The resource path after the charge; the payload is put once the lock is free.
Account(l) ==
    LET a == link[l] IN
    /\ a.thread = "account" /\ a.put = 0
    /\ link' = [link EXCEPT ![l] = [a EXCEPT !.pend = a.pend + a.chunk, !.put = a.chunk,
                                             !.thread = "idle", !.chunk = 0]]
    /\ UNCHANGED <<queue, bucket, overtaken>>

PutResource(l) ==
    /\ link[l].put # 0
    /\ link' = [link EXCEPT ![l].put = 0]
    /\ queue' = [queue EXCEPT ![l] = Put(l, <<link[l].put>>)]
    /\ UNCHANGED <<bucket, overtaken>>

-----------------------------------------------------------------------------
(* The closing thread and the loop.                                        *)

\* What _on_link_closed leaves behind.
LinkGone(a) == [HoldsNothing(a) EXCEPT !.closed = TRUE, !.up = FALSE]

\* _on_link_closed, for a link that died at the other end or in between.
LinkClosed(l) ==
    /\ link[l].up
    /\ link' = [link EXCEPT ![l] = LinkGone(@)]
    /\ bucket' = FreedAll(bucket, link[l])
    /\ queue' = [queue EXCEPT ![l] = Put(l, <<Sentinel>>)]
    /\ overtaken' = IF Locked(l) THEN overtaken \cup {l} ELSE overtaken

\* recv: the queue first, the accounting once the lock is free.  The sentinel
\* ends the connection handler's loop.
Recv(l) ==
    /\ link[l].use = "loop" /\ link[l].taken = 0
    /\ queue[l] # <<>> /\ Head(queue[l]) # DrainMark
    /\ link' = [link EXCEPT ![l] = IF Head(queue[l]) = Sentinel
                                     THEN [@ EXCEPT !.use = "leaving"]
                                     ELSE [@ EXCEPT !.taken = Head(queue[l])]]
    /\ queue' = [queue EXCEPT ![l] = IF Head(@) = Sentinel THEN <<>> ELSE Tail(@)]
    /\ UNCHANGED <<bucket, overtaken>>

RecvAccounts(l) ==
    LET a == link[l]
        left == IF a.pend > a.taken THEN a.pend - a.taken ELSE 0 IN
    /\ a.taken # 0 /\ ~Locked(l)
    /\ link' = [link EXCEPT ![l] = [AfterRelease(a, a.taken) EXCEPT !.pend = left, !.taken = 0]]
    /\ bucket' = Released(bucket, a, a.taken)
    /\ UNCHANGED <<queue, overtaken>>

\* _drain_and_close runs on the loop: everything scheduled before it is gone.
DrainAndClose(l) ==
    /\ \E i \in 1 .. Len(queue[l]) :
         /\ queue[l][i] = DrainMark
         /\ \A j \in 1 .. i - 1 : queue[l][j] # DrainMark
         /\ queue' = [queue EXCEPT ![l] = <<Sentinel>> \o SubSeq(@, i + 1, Len(@))]
    /\ UNCHANGED <<link, bucket, overtaken>>

\* The handler fails, is replaced, or has met the sentinel: close().
Close(l) ==
    /\ link[l].use \in {"loop", "leaving"} /\ link[l].taken = 0
    /\ link' = [link EXCEPT ![l] = [LinkGone(@) EXCEPT !.use = "none"]]
    /\ bucket' = FreedAll(bucket, link[l])
    /\ queue' = [queue EXCEPT ![l] = <<>>]
    /\ overtaken' = IF Locked(l) THEN overtaken \cup {l} ELSE overtaken

\* shutdown tears down every registered adapter; the closed callbacks do the
\* rest.  Only closed adapters leave the registry earlier (_stats_loop).  A link
\* that comes in afterwards is accepted as before.
Shutdown ==
    LET torn == {l \in Link : link[l].up} IN
    /\ torn # {}
    /\ link' = [l \in Link |-> IF l \in torn THEN LinkGone(link[l]) ELSE link[l]]
    /\ bucket' = [k \in Key |->
                    LET freed == Total([l \in torn |-> ChargedTo(l, k)])
                    IN  IF bucket[k] > freed THEN bucket[k] - freed ELSE 0]
    /\ queue' = [l \in Link |-> IF l \in torn THEN Put(l, <<Sentinel>>) ELSE queue[l]]
    /\ overtaken' = overtaken \cup {l \in torn : Locked(l)}

Next ==
    \/ \E l \in Link :
         \/ \E known \in BOOLEAN, use \in {"loop", "refused"} : Open(l, known, use)
         \/ Identify(l)
         \/ \E n \in Chunk, kind \in {"stream", "resource"} : Arrive(l, n, kind)
         \/ Charge(l) \/ TripIdentityCap(l) \/ Deframe(l)
         \/ Account(l) \/ PutResource(l)
         \/ LinkClosed(l) \/ Recv(l) \/ RecvAccounts(l) \/ DrainAndClose(l) \/ Close(l)
    \/ Shutdown

Spec == Init /\ [][Next]_linkVars

-----------------------------------------------------------------------------
\* Every bucket is the sum of what the adapters have charged to it, whichever
\* of them migrated, released or tripped last; and between two operations an
\* open adapter has charged exactly what it holds, a closed one nothing, unless
\* the close overtook a data callback ("_agg_charged == len(_recv_buf) +
\* _pending_bytes after every completed ingress/consume operation").
ChargesExact ==
    /\ \A k \in Key : bucket[k] = Total([l \in Link |-> ChargedTo(l, k)])
    /\ \A l \in Link :
         /\ link[l].key = NoKey => link[l].charged = 0
         /\ ~Locked(l) /\ l \notin overtaken =>
              link[l].charged = IF link[l].closed THEN 0 ELSE link[l].buf + link[l].pend

\* No identity holds more than MAX_IDENTITY_BUFFERED_BYTES, however many links
\* it spreads its bytes over and whenever it identifies: a charge that migrates
\* into a full bucket is given back before the data thread leaves the adapter.
IdentityCapHolds ==
    \A k \in Key :
        bucket[k] > MaxIdentity => \E l \in Link : link[l].thread = "trip" /\ link[l].key = k

\* _bucket_adjust: "a fully-drained mesh leaves it empty".
DrainedLeavesEmpty ==
    (\A l \in Link : link[l].closed /\ ~Locked(l) /\ link[l].use = "none") =>
        \A k \in Key : bucket[k] = 0
=============================================================================
