------------------------------- MODULE Dedup -------------------------------
(***************************************************************************)
(* The per-source sharded cache of seen messages (mesh.py, DedupCache) as  *)
(* operators on its contents: a sequence of buckets, the source that was   *)
(* added to longest ago first, each with its message ids, oldest first.    *)
(* Every method holds the cache's lock throughout, so each is one step.    *)
(***************************************************************************)
EXTENDS Naturals, Sequences

CONSTANTS
    SourcesMax,     \* sources_max
    PerSourceMax    \* per_source_max

ASSUME CacheAssumption == SourcesMax \in Nat \ {0} /\ PerSourceMax \in Nat \ {0}

EmptyCache == <<>>

\* The last k elements, what popping from the front leaves.
Newest(s, k) == SubSeq(s, Len(s) - k + 1, Len(s))
Trim(s, k) == IF Len(s) > k THEN Newest(s, k) ELSE s
HasItem(s, e) == \E i \in 1 .. Len(s) : s[i] = e

\* is_duplicate
IsDuplicate(cache, src, id) ==
    \E i \in 1 .. Len(cache) : cache[i].src = src /\ HasItem(cache[i].ids, id)

\* Where the bucket of src is, 0 when there is none; its ids; the other buckets.
BucketOf(cache, src) ==
    LET own == {i \in 1 .. Len(cache) : cache[i].src = src}
    IN  IF own = {} THEN 0 ELSE CHOOSE i \in own : TRUE
IdsOf(cache, src) == LET i == BucketOf(cache, src) IN IF i = 0 THEN <<>> ELSE cache[i].ids
Others(cache, src) ==
    LET i == BucketOf(cache, src)
    IN  IF i = 0 THEN cache
        ELSE [j \in 1 .. Len(cache) - 1 |-> cache[IF j < i THEN j ELSE j + 1]]

\* _add_locked: the bucket moves to the newest end, the id goes to the end of
\* it; then the bucket and the list of sources are trimmed from the old end.
AddEvictsNewest(cache, src, id) ==
    LET old == IdsOf(cache, src)
        bucket == [src |-> src, ids |-> IF Len(old) < PerSourceMax THEN Append(old, id) ELSE old]
    IN  Trim(Append(Others(cache, src), bucket), SourcesMax)
Add(cache, src, id) ==
    LET bucket == [src |-> src, ids |-> Trim(Append(IdsOf(cache, src), id), PerSourceMax)]
    IN  Trim(Append(Others(cache, src), bucket), SourcesMax)

\* check_and_add: a pair already there is reported and changes nothing, not even
\* how recently its source was used.
CheckAndAdd(cache, src, id) == IF IsDuplicate(cache, src, id) THEN cache ELSE Add(cache, src, id)

\* The elements of s at the positions in I, in their order.
Kept(s, I) ==
    LET upTo[n \in 0 .. Len(s)] ==
            IF n = 0 THEN <<>> ELSE IF n \in I THEN Append(upTo[n - 1], s[n]) ELSE upTo[n - 1]
    IN  upTo[Len(s)]

\* cleanup_expired: the ids in "old" are past their ttl; empty buckets go.
CleanupExpired(cache, old) ==
    LET Fresh(b) == Kept(b.ids, {i \in 1 .. Len(b.ids) : <<b.src, b.ids[i]>> \notin old})
        rest == [j \in 1 .. Len(cache) |-> [cache[j] EXCEPT !.ids = Fresh(cache[j])]]
    IN  Kept(rest, {j \in 1 .. Len(rest) : rest[j].ids # <<>>})
=============================================================================
