------------------------------ MODULE AuditLog ------------------------------
(***************************************************************************)
(* The audit log: an HMAC-chained file that several processes (daemon, MCP *)
(* server, CLI) append to under a lock on a sentinel file, rotated into    *)
(* numbered archives.  log() is modelled write by write: a process may die *)
(* between two of them, which frees the lock; a write or a rename may      *)
(* fail, which is logged and swallowed.                                    *)
(*                                                                         *)
(* An entry's HMAC is collision free over (previous HMAC, entry), so it is *)
(* represented by a number of its own; Genesis is 0.                       *)
(***************************************************************************)
EXTENDS Integers, Sequences

CONSTANTS
    Process,        \* processes sharing the log
    RotateAt,       \* lines at which the file has reached max_bytes
    MaxArchives,    \* _MAX_ARCHIVES
    MaxEntries,     \* bound: entries written, anchors included
    MaxCrashes,     \* bound: processes dying inside log()
    MaxFaults,      \* bound: writes that fail
    MaxStuck        \* bound: renames that fail

Genesis == 0
NoAnchor == -1
TornLine == [id |-> -1, prev |-> -1, anchor |-> NoAnchor]
Entry == [id : 1 .. MaxEntries, prev : 0 .. MaxEntries, anchor : -1 .. MaxEntries]

VARIABLES
    live,           \* lines of the live file; << >> when there is no file
    archive,        \* files <path>.1 ... <path>.MaxArchives
    at,             \* where each process is in log()
    tail,           \* its _last_hmac
    slot,           \* i of the shift loop of the process that rotates
    count,          \* entries written so far
    crashes, faults, stuck

vars == <<live, archive, at, tail, slot, count, crashes, faults, stuck>>

Init ==
    /\ live = <<>>
    /\ archive = [i \in 1 .. MaxArchives |-> <<>>]
    /\ at = [x \in Process |-> "idle"]
    /\ tail = [x \in Process |-> Genesis]
    /\ slot = 0
    /\ count = 0 /\ crashes = 0 /\ faults = 0 /\ stuck = 0

-----------------------------------------------------------------------------
\* The HMAC of the last of the first k lines that parses.
HmacAt(file, k) ==
    LET last == {i \in 1 .. k : file[i] # TornLine /\ \A j \in i + 1 .. k : file[j] = TornLine}
    IN  IF last = {} THEN Genesis ELSE file[CHOOSE i \in last : TRUE].id

\* _read_last_hmac
ReadLastHmac(x) == HmacAt(live, Len(live))

Free == \A x \in Process : at[x] = "idle"

\* log(): both locks, then the chain tail is read again.
Lock(x) ==
    /\ Free
    /\ count < MaxEntries
    /\ at' = [at EXCEPT ![x] = "write"]
    /\ tail' = [tail EXCEPT ![x] = ReadLastHmac(x)]
    /\ UNCHANGED <<live, archive, slot, count, crashes, faults, stuck>>

\* _write_entry by x of an entry chained to "prev".
Written(x, prev, anchor) ==
    \/ /\ count < MaxEntries
       /\ count' = count + 1
       /\ live' = Append(live, [id |-> count', prev |-> prev, anchor |-> anchor])
       /\ tail' = [tail EXCEPT ![x] = count']
       /\ UNCHANGED faults
    \/ /\ faults < MaxFaults
       /\ faults' = faults + 1
       /\ tail' = [tail EXCEPT ![x] = prev]
       /\ UNCHANGED <<live, count>>

WriteEntry(x) ==
    /\ at[x] = "write"
    /\ Written(x, tail[x], NoAnchor)
    /\ at' = [at EXCEPT ![x] = "size"]
    /\ UNCHANGED <<archive, slot, crashes, stuck>>

\* _maybe_rotate: small enough, so log() returns ...
KeepFile(x) ==
    /\ at[x] = "size"
    /\ Len(live) < RotateAt
    /\ at' = [at EXCEPT ![x] = "idle"]
    /\ UNCHANGED <<live, archive, tail, slot, count, crashes, faults, stuck>>

\* ... or the archives are shifted from the oldest on,
StartShift(x) ==
    /\ at[x] = "size"
    /\ Len(live) >= RotateAt
    /\ at' = [at EXCEPT ![x] = "shift"]
    /\ slot' = MaxArchives - 1
    /\ UNCHANGED <<live, archive, tail, count, crashes, faults, stuck>>

MovedUpwards(i) ==
    LET k == MaxArchives - i
    IN  [archive EXCEPT ![k + 1] = archive[k], ![k] = <<>>]

\* os.replace(.i, .i+1), when .i exists.
Moved(i) ==
    IF archive[i] = <<>> THEN archive
    ELSE [archive EXCEPT ![i + 1] = archive[i], ![i] = <<>>]

\* An OSError here is logged and the loop goes on.
ShiftArchive(x) ==
    /\ at[x] = "shift" /\ slot > 0
    /\ slot' = slot - 1
    /\ \/ archive' = Moved(slot) /\ UNCHANGED stuck
       \/ /\ archive[slot] # <<>> /\ stuck < MaxStuck
          /\ stuck' = stuck + 1
          /\ UNCHANGED archive
    /\ UNCHANGED <<live, at, tail, count, crashes, faults>>

\* The live file becomes .1, or stays and log() returns,
RenameLive(x) ==
    /\ at[x] = "shift" /\ slot = 0
    /\ \/ /\ archive' = [archive EXCEPT ![1] = live]
          /\ live' = <<>>
          /\ at' = [at EXCEPT ![x] = "anchor"]
          /\ UNCHANGED stuck
       \/ /\ stuck < MaxStuck
          /\ stuck' = stuck + 1
          /\ at' = [at EXCEPT ![x] = "idle"]
          /\ UNCHANGED <<live, archive>>
    /\ UNCHANGED <<tail, slot, count, crashes, faults>>

PreviousTailAfterReset(x) == Genesis

\* previous_tail_hmac of the anchor record.
PreviousTail(x) == tail[x]

\* and EVENT_LOG_ROTATED opens the new one, chained to GENESIS.
WriteAnchor(x) ==
    /\ at[x] = "anchor"
    /\ Written(x, Genesis, PreviousTail(x))
    /\ at' = [at EXCEPT ![x] = "idle"]
    /\ UNCHANGED <<archive, slot, crashes, stuck>>

\* The process dies; a death inside os.write can leave part of a line, and
\* its successor's __init__ reads the tail again.
Crash(x) ==
    /\ at[x] # "idle"
    /\ crashes < MaxCrashes
    /\ crashes' = crashes + 1
    /\ at' = [at EXCEPT ![x] = "idle"]
    /\ tail' = [tail EXCEPT ![x] = ReadLastHmac(x)]
    /\ \/ UNCHANGED live
       \/ at[x] \in {"write", "anchor"} /\ live' = Append(live, TornLine)
    /\ UNCHANGED <<archive, slot, count, faults, stuck>>

Next ==
    \E x \in Process :
        \/ Lock(x) \/ WriteEntry(x) \/ KeepFile(x)
        \/ StartShift(x) \/ ShiftArchive(x) \/ RenameLive(x) \/ WriteAnchor(x)
        \/ Crash(x)

Spec == Init /\ [][Next]_vars

-----------------------------------------------------------------------------
(***************************************************************************)
(* Verification                                                            *)
(***************************************************************************)
\* verify(): every line parses and chains to the line before.
Verifies(file) ==
    \A i \in DOMAIN file :
        /\ file[i] # TornLine
        /\ file[i].prev = IF i = 1 THEN Genesis ELSE file[i - 1].id

\* The files by age, the live one first; new and old exist and have no file
\* between them.
File(k) == IF k = 0 THEN live ELSE archive[k]
Neighbours(new, old) ==
    /\ new < old /\ File(new) # <<>> /\ File(old) # <<>>
    /\ \A k \in new + 1 .. old - 1 : File(k) = <<>>

\* verify_chain_across_archives(): each file verifies and opens with an
\* anchor to the tail of the file before.
VerifiesAcross ==
    /\ \A k \in 0 .. MaxArchives : Verifies(File(k))
    /\ \A new, old \in 0 .. MaxArchives :
          Neighbours(new, old) => File(new)[1].anchor = File(old)[Len(File(old))].id

\* The entries a file holds, torn lines aside.
Entries(file) == {file[i].id : i \in {j \in 1 .. Len(file) : file[j] # TornLine}}
Stored == UNION {Entries(File(k)) : k \in 0 .. MaxArchives}

-----------------------------------------------------------------------------
(***************************************************************************)
(* Properties                                                              *)
(***************************************************************************)
\* Every variable keeps its type.
TypeOK ==
    /\ live \in Seq(Entry \cup {TornLine})
    /\ archive \in [1 .. MaxArchives -> Seq(Entry \cup {TornLine})]
    /\ at \in [Process -> {"idle", "write", "size", "shift", "anchor"}]
    /\ tail \in [Process -> 0 .. MaxEntries]
    /\ slot \in 0 .. MaxArchives - 1
    /\ count \in 0 .. MaxEntries
    /\ crashes \in 0 .. MaxCrashes
    /\ faults \in 0 .. MaxFaults
    /\ stuck \in 0 .. MaxStuck

\* With no crash and no failing write so far, whatever processes wrote and
\* however often the log was rotated, both verifiers accept between calls of
\* log().
ChainVerifies ==
    Free /\ crashes + faults + stuck = 0 => Verifies(live) /\ VerifiesAcross

\* Torn lines aside, every entry is chained to the entry before it in its
\* file: an interrupted write never starts a second chain (_read_last_hmac).
Rechained ==
    \A k \in 0 .. MaxArchives : \A i \in 1 .. Len(File(k)) :
        File(k)[i] # TornLine => File(k)[i].prev = HmacAt(File(k), i - 1)

\* As long as no rename failed, an entry that was written leaves the disk only
\* with the oldest archive (_maybe_rotate), whatever crashes between renames.
NothingVanishes ==
    [][stuck' = 0 =>
           Stored \ Stored' \subseteq Entries(archive[MaxArchives])]_vars
=============================================================================
