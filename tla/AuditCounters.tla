--------------------------- MODULE AuditCounters ---------------------------
(***************************************************************************)
(* The counters of the daemon that mirror audit events.  The daemon counts *)
(* an event of its own at once and reserves it; a scanner tails the log,   *)
(* counts the events of other processes (CLI, MCP server) and skips one    *)
(* event per reservation.  The log rotates under the scanner, which knows  *)
(* the file it reads by its inode.                                         *)
(*                                                                         *)
(* One event type, hence one counter; a file is the number of its events,  *)
(* inode i is the i-th file.  Emitting runs on the scanner's event loop    *)
(* and is one step; other processes interleave with the scanner's stat and *)
(* read.                                                                   *)
(***************************************************************************)
EXTENDS Integers, Sequences, SequencesExt, FiniteSetsExt

CONSTANTS
    MaxEvents,          \* bound: events written
    MaxFiles,           \* bound: files, that is rotations plus one
    MaxBoots,           \* bound: starts of the daemon
    MaxFaults,          \* bound: writes that fail inside AuditLog.log
    QuietStart,         \* no event between reconciling and the first stat
    QuietScan           \* no rotation between a scan's stat and its read

ASSUME CounterAssumption ==
    /\ MaxEvents \in Nat /\ MaxFiles \in Nat \ {0}
    /\ MaxBoots \in Nat /\ MaxFaults \in Nat
    /\ QuietStart \in BOOLEAN /\ QuietScan \in BOOLEAN

VARIABLES
    files,              \* events per file, the live one last
    phase,              \* of the daemon: down, starting, up, reading
    counter,            \* the metric
    reserved,           \* _in_proc_counter_bumps
    offset, inode,      \* _audit_counter_offset, _audit_counter_inode
    owed,               \* events the metric should show in this run
    boots, faults

vars == <<files, phase, counter, reserved, offset, inode, owed, boots, faults>>

Live == Last(files)
Written == FoldSeq(+, 0, files)

Init ==
    /\ files \in {<<n>> : n \in 0 .. MaxEvents}
    /\ phase = "down"
    /\ counter = 0 /\ reserved = 0 /\ offset = 0 /\ inode = 0
    /\ owed = 0 /\ boots = 0 /\ faults = 0

-----------------------------------------------------------------------------
(***************************************************************************)
(* The daemon                                                              *)
(***************************************************************************)
\* A new Metrics object, then _reconcile_counters_from_audit_tail.
Reconcile ==
    /\ phase = "down"
    /\ boots < MaxBoots
    /\ boots' = boots + 1
    /\ phase' = "starting"
    /\ counter' = Live /\ owed' = Live
    /\ reserved' = 0
    /\ UNCHANGED <<files, offset, inode, faults>>

\* _audit_counter_sync_loop starts at the end of the file.
StartScanner ==
    /\ phase = "starting"
    /\ phase' = "up"
    /\ offset' = Live
    /\ inode' = Len(files)
    /\ UNCHANGED <<files, counter, reserved, owed, boots, faults>>

MayWrite ==
    /\ Written < MaxEvents
    /\ QuietStart => phase # "starting"

Appended == [files EXCEPT ![Len(files)] = @ + 1]

\* _emit_audit_with_reservation: the event reaches the disk,
Emit ==
    /\ phase \in {"starting", "up"}
    /\ MayWrite
    /\ files' = Appended
    /\ owed' = owed + 1
    /\ counter' = counter + 1
    /\ reserved' = reserved + 1
    /\ UNCHANGED <<phase, offset, inode, boots, faults>>

\* _reserve_counter_bump, then _unreserve_counter_bump.
Unreserve ==
    LET c == counter + 1
        r == reserved + 1
    IN  /\ counter' = IF c > 0 THEN c - 1 ELSE 0
        /\ reserved' = IF r > 0 THEN r - 1 ELSE r

\* or log() raises (the details are not serialisable),
EmitRaises ==
    /\ phase \in {"starting", "up"}
    /\ Unreserve
    /\ UNCHANGED <<files, phase, offset, inode, owed, boots, faults>>

\* or _write_entry swallows the failure of the write.
EmitSwallowed ==
    /\ phase \in {"starting", "up"}
    /\ faults < MaxFaults
    /\ faults' = faults + 1
    /\ counter' = counter + 1
    /\ reserved' = reserved + 1
    /\ UNCHANGED <<files, phase, offset, inode, owed, boots>>

-----------------------------------------------------------------------------
(***************************************************************************)
(* The scanner                                                             *)
(***************************************************************************)
\* _process_audit_buf on n events: one reservation each while there are any.
Absorb(n) ==
    LET k == Min({n, reserved})
    IN  counter' = counter + n - k /\ reserved' = reserved - k

NoRescue == 0

\* The events of the rotated file (.1) that were not read, if .1 is the file
\* that was being read.
Rescued ==
    IF inode # Len(files) /\ inode = Len(files) - 1
    THEN files[inode] - Min({offset, files[inode]})
    ELSE 0

\* The file has not grown past the offset.
NothingNew(at) == Live = at

\* _scan_audit_for_counters up to the comparison of sizes.
ScanStat ==
    LET at == IF inode = Len(files) /\ Live >= offset THEN offset ELSE 0
    IN  /\ phase = "up"
        /\ inode # Len(files) \/ offset # Live
        /\ Absorb(Rescued)
        /\ inode' = Len(files)
        /\ offset' = at
        /\ phase' = IF NothingNew(at) THEN "up" ELSE "reading"
        /\ UNCHANGED <<files, owed, boots, faults>>

\* open, seek, read, tell: of the file that has the name now.
ScanRead ==
    /\ phase = "reading"
    /\ Absorb(IF Live > offset THEN Live - offset ELSE 0)
    /\ offset' = Max({Live, offset})
    /\ phase' = "up"
    /\ UNCHANGED <<files, inode, owed, boots, faults>>

-----------------------------------------------------------------------------
(***************************************************************************)
(* Other processes, and the end of the daemon                              *)
(***************************************************************************)
OtherWrites ==
    /\ MayWrite
    /\ files' = Appended
    /\ owed' = owed + 1
    /\ UNCHANGED <<phase, counter, reserved, offset, inode, boots, faults>>

\* At most one rotation between two scans: a file holds 10 MB, scans are a
\* second apart.
Rotate ==
    /\ Len(files) < MaxFiles
    /\ phase \in {"up", "reading"} => inode = Len(files)
    /\ QuietStart => phase # "starting"
    /\ QuietScan => phase # "reading"
    /\ files' = Append(files, 0)
    /\ UNCHANGED <<phase, counter, reserved, offset, inode, owed, boots, faults>>

Stop ==
    /\ phase # "down"
    /\ phase' = "down"
    /\ UNCHANGED <<files, counter, reserved, offset, inode, owed, boots, faults>>

Next ==
    \/ Reconcile \/ StartScanner \/ Emit \/ EmitRaises \/ EmitSwallowed
    \/ ScanStat \/ ScanRead
    \/ OtherWrites \/ Rotate \/ Stop

Spec == Init /\ [][Next]_vars

\* The loop is a task of the running daemon; nothing forces events or stops.
FairSpec == Spec /\ WF_vars(StartScanner) /\ WF_vars(ScanStat) /\ WF_vars(ScanRead)

-----------------------------------------------------------------------------
(***************************************************************************)
(* Properties                                                              *)
(***************************************************************************)
\* Every variable keeps its type.
TypeOK ==
    /\ files \in Seq(0 .. MaxEvents) /\ Len(files) \in 1 .. MaxFiles
    /\ phase \in {"down", "starting", "up", "reading"}
    /\ {counter, reserved, offset, inode, owed} \subseteq Nat
    /\ boots \in 0 .. MaxBoots /\ faults \in 0 .. MaxFaults

\* The scanner has read everything there is.
CaughtUp == phase = "up" /\ inode = Len(files) /\ offset = Live

\* Then the metric is ahead of the log by exactly the reservations left over,
\* and those are no more than the writes that failed: whoever emitted and
\* however the scans fell around a rotation, nothing is counted twice or lost.
DriftBounded == CaughtUp => counter = owed + reserved /\ reserved <= faults

\* A daemon that stays up gets to a correct metric again and again, whatever
\* other processes write, unless a write of its own failed
\* (_audit_counter_sync_loop).
CatchesUp == []<>(phase # "down" /\ faults = 0 => counter = owed)
=============================================================================
