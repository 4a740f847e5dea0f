------------------------------ MODULE MCFiles ------------------------------
(***************************************************************************)
(* What a node keeps on disk, and the processes and crashes that share it: *)
(* the audit log and the metrics mirrored from it, the trust store, the    *)
(* key file, the database's encryption format and the invite ledger.       *)
(* "env" names the part that runs; it is chosen at the start and never     *)
(* changes, and the other parts rest.  The .cfg gives AuditCounters, which *)
(* is extended, and the instances their constants; FilesProofs is about    *)
(* the same instances for every value of them.                             *)
(***************************************************************************)
EXTENDS AuditCounters

CONSTANTS
    Process, None,
    RotateAt, MaxArchives, MaxEntries, MaxCrashes, MaxLogFaults, MaxStuck,     \* AuditLog's
    Peer, Key, NoKey, Daemon, Serial, MaxForeign, MaxReadFaults, MaxWriteFaults,  \* TrustStore's
    Passphrase, Initial, MaxId, Torn,           \* KeyFiles'
    Slot, Legacy,                               \* StorageFormat's
    Token, Lifetime, Skew, Retention, Gate, MaxClock    \* InviteLedger's

VARIABLES
    env,
    live, logs, at, tail, slot, count, crashes, logFaults, stuck,
    store, op, admitted, reads, writes, foreign,
    opts, file, bak, archive, proc, nextId, last, started,
    rows, marker, db, pass, upgraded,
    now, expires, loaded, spent, ledger, handed, carried, joining, pin

logVars == <<live, logs, at, tail, slot, count, crashes, logFaults, stuck>>
storeVars == <<store, op, admitted, reads, writes, foreign>>
keyVars == <<opts, file, bak, archive, proc, nextId, last, started>>
formatVars == <<rows, marker, db, pass, upgraded>>
inviteVars == <<now, expires, loaded, spent, ledger, handed, carried, joining, pin>>

Log == INSTANCE AuditLog WITH archive <- logs, faults <- logFaults, MaxFaults <- MaxLogFaults
Store == INSTANCE TrustStore WITH file <- store
Keys == INSTANCE KeyFiles
Format == INSTANCE StorageFormat
Invites == INSTANCE InviteLedger WITH file <- ledger

\* Every way an installation may have started.
OldFile(p) == [id |-> 0, format |-> 2, pass |-> p]
NoneOrOld == {None} \cup {OldFile(p) : p \in Passphrase \cup {None}}

-----------------------------------------------------------------------------
\* The parts that rest do so in one of their initial states.
CountersAtRest == env # "counters" => files = <<0>>
KeysAtRest == env # "keys" =>
    file = None /\ opts = [explicit |-> None, mesh |-> None, plain |-> TRUE]
FormatAtRest == env # "format" => rows = [s \in Slot |-> None]

MCInit ==
    /\ env \in {"counters", "log", "store", "keys", "format", "invites"}
    /\ Init /\ CountersAtRest
    /\ Log!Init /\ Store!Init /\ Invites!Init
    /\ Keys!Init /\ KeysAtRest
    /\ Format!Init /\ FormatAtRest

MCNext ==
    /\ \/ env = "counters" /\ Next
          /\ UNCHANGED <<logVars, storeVars, keyVars, formatVars, inviteVars>>
       \/ env = "log" /\ Log!Next
          /\ UNCHANGED <<vars, storeVars, keyVars, formatVars, inviteVars>>
       \/ env = "store" /\ Store!Next
          /\ UNCHANGED <<vars, logVars, keyVars, formatVars, inviteVars>>
       \/ env = "keys" /\ Keys!Next
          /\ UNCHANGED <<vars, logVars, storeVars, formatVars, inviteVars>>
       \/ env = "format" /\ Format!Next
          /\ UNCHANGED <<vars, logVars, storeVars, keyVars, inviteVars>>
       \/ env = "invites" /\ Invites!Next
          /\ UNCHANGED <<vars, logVars, storeVars, keyVars, formatVars>>
    /\ UNCHANGED env

mcVars == <<vars, logVars, storeVars, keyVars, formatVars, inviteVars, env>>

MCSpec == MCInit /\ [][MCNext]_mcVars

-----------------------------------------------------------------------------
\* Without crashes and failing writes both verifiers accept the log between
\* calls of log(); with them, torn lines aside, no second chain ever starts.
ChainVerifies == Log!ChainVerifies /\ Log!Rechained

\* As long as no rename failed, an entry leaves the disk only with the oldest
\* archive (_maybe_rotate), whatever crashes between renames.
NothingVanishes == Log!NothingVanishes

\* A revocation that reached our trust file stays in it, and a pin is never
\* replaced by another key, as long as every load could read the file.
TrustSticks == Store!TrustSticks

\* Migration, re-encryption, races and crashes leave the key file whole with
\* the identity last put in place, and an installation that came up once can
\* come up again with the same options.
IdentityKept == Keys!IdentityKept /\ Keys!Startable

\* Opens with wrong passphrases or none, in any order with the right one, leave
\* every row readable under the passphrase it was written with.
NothingStranded == Format!NothingStranded

\* An invitation admits one peer, whatever crashes between the ledger's write
\* and the pin, whatever writes fail and whenever the ledger is pruned.
SingleUse == Invites!SingleUse
=============================================================================
