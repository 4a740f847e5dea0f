------------------------------ MODULE KeyFiles ------------------------------
(* The identity key file of one installation and its ".legacy.bak" (keys.py,   *)
(* ensure_agent_keys and rotate_keys in bridge.py, backup.py).  Several        *)
(* processes may start on the same file at once, and any of them may die       *)
(* between two file operations.  save_keys writes a private temporary file and *)
(* renames it; copying the legacy file aside is not atomic.  A key file is     *)
(* abstracted to its identity, its format (2 before, 3 with a master seed) and *)
(* the passphrase its secrets are encrypted under.                             *)
EXTENDS Naturals, FiniteSets

CONSTANTS
    Process,
    Passphrase,
    Initial,    \* key files an installation may start from, None among them
    MaxId,      \* bound: identities generated
    Torn,       \* a file that was cut off while it was written
    None        \* no file, no passphrase

VARIABLES
    opts,       \* [explicit, mesh, plain]: the installation's configuration
    file,       \* keys.json
    bak,        \* keys.json.legacy.bak
    archive,    \* the key file inside the last backup
    proc,       \* what each process is doing, see Idle
    nextId,     \* the next identity to be generated
    last,       \* history: the identity last put in place on purpose
    started     \* history: a daemon has come up with this configuration

keyVars == <<opts, file, bak, archive, proc, nextId, last, started>>

Idle == [pc |-> "idle", op |-> None, keys |-> None, pass |-> None, tmp |-> None]
Options == [explicit : Passphrase \cup {None}, mesh : Passphrase \cup {None}, plain : BOOLEAN]
KeyFile(id, format, pass) == [id |-> id, format |-> format, pass |-> pass]

Init ==
    /\ opts \in Options
    /\ file \in Initial /\ bak = None /\ archive = None
    /\ proc = [p \in Process |-> Idle]
    /\ nextId = 1
    /\ last = IF file = None THEN None ELSE file.id
    /\ started = FALSE

Alone == \A p \in Process : proc[p] = Idle

(* The operator rotates with every daemon stopped and starts none meanwhile.    *)
Free(p) == proc[p] = Idle /\ \A q \in Process : proc[q].op # "rotate"
Set(p, r) == proc' = [proc EXCEPT ![p] = r]
Done(p) == Set(p, Idle)

(* passphrase or fallback_passphrase *)
Effective == IF opts.explicit # None THEN opts.explicit ELSE opts.mesh

(* load_keys: a plaintext file takes any passphrase.                           *)
Loads(f, pass) == f \notin {None, Torn} /\ f.pass \in {None, pass}

(* What ensure_agent_keys has decrypted the file with: the mesh passphrase is   *)
(* tried only when the file is encrypted and no explicit one was given.        *)
LoadPass(f) == IF opts.explicit = None /\ f.pass # None THEN opts.mesh ELSE opts.explicit

----------------------------------------------------------------------------
(* No file: generate, encrypted unless plaintext was asked for; else refuse.    *)
Generate(p, op) ==
    /\ nextId <= MaxId
    /\ Effective # None \/ opts.plain
    /\ nextId' = nextId + 1
    /\ Set(p, [Idle EXCEPT !.pc = "save", !.op = op, !.pass = Effective,
                           !.keys = [id |-> nextId, format |-> 3]])

StartFresh(p) ==
    /\ Free(p) /\ file = None
    /\ Generate(p, "fresh")
    /\ UNCHANGED <<opts, file, bak, archive, last, started>>

Load(p) ==
    /\ Free(p) /\ file \notin {None, Torn}
    /\ Loads(file, LoadPass(file))
    /\ Set(p, [Idle EXCEPT !.pc = "loaded", !.op = "start", !.pass = LoadPass(file),
                           !.keys = [id |-> file.id, format |-> file.format]])
    /\ UNCHANGED <<opts, file, bak, archive, nextId, last, started>>

(* A plaintext file is encrypted forward as soon as there is a passphrase; the  *)
(* file is read again to see whether it is one.                                *)
MeshPassFirst(p) == IF opts.mesh # None THEN opts.mesh ELSE proc[p].pass
EncryptionPass(p) == IF proc[p].pass # None THEN proc[p].pass ELSE opts.mesh

ReEncrypt(p) ==
    /\ proc[p].pc = "loaded"
    /\ IF EncryptionPass(p) # None /\ ~opts.plain /\ file.pass = None
       THEN Set(p, [proc[p] EXCEPT !.pc = "reencrypt", !.pass = EncryptionPass(p)])
       ELSE Set(p, [proc[p] EXCEPT !.pc = "upgrade"])
    /\ UNCHANGED <<opts, file, bak, archive, nextId, last, started>>

(* The daemon is up, with the keys it has in memory.                            *)
Run(p) ==
    /\ proc[p].pc = "upgrade" /\ proc[p].keys.format = 3
    /\ started' = TRUE
    /\ Done(p)
    /\ UNCHANGED <<opts, file, bak, archive, nextId, last>>

----------------------------------------------------------------------------
(* migrate_keys_to_master_seed, from a daemon's start or from "keys migrate":   *)
(* a second load, then the backup, then the save.  When it cannot load, or     *)
(* finds the new format already in place, a daemon goes on with what it has.   *)
BeginMigrate(p) ==
    /\ proc[p].pc = "upgrade" /\ proc[p].keys.format # 3
    /\ IF Loads(file, proc[p].pass) /\ file.format # 3
       THEN /\ Set(p, [proc[p] EXCEPT !.pc = "backup", !.keys.id = file.id])
            /\ UNCHANGED started
       ELSE /\ Done(p)
            /\ started' = TRUE
    /\ UNCHANGED <<opts, file, bak, archive, nextId, last>>

CommandMigrate(p) ==
    /\ Free(p) /\ file \notin {None, Torn}
    /\ Loads(file, opts.explicit) /\ file.format # 3
    /\ Set(p, [Idle EXCEPT !.pc = "backup", !.op = "migrate", !.pass = opts.explicit,
                           !.keys = [id |-> file.id, format |-> 2]])
    /\ UNCHANGED <<opts, file, bak, archive, nextId, last, started>>

CheckBackup(p) ==
    /\ proc[p].pc = "backup"
    /\ Set(p, [proc[p] EXCEPT !.pc = IF bak = None THEN "copy" ELSE "migrate"])
    /\ UNCHANGED <<opts, file, bak, archive, nextId, last, started>>

(* shutil.copy2 in two steps; what it copies is the file of that moment.        *)
CopyBegins(p) ==
    /\ proc[p].pc = "copy"
    /\ bak' = Torn
    /\ Set(p, [proc[p] EXCEPT !.pc = "copying"])
    /\ UNCHANGED <<opts, file, archive, nextId, last, started>>

CopyEnds(p) ==
    /\ proc[p].pc = "copying"
    /\ bak' = file
    /\ Set(p, [proc[p] EXCEPT !.pc = "migrate"])
    /\ UNCHANGED <<opts, file, archive, nextId, last, started>>

(* "keys migrate" saves a plaintext file only over its own refusal: no          *)
(* passphrase and no opt-in, and save_keys raises.                             *)
Migrate(p) ==
    /\ proc[p].pc = "migrate"
    /\ IF proc[p].op = "migrate" /\ proc[p].pass = None
       THEN Done(p)
       ELSE Set(p, [proc[p] EXCEPT !.pc = "save", !.keys.format = 3])
    /\ UNCHANGED <<opts, file, bak, archive, nextId, last, started>>

----------------------------------------------------------------------------
(* save_keys: the temporary file, complete and synced, then the rename.         *)
Content(p) == KeyFile(proc[p].keys.id, proc[p].keys.format, proc[p].pass)

WriteTmp(p) ==
    /\ proc[p].pc \in {"save", "reencrypt"} /\ proc[p].tmp = None
    /\ Set(p, [proc[p] EXCEPT !.tmp = Content(p)])
    /\ UNCHANGED <<opts, file, bak, archive, nextId, last, started>>

(* A fresh identity counts from here on.                                        *)
Replace(p) ==
    /\ proc[p].tmp # None
    /\ file' = proc[p].tmp
    /\ last' = IF proc[p].op \in {"rotate", "fresh"} THEN proc[p].tmp.id ELSE last
    /\ IF proc[p].pc = "reencrypt"
       THEN /\ Set(p, [proc[p] EXCEPT !.pc = "upgrade", !.tmp = None])
            /\ UNCHANGED started
       ELSE /\ Done(p)
            /\ started' = (started \/ proc[p].op \in {"start", "fresh"})
    /\ UNCHANGED <<opts, bak, archive, nextId>>

----------------------------------------------------------------------------
(* rotate_keys: an operator's decision.                                         *)
Rotate(p) ==
    /\ Alone
    /\ Generate(p, "rotate")
    /\ UNCHANGED <<opts, file, bak, archive, last, started>>

(* create_backup, of an installation that works.                                *)
Backup ==
    /\ started /\ Alone /\ file # None
    /\ archive' = file
    /\ UNCHANGED <<opts, file, bak, proc, nextId, last, started>>

(* restore_backup --force.                                                      *)
Restore ==
    /\ Alone /\ archive # None
    /\ file' = archive /\ last' = archive.id
    /\ UNCHANGED <<opts, bak, archive, proc, nextId, started>>

Crash(p) ==
    /\ proc[p] # Idle
    /\ Done(p)
    /\ UNCHANGED <<opts, file, bak, archive, nextId, last, started>>

Next ==
    \/ \E p \in Process :
         \/ StartFresh(p) \/ Load(p) \/ ReEncrypt(p) \/ Run(p)
         \/ BeginMigrate(p) \/ CommandMigrate(p) \/ CheckBackup(p)
         \/ CopyBegins(p) \/ CopyEnds(p) \/ Migrate(p)
         \/ WriteTmp(p) \/ Replace(p) \/ Rotate(p) \/ Crash(p)
    \/ Backup \/ Restore

Spec == Init /\ [][Next]_keyVars

----------------------------------------------------------------------------
(* Re-encryption, migration, races between starting processes and crashes       *)
(* anywhere leave the key file whole and the identity in it the one that was   *)
(* generated, rotated to or restored last ("Ed25519 identity unchanged - every *)
(* TOFU pin remains valid").                                                   *)
IdentityKept == file # Torn /\ (file # None => file.id = last)

(* An installation that has come up once comes up again with the same options:  *)
(* no encryption, migration, rotation or restore locks it out.                 *)
Startable == started => Loads(file, LoadPass(file))

(* "The pre-migration file is preserved as <path>.legacy.bak" (keys.py:625):    *)
(* what was migrated can be rolled back.                                       *)
RollbackKept ==
    file \notin {None, Torn} /\ bak # None /\ Alone =>
        bak # Torn /\ bak.format = 2
============================================================================
