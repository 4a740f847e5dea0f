--------------------------- MODULE StorageFormat ----------------------------
(* Payload encryption at rest and the one-shot upgrade of its format           *)
(* (store.py: open, _derive_storage_key, _upgrade_storage_format,              *)
(* _encrypt_payload, _decrypt_payload).  The database may hold plaintext rows  *)
(* from before encryption and unprefixed "legacy" rows from earlier releases;  *)
(* it may be opened with the right storage passphrase, a wrong one or none,    *)
(* and the process may die before the upgrade commits.                         *)
EXTENDS Naturals, FiniteSets

CONSTANTS
    Slot,        \* rows of the three payload tables
    Passphrase,
    Legacy,      \* the passphrases earlier releases encrypted rows under
    None

VARIABLES
    rows,        \* [Slot -> None or a row, see Row]
    marker,      \* _META_STORAGE_FORMAT is set
    db,          \* "closed", "opening" (the sweep has not committed) or "open"
    pass,        \* the storage passphrase of the process that has it open
    upgraded     \* history: passphrases the database has been opened with

formatVars == <<rows, marker, db, pass, upgraded>>

Row(fmt, under, writer) == [fmt |-> fmt, under |-> under, writer |-> writer]
Legacies == {Row("legacy", p, p) : p \in Legacy}
Plain == Row("plain", None, None)

Init ==
    /\ rows \in [Slot -> {None, Plain} \cup Legacies]
    /\ marker = FALSE
    /\ db = "closed" /\ pass = None /\ upgraded = {}

(* _decrypt_payload: ciphertext of another credential is returned as it is.    *)
Reads(r, p) == r.fmt = "plain" \/ (p # None /\ r.under = p)

----------------------------------------------------------------------------
Open(p) ==
    /\ db = "closed"
    /\ pass' = p
    /\ db' = IF p = None THEN "open" ELSE "opening"
    /\ UNCHANGED <<rows, marker, upgraded>>

(* Unprefixed rows: those the legacy key of this passphrase decrypts, and the  *)
(* others, which are left alone.                                               *)
Unprefixed == {s \in Slot : rows[s] # None /\ rows[s].fmt # "v2"}
Migrated == {s \in Unprefixed : rows[s].fmt = "legacy" /\ rows[s].under = pass}
Skipped == Unprefixed \ Migrated

CompleteAlways == TRUE
Complete == Migrated # {} \/ Skipped = {}

(* _upgrade_storage_format: one transaction.                                   *)
Upgrade ==
    /\ db = "opening"
    /\ db' = "open"
    /\ upgraded' = upgraded \cup {pass}
    /\ IF marker
       THEN UNCHANGED <<rows, marker>>
       ELSE /\ rows' = [s \in Slot |->
                 IF s \in Migrated THEN Row("v2", pass, rows[s].writer) ELSE rows[s]]
            /\ marker' = Complete
    /\ UNCHANGED pass

(* _encrypt_payload on the way in: queue, history and trust-gate rows alike.   *)
Write(s) ==
    /\ db = "open" /\ rows[s] = None
    /\ rows' = [rows EXCEPT ![s] = IF pass = None THEN Plain ELSE Row("v2", pass, pass)]
    /\ UNCHANGED <<marker, db, pass, upgraded>>

(* Delivered, pruned or expired.                                               *)
Delete(s) ==
    /\ db = "open" /\ rows[s] # None
    /\ rows' = [rows EXCEPT ![s] = None]
    /\ UNCHANGED <<marker, db, pass, upgraded>>

(* The process ends, in whatever state it is in; an open sweep rolls back.     *)
Close ==
    /\ db # "closed"
    /\ db' = "closed" /\ pass' = None
    /\ UNCHANGED <<rows, marker, upgraded>>

Next ==
    \/ \E p \in Passphrase \cup {None} : Open(p)
    \/ Upgrade \/ Close
    \/ \E s \in Slot : Write(s) \/ Delete(s)

Spec == Init /\ [][Next]_formatVars

----------------------------------------------------------------------------
(* Opens with wrong passphrases or none, in any order with the right one,      *)
(* writes in between and crashes in the sweep strand nothing: every row reads  *)
(* back under the passphrase it was written with, and an open with a           *)
(* passphrase leaves no row under its fast legacy key.  It takes a database    *)
(* whose legacy rows share one passphrase: the marker that the first sweep     *)
(* sets keeps the rows of a second one from ever being migrated.               *)
NothingStranded ==
    \A s \in Slot : rows[s] # None =>
        /\ Reads(rows[s], rows[s].writer)
        /\ rows[s].fmt = "legacy" => rows[s].under \notin upgraded
============================================================================
