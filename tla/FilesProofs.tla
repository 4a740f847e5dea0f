---------------------------- MODULE FilesProofs ----------------------------
(***************************************************************************)
(* Proofs about what a node keeps on disk: that the scanner of the audit   *)
(* log loses no event and counts none twice, for every number of events,   *)
(* files, restarts and failing writes; that the storage format's upgrade   *)
(* strands no row; that the key file keeps its identity and stays          *)
(* loadable, for any processes and passphrases; that the audit log's chain *)
(* stays verifiable and loses nothing but its oldest archive; that an      *)
(* invitation admits one peer; and that the trust file keeps what it was   *)
(* told.                                                                   *)
(***************************************************************************)
EXTENDS MCFiles, TLAPS

-----------------------------------------------------------------------------
(***************************************************************************)
(* The mirrored counters                                                   *)
(***************************************************************************)
\* Events written that the scanner has still to read: the rest of its file,
\* and the live file when that one has been rotated away.
Unread ==
    IF inode = Len(files) THEN Live - offset ELSE files[inode] - offset + Live

Numbers ==
    /\ files \in Seq(Nat) /\ Len(files) > 0
    /\ phase \in {"down", "starting", "up", "reading"}
    /\ counter \in Nat /\ reserved \in Nat /\ owed \in Nat
    /\ offset \in Nat /\ inode \in Nat /\ faults \in Nat

\* The file being read is the live one or the one before, up to the offset.
Tracking ==
    phase \in {"up", "reading"} =>
        /\ inode > 0
        /\ inode = Len(files) \/ (phase = "up" /\ inode = Len(files) - 1)
        /\ offset <= files[inode]

\* An event is worth one: in the log and unread, or counted.  A reservation
\* is an event counted ahead of its reading.
Balance ==
    /\ phase = "starting" => counter = owed + reserved /\ reserved <= faults
    /\ phase \in {"up", "reading"} =>
           /\ counter + Unread = owed + reserved
           /\ reserved <= faults + Unread

DriftInv == Numbers /\ Tracking /\ Balance

-----------------------------------------------------------------------------
\* Min of two numbers, as the scanner takes it of events and reservations.
LEMMA MinOfTwo ==
    ASSUME NEW a \in Nat, NEW b \in Nat
    PROVE  Min({a, b}) = IF a <= b THEN a ELSE b
<1> DEFINE m == IF a <= b THEN a ELSE b
<1>1. m \in {a, b} /\ \A y \in {a, b} : m <= y
  OBVIOUS
<1>2. ASSUME NEW x \in {a, b}, \A y \in {a, b} : x <= y
      PROVE  x = m
  BY <1>2
<1> QED
  BY <1>1, <1>2 DEF Min

\* Likewise for the new offset of a read.
LEMMA MaxOfTwo ==
    ASSUME NEW a \in Nat, NEW b \in Nat
    PROVE  Max({a, b}) = IF a >= b THEN a ELSE b
<1> DEFINE m == IF a >= b THEN a ELSE b
<1>1. m \in {a, b} /\ \A y \in {a, b} : m >= y
  OBVIOUS
<1>2. ASSUME NEW x \in {a, b}, \A y \in {a, b} : x >= y
      PROVE  x = m
  BY <1>2
<1> QED
  BY <1>1, <1>2 DEF Max

\* Reading n events moves them from unread to counted, and what the
\* reservations took was counted before.
LEMMA AbsorbBalance ==
    ASSUME Numbers, NEW n \in Nat, Absorb(n)
    PROVE  \E k \in Nat :
               /\ k <= n /\ k <= reserved /\ (k = n \/ k = reserved)
               /\ counter' = counter + (n - k) /\ reserved' = reserved - k
<1>1. reserved \in Nat /\ counter \in Nat
  BY DEF Numbers
<1> DEFINE k == IF n <= reserved THEN n ELSE reserved
<1>2. /\ k \in Nat /\ k <= n /\ k <= reserved /\ (k = n \/ k = reserved)
  BY <1>1
<1>3. Min({n, reserved}) = k
  BY <1>1, MinOfTwo
<1>4. counter' = counter + n - k /\ reserved' = reserved - k
  BY <1>3 DEF Absorb
<1> HIDE DEF k
<1>5. counter' = counter + (n - k)
  BY <1>1, <1>2, <1>4
<1> QED
  BY <1>2, <1>4, <1>5

\* One more event in the live file and nothing else changed there.
LEMMA AppendedFiles ==
    ASSUME Numbers, files' = Appended
    PROVE  /\ files' \in Seq(Nat) /\ Len(files') = Len(files)
           /\ Live' = Live + 1
           /\ \A i \in 1 .. Len(files) : i # Len(files) => files'[i] = files[i]
BY DEF Numbers, Appended, Live, Last

-----------------------------------------------------------------------------
\* The daemon starts with the metric at the length of the log.
LEMMA DriftInit == Init => DriftInv
<1> SUFFICES ASSUME Init PROVE DriftInv
  OBVIOUS
<1>1. PICK n \in 0 .. MaxEvents : files = <<n>>
  BY DEF Init
<1>2. files \in Seq(Nat) /\ Len(files) > 0
  BY <1>1, CounterAssumption DEF CounterAssumption
<1> QED
  BY <1>2 DEF Init, DriftInv, Numbers, Tracking, Balance

\* Every step keeps the balance, when neither the start nor a scan of the
\* daemon is overtaken by another process.
LEMMA DriftStep ==
    ASSUME DriftInv, [Next]_vars, QuietStart, QuietScan
    PROVE  DriftInv'
<1> USE DEF DriftInv
<1>0. Live \in Nat /\ \A i \in 1 .. Len(files) : files[i] \in Nat
  BY DEF Numbers, Live, Last
<1>1. CASE Reconcile
  BY <1>0, <1>1 DEF Reconcile, Numbers, Tracking, Balance
<1>2. CASE StartScanner
  BY <1>0, <1>2 DEF StartScanner, Numbers, Tracking, Balance, Unread, Live, Last
<1>a. phase \in {"up", "reading"} =>
          /\ inode \in 1 .. Len(files) /\ files[inode] \in Nat /\ offset <= files[inode]
          /\ inode = Len(files) \/ inode = Len(files) - 1
          /\ Live = files[Len(files)]
  BY <1>0 DEF Numbers, Tracking, Live, Last
<1>b. phase \in {"up", "reading"} =>
          /\ Unread \in Nat
          /\ counter + Unread = owed + reserved
          /\ reserved <= faults + Unread
  BY <1>0, <1>a, SMTT(30) DEF Numbers, Unread, Balance
<1>c. counter \in Nat /\ reserved \in Nat /\ owed \in Nat /\ faults \in Nat
  BY DEF Numbers
<1>3. CASE Emit
  <2>1. phase = "up" /\ phase' = "up"
    BY <1>3 DEF Emit, MayWrite
  <2>2. /\ files' \in Seq(Nat) /\ Len(files') = Len(files) /\ Live' = Live + 1
        /\ \A i \in 1 .. Len(files) : i # Len(files) => files'[i] = files[i]
    BY <1>3, AppendedFiles DEF Emit
  <2>3. Unread' = Unread + 1
    BY <1>0, <1>a, <1>3, <2>1, <2>2, SMTT(30) DEF Emit, Unread, Numbers
  <2>4. Numbers' /\ Tracking'
    BY <1>0, <1>3, <2>1, <2>2 DEF Emit, Numbers, Tracking, Live, Last
  <2>5. counter' + Unread' = owed' + reserved' /\ reserved' <= faults' + Unread'
    <3>1. Unread \in Nat /\ counter + Unread = owed + reserved /\ reserved <= faults + Unread
      BY <1>b, <2>1
    <3>2. counter' = counter + 1 /\ owed' = owed + 1 /\ reserved' = reserved + 1 /\ faults' = faults
      BY <1>3 DEF Emit
    <3> HIDE DEF DriftInv
    <3> QED
      BY <1>c, <2>3, <3>1, <3>2
  <2> QED
    BY <2>1, <2>4, <2>5 DEF Balance
<1>4. CASE EmitRaises
  <2>1. counter' = counter /\ reserved' = reserved
    BY <1>4 DEF EmitRaises, Unreserve, Numbers
  <2>2. Unread' = Unread
    BY <1>4 DEF EmitRaises, Unread, Live
  <2>3. Numbers' /\ Tracking'
    BY <1>4, <2>1 DEF EmitRaises, Numbers, Tracking
  <2> QED
    BY <1>4, <2>1, <2>2, <2>3 DEF EmitRaises, Balance
<1>5. CASE EmitSwallowed
  <2>1. Unread' = Unread
    BY <1>5 DEF EmitSwallowed, Unread, Live
  <2>2. Numbers' /\ Tracking'
    BY <1>5 DEF EmitSwallowed, Numbers, Tracking
  <2>3. CASE phase = "starting"
    BY <1>5, <2>2, <2>3 DEF EmitSwallowed, Balance, Numbers
  <2>4. CASE phase = "up"
    <3>1. Unread \in Nat /\ counter + Unread = owed + reserved /\ reserved <= faults + Unread
      BY <1>b, <2>4
    <3>2. /\ counter' = counter + 1 /\ owed' = owed /\ reserved' = reserved + 1
          /\ faults' = faults + 1 /\ phase' = "up"
      BY <1>5, <2>4 DEF EmitSwallowed
    <3> HIDE DEF DriftInv
    <3>3. counter' + Unread' = owed' + reserved' /\ reserved' <= faults' + Unread'
      BY <1>c, <2>1, <3>1, <3>2
    <3> QED
      BY <2>2, <3>2, <3>3 DEF DriftInv, Balance
  <2> QED
    BY <1>5, <2>3, <2>4 DEF EmitSwallowed
<1>6. CASE ScanStat
  <2>1. phase = "up" /\ phase' \in {"up", "reading"} /\ UNCHANGED <<files, owed, faults>>
    BY <1>6 DEF ScanStat
  <2>2. Rescued \in Nat /\ Absorb(Rescued)
    BY <1>0, <1>6, <2>1, MinOfTwo DEF ScanStat, Rescued, Numbers, Tracking
  <2>3. inode' = Len(files) /\ offset' \in Nat /\ offset' <= Live
    BY <1>0, <1>6 DEF ScanStat, Numbers
  <2>4. Unread' = Unread - Rescued
    <3>1. Unread' = Live - offset'
      BY <2>1, <2>3 DEF Unread, Live
    <3>2. CASE inode = Len(files)
      BY <1>0, <1>6, <2>1, <3>1, <3>2 DEF ScanStat, Rescued, Unread, Tracking, Numbers, Live, Last
    <3>3. CASE inode # Len(files)
      <4>1. inode = Len(files) - 1 /\ offset <= files[inode] /\ offset' = 0
        BY <1>a, <1>6, <2>1, <3>3 DEF ScanStat
      <4>2. Rescued = files[inode] - offset
        BY <1>a, <2>1, <3>3, <4>1, MinOfTwo DEF Rescued, Numbers
      <4> QED
        <5>1. Unread = files[inode] - offset + Live /\ Unread' = Live
          BY <1>0, <3>1, <3>3, <4>1 DEF Unread
        <5>2. files[inode] \in Nat /\ offset \in Nat
          BY <1>a, <2>1 DEF Numbers
        <5> HIDE DEF DriftInv
        <5> QED
          BY <1>0, <4>2, <5>1, <5>2
    <3> QED
      BY <3>2, <3>3
  <2>5. Unread' \in Nat
    BY <1>0, <2>1, <2>3 DEF Unread, Live, Numbers
  <2>6. PICK k \in Nat :
            /\ k <= Rescued /\ k <= reserved /\ (k = Rescued \/ k = reserved)
            /\ counter' = counter + (Rescued - k) /\ reserved' = reserved - k
    BY <2>2, AbsorbBalance
  <2>7. counter' \in Nat /\ reserved' \in Nat
    BY <1>c, <2>2, <2>6
  <2>8. Numbers' /\ Tracking'
    BY <2>1, <2>3, <2>7 DEF Numbers, Tracking, Live, Last
  <2>9. counter' + Unread' = owed' + reserved' /\ reserved' <= faults' + Unread'
    <3>1. Unread \in Nat /\ counter + Unread = owed + reserved /\ reserved <= faults + Unread
      BY <1>b, <2>1
    <3>2. owed' = owed /\ faults' = faults /\ Rescued \in Nat
      BY <2>1, <2>2
    <3>3. Unread - Rescued >= 0
      BY <2>4, <2>5
    <3> HIDE DEF DriftInv
    <3> QED
      BY <1>c, <2>4, <2>6, <3>1, <3>2, <3>3
  <2> QED
    BY <2>1, <2>8, <2>9 DEF Balance
<1>7. CASE ScanRead
  <2>1. /\ phase = "reading" /\ phase' = "up" /\ UNCHANGED <<files, inode, owed, faults>>
        /\ inode = Len(files) /\ offset <= Live
    BY <1>7 DEF ScanRead, Tracking, Live, Last
  <2>2. Unread = Live - offset /\ Unread \in Nat
    BY <1>b, <2>1 DEF Unread
  <2>3. Absorb(Unread)
    <3>1. (IF Live > offset THEN Live - offset ELSE 0) = Unread
      BY <1>0, <2>1, <2>2 DEF Numbers
    <3> QED
      BY <1>7, <3>1 DEF ScanRead
  <2>4. offset' = Live
    BY <1>0, <1>7, <2>1, MaxOfTwo DEF ScanRead, Numbers
  <2>5. Unread' = 0
    BY <1>0, <2>1, <2>4 DEF Unread, Live
  <2>6. PICK k \in Nat :
            /\ k <= Unread /\ k <= reserved /\ (k = Unread \/ k = reserved)
            /\ counter' = counter + (Unread - k) /\ reserved' = reserved - k
    <3>1. ASSUME NEW n \in Nat, Absorb(n)
          PROVE  \E k \in Nat :
                     /\ k <= n /\ k <= reserved /\ (k = n \/ k = reserved)
                     /\ counter' = counter + (n - k) /\ reserved' = reserved - k
      BY <3>1, AbsorbBalance
    <3> HIDE DEF DriftInv
    <3> QED
      BY <2>2, <2>3, <3>1
  <2>7. counter' \in Nat /\ reserved' \in Nat
    BY <1>c, <2>2, <2>6
  <2>8. Numbers' /\ Tracking'
    BY <1>0, <2>1, <2>4, <2>7 DEF Numbers, Tracking, Live, Last
  <2>9. counter' + Unread' = owed' + reserved' /\ reserved' <= faults' + Unread'
    <3>1. Unread \in Nat /\ counter + Unread = owed + reserved /\ reserved <= faults + Unread
      BY <1>b, <2>1
    <3>2. owed' = owed /\ faults' = faults
      BY <2>1
    <3> HIDE DEF DriftInv
    <3> QED
      BY <1>c, <2>5, <2>6, <3>1, <3>2
  <2> QED
    BY <2>1, <2>8, <2>9 DEF Balance
<1>8. CASE OtherWrites
  <2>1. phase # "starting" /\ phase' = phase
    BY <1>8 DEF OtherWrites, MayWrite
  <2>2. /\ files' \in Seq(Nat) /\ Len(files') = Len(files) /\ Live' = Live + 1
        /\ \A i \in 1 .. Len(files) : i # Len(files) => files'[i] = files[i]
    BY <1>8, AppendedFiles DEF OtherWrites
  <2>3. phase \in {"up", "reading"} => Unread' = Unread + 1
    BY <1>0, <1>a, <1>8, <2>2, SMTT(30) DEF OtherWrites, Unread, Numbers
  <2>4. Numbers' /\ Tracking'
    BY <1>0, <1>8, <2>1, <2>2, SMTT(30) DEF OtherWrites, Numbers, Tracking, Live, Last
  <2>5. phase \in {"up", "reading"} =>
            counter' + Unread' = owed' + reserved' /\ reserved' <= faults' + Unread'
    <3> SUFFICES ASSUME phase \in {"up", "reading"}
                 PROVE  counter' + Unread' = owed' + reserved' /\ reserved' <= faults' + Unread'
      OBVIOUS
    <3>1. Unread \in Nat /\ counter + Unread = owed + reserved /\ reserved <= faults + Unread
      BY <1>b
    <3>2. counter' = counter /\ reserved' = reserved /\ owed' = owed + 1 /\ faults' = faults
      BY <1>8 DEF OtherWrites
    <3>3. Unread' = Unread + 1
      BY <2>3
    <3> HIDE DEF DriftInv
    <3> QED
      BY <1>c, <3>1, <3>2, <3>3
  <2> QED
    BY <2>1, <2>4, <2>5 DEF Balance
<1>9. CASE Rotate
  <2>1. phase \in {"down", "up"} /\ phase' = phase
    BY <1>9 DEF Rotate, Numbers
  <2>2. /\ files' \in Seq(Nat) /\ Len(files') = Len(files) + 1 /\ Live' = 0
        /\ \A i \in 1 .. Len(files) : files'[i] = files[i]
    BY <1>9 DEF Rotate, Numbers, Live, Last
  <2>3. phase = "up" => inode = Len(files) /\ Unread' = Unread
    BY <1>0, <1>9, <2>2 DEF Rotate, Unread, Numbers, Live, Last
  <2>4. Numbers' /\ Tracking'
    BY <1>9, <2>1, <2>2, <2>3 DEF Rotate, Numbers, Tracking
  <2> QED
    BY <1>9, <2>1, <2>3, <2>4 DEF Rotate, Balance
<1>10. CASE Stop
  BY <1>10 DEF Stop, Numbers, Tracking, Balance
<1>11. CASE UNCHANGED vars
  BY <1>11 DEF vars, Numbers, Tracking, Balance, Unread, Live
<1> QED
  BY <1>1, <1>2, <1>3, <1>4, <1>5, <1>6, <1>7, <1>8, <1>9, <1>10, <1>11 DEF Next

-----------------------------------------------------------------------------
\* If no event falls between the reconciliation and the first stat and no
\* rotation inside a scan, then once the scanner has read everything the metric
\* is off by exactly the reservations left over, at most one per failed write
\* (_emit_audit_with_reservation, _scan_audit_for_counters).
THEOREM NothingLostOrDoubled ==
    ASSUME QuietStart, QuietScan
    PROVE  Spec => []DriftBounded
<1>1. DriftInv => DriftBounded
  <2> SUFFICES ASSUME DriftInv, CaughtUp
               PROVE  counter = owed + reserved /\ reserved <= faults
    BY DEF DriftBounded
  <2>1. Live \in Nat /\ inode = Len(files) /\ offset = Live /\ phase = "up"
    BY DEF DriftInv, Numbers, CaughtUp, Live, Last
  <2>2. Unread = 0
    BY <2>1 DEF Unread
  <2> QED BY <2>1, <2>2 DEF DriftInv, Numbers, Balance
<1>2. DriftInv /\ [Next]_vars => DriftInv'
  BY DriftStep
<1> QED
  BY DriftInit, <1>1, <1>2, PTL DEF Spec

-----------------------------------------------------------------------------
(***************************************************************************)
(* The storage format                                                      *)
(***************************************************************************)
\* One passphrase wrote the legacy rows, and "no passphrase" is none.
FormatConstants == Legacy \subseteq Passphrase /\ (\A p, q \in Legacy : p = q) /\ None \notin Passphrase

\* A row is readable for its writer, and the marker means that no legacy row is
\* left; the sweep runs with a passphrase.
RowOK(r) ==
    \/ r.fmt = "plain"
    \/ r.fmt = "legacy" /\ r.under \in Legacy /\ r.writer = r.under
    \/ r.fmt = "v2" /\ r.under \in Passphrase /\ r.writer = r.under

FormatInv ==
    /\ DOMAIN rows = Slot
    /\ \A s \in Slot : rows[s] = None \/ RowOK(rows[s])
    /\ \A s \in Slot : rows[s] # None /\ rows[s].fmt = "legacy" =>
           ~marker /\ rows[s].under \notin upgraded
    /\ pass \in Passphrase \cup {None}
    /\ db = "opening" => pass \in Passphrase

\* Every step of the database keeps it.
LEMMA FormatStep ==
    ASSUME FormatConstants, FormatInv, [Format!Next]_(Format!formatVars)
    PROVE  FormatInv'
<1> USE DEF FormatInv
<1>1. ASSUME NEW p \in Passphrase \cup {None}, Format!Open(p)
      PROVE  FormatInv'
  BY <1>1 DEF Format!Open
<1>2. ASSUME Format!Upgrade
      PROVE  FormatInv'
  <2>0. pass \in Passphrase /\ pass' = pass /\ db' = "open" /\ upgraded' = upgraded \cup {pass}
    BY <1>2 DEF Format!Upgrade
  <2>1. CASE marker
    BY <1>2, <2>0, <2>1 DEF Format!Upgrade
  <2>2. CASE ~marker
    <3> DEFINE New(s) == IF s \in Format!Migrated THEN Format!Row("v2", pass, rows[s].writer) ELSE rows[s]
    <3>1. rows' = [s \in Slot |-> New(s)] /\ marker' = Format!Complete
      BY <1>2, <2>2 DEF Format!Upgrade
    <3>2. \A s \in Slot : rows'[s] = New(s)
      BY <3>1
    <3>3. ASSUME NEW s \in Slot
          PROVE  /\ rows'[s] = None \/ RowOK(rows'[s])
                 /\ rows'[s] # None /\ rows'[s].fmt = "legacy" => ~marker' /\ rows'[s].under \notin upgraded'
      <4>1. CASE s \in Format!Migrated
        <5>1. rows[s] # None /\ rows[s].fmt = "legacy" /\ rows[s].under = pass
          BY <4>1 DEF Format!Migrated, Format!Unprefixed
        <5>2. rows[s].writer = pass
          BY <5>1 DEF RowOK
        <5>3. rows'[s] = [fmt |-> "v2", under |-> pass, writer |-> pass]
          BY <3>2, <4>1, <5>2 DEF Format!Row
        <5> QED
          BY <2>0, <5>3 DEF RowOK
      <4>2. CASE s \notin Format!Migrated
        <5>1. rows'[s] = rows[s]
          BY <3>2, <4>2
        <5>2. ASSUME rows[s] # None, rows[s].fmt = "legacy"
              PROVE  ~marker' /\ rows[s].under \notin upgraded'
          <6>1. s \in Format!Unprefixed
            BY <5>2 DEF Format!Unprefixed
          <6>2. s \in Format!Skipped /\ rows[s].under # pass
            BY <4>2, <5>2, <6>1 DEF Format!Skipped, Format!Migrated
          <6>3. rows[s].under \in Legacy
            BY <5>2 DEF RowOK
          <6>4. Format!Migrated = {}
            <7> SUFFICES ASSUME NEW k \in Format!Migrated PROVE FALSE
              OBVIOUS
            <7>1. k \in Slot /\ rows[k] # None /\ rows[k].fmt = "legacy" /\ rows[k].under = pass
              BY DEF Format!Migrated, Format!Unprefixed
            <7>2. pass \in Legacy
              BY <7>1 DEF RowOK
            <7> QED
              BY <6>2, <6>3, <7>2 DEF FormatConstants
          <6>5. ~Format!Complete
            BY <6>2, <6>4 DEF Format!Complete
          <6> QED
            BY <2>0, <3>1, <5>2, <6>2, <6>5
        <5> QED
          BY <5>1, <5>2
      <4> QED
        BY <4>1, <4>2
    <3>4. DOMAIN rows' = Slot
      BY <3>1
    <3> QED
      BY <2>0, <3>3, <3>4
  <2> QED
    BY <2>1, <2>2
<1>3. ASSUME NEW s \in Slot, Format!Write(s)
      PROVE  FormatInv'
  <2>1. rows'[s].fmt # "legacy" /\ RowOK(rows'[s])
    <3>1. CASE pass = None
      BY <1>3, <3>1 DEF Format!Write, Format!Plain, Format!Row, RowOK
    <3>2. CASE pass # None
      BY <1>3, <3>2 DEF Format!Write, Format!Row, RowOK
    <3> QED
      BY <3>1, <3>2
  <2>2. DOMAIN rows' = Slot /\ \A k \in Slot \ {s} : rows'[k] = rows[k]
    BY <1>3 DEF Format!Write
  <2>3. UNCHANGED <<marker, db, pass, upgraded>>
    BY <1>3 DEF Format!Write
  <2> QED
    BY <2>1, <2>2, <2>3
<1>4. ASSUME NEW s \in Slot, Format!Delete(s)
      PROVE  FormatInv'
  BY <1>4 DEF Format!Delete
<1>5. ASSUME Format!Close
      PROVE  FormatInv'
  BY <1>5 DEF Format!Close
<1>6. CASE UNCHANGED Format!formatVars
  BY <1>6 DEF Format!formatVars
<1> QED
  BY <1>1, <1>2, <1>3, <1>4, <1>5, <1>6 DEF Format!Next

\* A database from an earlier release satisfies it.
LEMMA FormatInit ==
    ASSUME FormatConstants, Format!Init
    PROVE  FormatInv
<1>1. DOMAIN rows = Slot /\ \A s \in Slot : rows[s] \in {None, Format!Plain} \cup Format!Legacies
  BY DEF Format!Init
<1>2. \A s \in Slot : rows[s] = None \/ RowOK(rows[s])
  BY <1>1 DEF Format!Plain, Format!Legacies, Format!Row, RowOK
<1> QED
  BY <1>1, <1>2 DEF Format!Init, FormatInv

\* store.py, _upgrade_storage_format and _decrypt_payload: with legacy rows of
\* one passphrase, opens with right, wrong or no passphrases in any order, writes
\* in between and ends before the sweep commits leave every row readable for
\* its writer, and none under the legacy key of a passphrase that was used.
THEOREM RowsReadable ==
    ASSUME FormatConstants
    PROVE  Format!Spec => []NothingStranded
<1>1. Format!Init => FormatInv
  BY FormatInit
<1>2. FormatInv /\ [Format!Next]_(Format!formatVars) => FormatInv'
  BY FormatStep
<1>3. FormatInv => NothingStranded
  BY DEF NothingStranded, FormatInv, RowOK, FormatConstants, Format!NothingStranded, Format!Reads
<1> QED
  BY <1>1, <1>2, <1>3, PTL DEF Format!Spec

-----------------------------------------------------------------------------
(***************************************************************************)
(* The key file                                                            *)
(***************************************************************************)
KeyRecord == [id : Nat, format : {2, 3}, pass : Passphrase \cup {None}]
Ops == {"fresh", "rotate", "start", "migrate"}
Steps == {"idle", "loaded", "reencrypt", "upgrade", "backup", "copy", "copying", "migrate", "save"}
InMemory == [id : Nat, format : {2, 3}]
ProcState ==
    [pc : Steps, op : Ops \cup {None}, keys : InMemory \cup {None},
     pass : Passphrase \cup {None}, tmp : KeyRecord \cup {None}]

\* An installation starts from a whole file or from none; "no file", "cut off"
\* and files are told apart.
KeyConstants ==
    /\ Initial \subseteq KeyRecord \cup {None}
    /\ None # Torn /\ None \notin KeyRecord /\ Torn \notin KeyRecord
    /\ None \notin InMemory /\ None \notin Ops

\* The installation's options decrypt f.
Usable(f) == f \in KeyRecord /\ f.pass \in {None, Keys!Effective}

\* f is what a generation under these options writes: nothing is left to encrypt
\* or to migrate.
Settled(f) == f \in KeyRecord /\ f.format = 3 /\ f.pass = Keys!Effective

\* p works on keys it read from the file.
Reader(p) == proc[p].op \in {"start", "migrate"}

ProcOK(p) ==
    /\ proc[p] \in ProcState
    /\ proc[p].op = None => proc[p] = Keys!Idle
    /\ proc[p].op # None => proc[p].keys \in InMemory
    /\ proc[p].op \in {"fresh", "rotate"} =>
          proc[p].pc = "save" /\ proc[p].keys.format = 3 /\ proc[p].pass = Keys!Effective
    /\ proc[p].op = "start" /\ proc[p].pass = None => opts.explicit = None
    /\ proc[p].op = "migrate" => proc[p].pc \in {"backup", "copy", "copying", "migrate", "save"}
    /\ proc[p].pass \in {None, Keys!Effective}
    /\ proc[p].tmp # None => proc[p].pc \in {"save", "reencrypt"} /\ proc[p].tmp = Keys!Content(p)

\* p may be about to put a new identity in place, or holds one that was replaced.
Unsettling(p) == proc[p].op = "fresh" \/ (Reader(p) /\ proc[p].keys.id # last)

\* Nobody is going to write what it read.
NoRewrite ==
    /\ file = None \/ Settled(file)
    /\ \A q \in Process : Reader(q) =>
          proc[q].op = "start" /\ proc[q].keys.format = 3 /\ proc[q].pc \in {"loaded", "upgrade"}

\* The identity is kept because a process that read an identity writes only
\* while it is the one in place: a fresh identity is generated only where there
\* was no file, and a file that was generated is never rewritten.
KeyInv ==
    /\ opts \in Keys!Options /\ nextId \in Nat
    /\ file = None \/ (file \in KeyRecord /\ file.id = last)
    /\ archive = None \/ Usable(archive)
    /\ \A p \in Process : ProcOK(p)
    /\ DOMAIN proc = Process
    /\ started => Usable(file)
    /\ \A p \in Process : Reader(p) => Usable(file)
    /\ \A p, q \in Process : proc[p].op = "rotate" /\ p # q => proc[q].op = None
    /\ \A p \in Process : Unsettling(p) => NoRewrite

\* A step in which one process moves on and the file, its identity and the
\* options stay: only what is said of that process has to be shown again.
LEMMA OneProcess ==
    ASSUME KeyConstants, KeyInv, NEW p \in Process, NEW r,
           proc' = [proc EXCEPT ![p] = r],
           UNCHANGED <<opts, file, archive, last>>, nextId' \in Nat,
           started' => Usable(file),
           ProcOK(p)',
           Reader(p)' => Usable(file),
           r.op = "rotate" => \A q \in Process \ {p} : proc[q].op = None,
           r.op # None => \A q \in Process \ {p} : proc[q].op # "rotate",
           Unsettling(p)' => NoRewrite,
           NoRewrite /\ Reader(p)' => r.op = "start" /\ r.keys.format = 3 /\ r.pc \in {"loaded", "upgrade"}
    PROVE  KeyInv'
<1>1. proc'[p] = r /\ DOMAIN proc' = Process /\ \A q \in Process \ {p} : proc'[q] = proc[q]
  BY DEF KeyInv
<1>3. \A q \in Process : ProcOK(q)'
  <2> SUFFICES ASSUME NEW q \in Process, q # p PROVE ProcOK(q)'
    OBVIOUS
  <2>1. ProcOK(q) /\ proc'[q] = proc[q]
    BY <1>1 DEF KeyInv
  <2> QED
    BY <2>1 DEF ProcOK, Keys!Effective, Keys!Content, Keys!KeyFile, Keys!Idle
<1>4. \A q \in Process : Reader(q)' => Usable(file)'
  <2> SUFFICES ASSUME NEW q \in Process, q # p, Reader(q)' PROVE Usable(file)'
    BY DEF Usable, Keys!Effective
  <2>1. Reader(q)
    BY <1>1 DEF Reader
  <2> QED
    BY <2>1 DEF KeyInv, Usable, Keys!Effective
<1>5. \A x, y \in Process : proc'[x].op = "rotate" /\ x # y => proc'[y].op = None
  BY <1>1 DEF KeyInv
<1>6. ASSUME NEW q \in Process, Unsettling(q)'
      PROVE  NoRewrite'
  <2>1. NoRewrite
    <3>1. CASE q = p
      BY <1>6, <3>1
    <3>2. CASE q # p
      <4>1. Unsettling(q)
        BY <1>1, <1>6, <3>2 DEF Unsettling, Reader
      <4> QED
        BY <4>1 DEF KeyInv
    <3> QED
      BY <3>1, <3>2
  <2>2. file' = None \/ Settled(file)'
    BY <2>1 DEF NoRewrite, Settled, Keys!Effective
  <2>3. ASSUME NEW x \in Process, Reader(x)'
        PROVE  proc'[x].op = "start" /\ proc'[x].keys.format = 3 /\ proc'[x].pc \in {"loaded", "upgrade"}
    <3>1. CASE x = p
      BY <1>1, <2>1, <2>3, <3>1
    <3>2. CASE x # p
      BY <1>1, <2>1, <2>3, <3>2 DEF NoRewrite, Reader
    <3> QED
      BY <3>1, <3>2
  <2> QED
    BY <2>2, <2>3 DEF NoRewrite, Reader
<1>7. started' => Usable(file)'
  BY DEF Usable, Keys!Effective
<1>8. archive' = None \/ Usable(archive)'
  BY DEF KeyInv, Usable, Keys!Effective
<1>9. opts' \in Keys!Options /\ nextId' \in Nat /\ (file' = None \/ (file' \in KeyRecord /\ file'.id = last'))
  BY DEF KeyInv, Keys!Options
<1> QED
  BY <1>1, <1>3, <1>4, <1>5, <1>6, <1>7, <1>8, <1>9 DEF KeyInv

\* load_keys under the passphrase ensure_agent_keys chooses succeeds on exactly
\* the files the options decrypt.
LEMMA LoadsUsable ==
    ASSUME KeyConstants, NEW f \in KeyRecord
    PROVE  /\ Keys!Loads(f, Keys!LoadPass(f)) <=> Usable(f)
           /\ Keys!Loads(f, opts.explicit) => Usable(f)
BY DEF KeyConstants, Keys!Loads, Keys!LoadPass, Usable, Keys!Effective

\* A process that stops here leaves nothing to show.
LEMMA ProcessEnds ==
    ASSUME KeyConstants, KeyInv, NEW p \in Process, proc' = [proc EXCEPT ![p] = Keys!Idle],
           UNCHANGED <<opts, file, archive, last>>, nextId' \in Nat, started' => Usable(file)
    PROVE  KeyInv'
<1>1. Keys!Idle.op = None /\ Keys!Idle.tmp = None /\ Keys!Idle.pass = None /\ Keys!Idle \in ProcState
  BY DEF Keys!Idle, ProcState, Steps
<1>2. proc'[p] = Keys!Idle
  BY DEF KeyInv
<1>3. Keys!Idle' = Keys!Idle /\ None \notin {"fresh", "rotate", "start", "migrate"}
  BY DEF Keys!Idle, KeyConstants, Ops
<1>4. ProcOK(p)'
  BY <1>1, <1>2, <1>3 DEF ProcOK
<1>5. ~Reader(p)' /\ ~Unsettling(p)'
  BY <1>1, <1>2, <1>3 DEF Reader, Unsettling
<1> QED
  BY <1>1, <1>3, <1>4, <1>5, OneProcess

\* Starting without a file, and the operator's rotation, generate an identity.
LEMMA GenerateStep ==
    ASSUME KeyConstants, KeyInv, NEW p \in Process, NEW command \in {"fresh", "rotate"},
           Keys!Generate(p, command),
           UNCHANGED <<opts, file, archive, last, started>>,
           command = "fresh" => file = None,
           command = "rotate" => \A q \in Process : proc[q].op = None,
           \A q \in Process : proc[q].op # "rotate"
    PROVE  KeyInv'
<1> DEFINE new == [id |-> nextId, format |-> 3]
           r == [Keys!Idle EXCEPT !.pc = "save", !.op = command, !.pass = Keys!Effective, !.keys = new]
<1>1. proc' = [proc EXCEPT ![p] = r] /\ nextId' = nextId + 1
  BY DEF Keys!Generate, Keys!Set
<1>2. nextId \in Nat /\ opts \in Keys!Options /\ proc'[p] = r
  BY <1>1 DEF KeyInv
<1>3. Keys!Effective \in Passphrase \cup {None}
  BY <1>2 DEF Keys!Effective, Keys!Options
<1>4. new \in InMemory /\ new.format = 3
  BY <1>2 DEF InMemory
<1> HIDE DEF new
<1>5. r \in ProcState /\ r.op = command /\ r.pc = "save" /\ r.keys \in InMemory /\ r.keys.format = 3
      /\ r.pass = Keys!Effective /\ r.tmp = None
  BY <1>3, <1>4 DEF ProcState, Steps, Ops, Keys!Idle
<1>6. Keys!Effective' = Keys!Effective
  BY DEF Keys!Effective
<1> HIDE DEF r
<1>7. ProcOK(p)'
  BY <1>2, <1>5, <1>6 DEF ProcOK, KeyConstants, Ops
<1>8. ~Reader(p)' /\ (Unsettling(p)' => command = "fresh")
  BY <1>2, <1>5 DEF Reader, Unsettling
<1>9. command = "fresh" => NoRewrite
  <2>1. file = None => \A q \in Process : ~Reader(q)
    BY DEF KeyInv, Usable, KeyConstants
  <2> QED
    BY <2>1 DEF NoRewrite
<1>10. (started' => Usable(file)) /\ nextId' \in Nat
  BY <1>1, <1>2 DEF KeyInv
<1>11. r.op = "rotate" => \A q \in Process \ {p} : proc[q].op = None
  BY <1>5
<1>12. \A q \in Process \ {p} : proc[q].op # "rotate"
  OBVIOUS
<1> QED
  BY <1>1, <1>7, <1>8, <1>9, <1>10, <1>11, <1>12, OneProcess

MigrateSteps == {"backup", "copy", "copying", "migrate", "save"}

\* A process that works on the file it read moves on to r.
LEMMA ReaderStep ==
    ASSUME KeyConstants, KeyInv, NEW p \in Process, NEW r \in ProcState,
           proc' = [proc EXCEPT ![p] = r],
           UNCHANGED <<opts, file, archive, last, nextId, started>>,
           r.op \in {"start", "migrate"}, r.keys \in InMemory, r.pass \in {None, Keys!Effective},
           r.op = "start" /\ r.pass = None => opts.explicit = None,
           r.op = "migrate" => r.pc \in MigrateSteps,
           r.tmp # None => r.pc \in {"save", "reencrypt"} /\ r.tmp = Keys!KeyFile(r.keys.id, r.keys.format, r.pass),
           Usable(file), \A q \in Process \ {p} : proc[q].op # "rotate",
           r.keys.id # last => NoRewrite,
           NoRewrite => r.op = "start" /\ r.keys.format = 3 /\ r.pc \in {"loaded", "upgrade"}
    PROVE  KeyInv'
<1>1. proc'[p] = r
  BY DEF KeyInv
<1>2. r.op # None /\ r.op \notin {"fresh", "rotate"}
  BY DEF KeyConstants, Ops
<1>3. Keys!Effective' = Keys!Effective /\ opts' = opts
  BY DEF Keys!Effective
<1>4. Keys!Content(p)' = Keys!KeyFile(r.keys.id, r.keys.format, r.pass)
  BY <1>1 DEF Keys!Content, Keys!KeyFile
<1>5. ProcOK(p)'
  BY <1>1, <1>2, <1>3, <1>4 DEF ProcOK, MigrateSteps
<1>6. Unsettling(p)' => NoRewrite
  BY <1>1, <1>2 DEF Unsettling
<1>7. nextId' \in Nat /\ (started' => Usable(file))
  BY DEF KeyInv
<1> QED
  BY <1>2, <1>5, <1>6, <1>7, OneProcess

\* What the place of a reader says of it.
LEMMA ReaderFacts ==
    ASSUME KeyConstants, KeyInv, NEW p \in Process,
           proc[p].pc \in {"loaded", "reencrypt", "upgrade", "backup", "copy", "copying", "migrate"}
    PROVE  /\ Reader(p) /\ Usable(file) /\ file.id = last /\ proc[p] \in ProcState
           /\ proc[p].keys \in InMemory /\ proc[p].pass \in {None, Keys!Effective}
           /\ proc[p].pc \in {"loaded", "reencrypt", "upgrade"} => proc[p].op = "start"
           /\ proc[p].op = "start" /\ proc[p].pass = None => opts.explicit = None
           /\ proc[p].pc # "reencrypt" => proc[p].tmp = None
           /\ \A q \in Process \ {p} : proc[q].op # "rotate"
           /\ proc[p].keys.id # last => NoRewrite
           /\ NoRewrite => proc[p].keys.format = 3 /\ proc[p].pc \in {"loaded", "upgrade"}
<1>1. ProcOK(p)
  BY DEF KeyInv
<1>2. proc[p].op # None /\ proc[p].op \in Ops \cup {None}
  BY <1>1 DEF ProcOK, Keys!Idle, ProcState
<1>3. proc[p].op \in {"start", "migrate"}
  BY <1>1, <1>2 DEF ProcOK, Ops
<1>4. Reader(p) /\ Usable(file) /\ file.id = last
  BY <1>3 DEF Reader, KeyInv, Usable, KeyConstants
<1>5. \A q \in Process \ {p} : proc[q].op # "rotate"
  BY <1>2 DEF KeyInv
<1>6. proc[p].keys.id # last => NoRewrite
  BY <1>4 DEF KeyInv, Unsettling
<1>7. NoRewrite => proc[p].keys.format = 3 /\ proc[p].pc \in {"loaded", "upgrade"}
  BY <1>4 DEF NoRewrite
<1> QED
  BY <1>1, <1>2, <1>3, <1>4, <1>5, <1>6, <1>7 DEF ProcOK

\* A process loads the file, or the command that migrates it does.
LEMMA LoadStep ==
    ASSUME KeyConstants, KeyInv, NEW p \in Process, Keys!Load(p) \/ Keys!CommandMigrate(p)
    PROVE  KeyInv'
<1>1. file \in KeyRecord /\ file.id = last /\ opts \in Keys!Options
  BY DEF KeyInv, Keys!Load, Keys!CommandMigrate
<1>2. UNCHANGED <<opts, file, archive, last, nextId, started>> /\ \A q \in Process \ {p} : proc[q].op # "rotate"
  BY DEF Keys!Load, Keys!CommandMigrate, Keys!Free
<1>3. Keys!Idle \in ProcState /\ Keys!Idle.tmp = None
  BY DEF Keys!Idle, ProcState, Steps
<1>4. NoRewrite => file.format = 3
  BY <1>1 DEF NoRewrite, Settled, KeyConstants
<1>5. CASE Keys!Load(p)
  <2> DEFINE k == [id |-> file.id, format |-> file.format]
             r == [Keys!Idle EXCEPT !.pc = "loaded", !.op = "start", !.pass = Keys!LoadPass(file), !.keys = k]
  <2>1. proc' = [proc EXCEPT ![p] = r]
    BY <1>5 DEF Keys!Load, Keys!Set
  <2>2. k \in InMemory /\ k.id = last /\ k.format = file.format
    BY <1>1 DEF KeyRecord, InMemory
  <2>3. Usable(file)
    BY <1>1, <1>5, LoadsUsable DEF Keys!Load
  <2>4. /\ Keys!LoadPass(file) \in {None, Keys!Effective}
        /\ Keys!LoadPass(file) \in Passphrase \cup {None}
        /\ Keys!LoadPass(file) = None => opts.explicit = None
    BY <1>1, <2>3 DEF Keys!LoadPass, Keys!Effective, Keys!Options, Usable
  <2> HIDE DEF k
  <2>5. /\ r \in ProcState /\ r.op = "start" /\ r.pc = "loaded" /\ r.keys = k
        /\ r.pass = Keys!LoadPass(file) /\ r.tmp = None
    BY <1>3, <2>2, <2>4 DEF ProcState, Steps, Ops, Keys!Idle
  <2> HIDE DEF r
  <2> QED
    BY <1>2, <1>4, <2>1, <2>2, <2>3, <2>4, <2>5, ReaderStep
<1>6. CASE Keys!CommandMigrate(p)
  <2> DEFINE k == [id |-> file.id, format |-> 2]
             r == [Keys!Idle EXCEPT !.pc = "backup", !.op = "migrate", !.pass = opts.explicit, !.keys = k]
  <2>1. proc' = [proc EXCEPT ![p] = r] /\ file.format # 3
    BY <1>6 DEF Keys!CommandMigrate, Keys!Set
  <2>2. k \in InMemory /\ k.id = last
    BY <1>1 DEF KeyRecord, InMemory
  <2>3. Usable(file)
    BY <1>1, <1>6, LoadsUsable DEF Keys!CommandMigrate
  <2>4. opts.explicit \in {None, Keys!Effective} /\ opts.explicit \in Passphrase \cup {None}
    BY <1>1 DEF Keys!Effective, Keys!Options
  <2> HIDE DEF k
  <2>5. /\ r \in ProcState /\ r.op = "migrate" /\ r.pc = "backup" /\ r.keys = k
        /\ r.pass = opts.explicit /\ r.tmp = None
    BY <1>3, <2>2, <2>4 DEF ProcState, Steps, Ops, Keys!Idle
  <2> HIDE DEF r
  <2> QED
    BY <1>2, <1>4, <2>1, <2>2, <2>3, <2>4, <2>5, ReaderStep DEF MigrateSteps
<1> QED
  BY <1>5, <1>6

\* A daemon decides whether to encrypt the file forward.
LEMMA ReEncryptStep ==
    ASSUME KeyConstants, KeyInv, NEW p \in Process, Keys!ReEncrypt(p)
    PROVE  KeyInv'
<1> DEFINE me == proc[p]
<1>1. me.pc = "loaded" /\ UNCHANGED <<opts, file, archive, last, nextId, started>> /\ opts \in Keys!Options
  BY DEF Keys!ReEncrypt, KeyInv
<1>2. /\ Usable(file) /\ me \in ProcState /\ me.op = "start" /\ me.tmp = None
      /\ me.keys \in InMemory /\ me.pass \in {None, Keys!Effective}
      /\ me.pass = None => opts.explicit = None
      /\ \A q \in Process \ {p} : proc[q].op # "rotate"
      /\ me.keys.id # last => NoRewrite
      /\ NoRewrite => me.keys.format = 3
  BY <1>1, ReaderFacts
<1>3. CASE Keys!EncryptionPass(p) # None /\ ~opts.plain /\ file.pass = None
  <2> DEFINE r == [me EXCEPT !.pc = "reencrypt", !.pass = Keys!EncryptionPass(p)]
  <2>1. proc' = [proc EXCEPT ![p] = r]
    BY <1>3 DEF Keys!ReEncrypt, Keys!Set
  <2>2. Keys!EncryptionPass(p) = Keys!Effective
    BY <1>2, <1>3 DEF Keys!EncryptionPass, Keys!Effective
  <2>3. Keys!Effective \in Passphrase \cup {None}
    BY <1>1 DEF Keys!Effective, Keys!Options
  <2>4. /\ r \in ProcState /\ r.op = "start" /\ r.pc = "reencrypt" /\ r.keys = me.keys
        /\ r.pass = Keys!Effective /\ r.tmp = None
    BY <1>2, <2>2, <2>3 DEF ProcState, Steps
  <2>5. ~NoRewrite
    BY <1>2, <1>3, <2>2 DEF NoRewrite, Settled, Usable, KeyConstants
  <2> HIDE DEF r, me
  <2> QED
    BY <1>1, <1>2, <1>3, <2>1, <2>2, <2>4, <2>5, ReaderStep
<1>4. CASE ~(Keys!EncryptionPass(p) # None /\ ~opts.plain /\ file.pass = None)
  <2> DEFINE r == [me EXCEPT !.pc = "upgrade"]
  <2>1. proc' = [proc EXCEPT ![p] = r]
    BY <1>4 DEF Keys!ReEncrypt, Keys!Set
  <2>2. /\ r \in ProcState /\ r.op = "start" /\ r.pc = "upgrade" /\ r.keys = me.keys
        /\ r.pass = me.pass /\ r.tmp = None
    BY <1>2 DEF ProcState, Steps
  <2> HIDE DEF r, me
  <2> QED
    BY <1>1, <1>2, <2>1, <2>2, ReaderStep
<1> QED
  BY <1>3, <1>4

\* migrate_keys_to_master_seed up to its save.
LEMMA MigrateStep ==
    ASSUME KeyConstants, KeyInv, NEW p \in Process,
           \/ Keys!BeginMigrate(p) \/ Keys!CheckBackup(p) \/ Keys!CopyBegins(p)
           \/ Keys!CopyEnds(p) \/ Keys!Migrate(p)
    PROVE  KeyInv'
<1> DEFINE me == proc[p]
<1>1. /\ me.pc \in {"upgrade", "backup", "copy", "copying", "migrate"}
      /\ UNCHANGED <<opts, file, archive, last, nextId>>
      /\ me.pc = "upgrade" => me.keys.format # 3
  BY DEF Keys!BeginMigrate, Keys!CheckBackup, Keys!CopyBegins, Keys!CopyEnds, Keys!Migrate
<1>2. /\ Reader(p) /\ Usable(file) /\ file.id = last /\ me \in ProcState /\ me.tmp = None
      /\ me.keys \in InMemory /\ me.pass \in {None, Keys!Effective}
      /\ me.op = "start" /\ me.pass = None => opts.explicit = None
      /\ \A q \in Process \ {p} : proc[q].op # "rotate"
      /\ me.keys.id # last => NoRewrite
      /\ ~NoRewrite
      /\ me.pc = "upgrade" => me.op = "start"
  BY <1>1, ReaderFacts
<1>3. nextId' \in Nat /\ (started => Usable(file))
  BY <1>1 DEF KeyInv
<1>4. ASSUME NEW step \in MigrateSteps, NEW k \in InMemory, k.id = last,
             UNCHANGED started, proc' = [proc EXCEPT ![p] = [me EXCEPT !.pc = step, !.keys = k]]
      PROVE  KeyInv'
  <2> DEFINE r == [me EXCEPT !.pc = step, !.keys = k]
  <2>1. /\ r \in ProcState /\ r.op = me.op /\ r.pc = step /\ r.keys = k
        /\ r.pass = me.pass /\ r.tmp = None
    BY <1>2 DEF ProcState, Steps, MigrateSteps
  <2>2. proc' = [proc EXCEPT ![p] = r]
    BY <1>4
  <2> HIDE DEF r, me
  <2>3. r.op \in {"start", "migrate"}
    BY <1>2, <2>1 DEF Reader, me
  <2> QED
    BY <1>1, <1>2, <1>4, <2>1, <2>2, <2>3, ReaderStep
<1>5. ASSUME proc' = [proc EXCEPT ![p] = Keys!Idle] PROVE KeyInv'
  BY <1>1, <1>2, <1>3, <1>5, ProcessEnds
<1>6. ASSUME NEW step, UNCHANGED started, step \in MigrateSteps, proc' = [proc EXCEPT ![p] = [me EXCEPT !.pc = step]]
      PROVE  KeyInv'
  <2>1. [me EXCEPT !.pc = step] = [me EXCEPT !.pc = step, !.keys = me.keys]
    BY <1>2 DEF ProcState
  <2> QED
    BY <1>2, <1>4, <1>6, <2>1
<1>7. CASE Keys!BeginMigrate(p)
  <2>1. CASE Keys!Loads(file, me.pass) /\ file.format # 3
    <3> DEFINE k == [me.keys EXCEPT !.id = file.id]
    <3>1. proc' = [proc EXCEPT ![p] = [me EXCEPT !.pc = "backup", !.keys.id = file.id]] /\ UNCHANGED started
      BY <1>7, <2>1 DEF Keys!BeginMigrate, Keys!Set
    <3>2. k \in InMemory /\ k.id = last
      BY <1>2 DEF InMemory, Usable, KeyRecord
    <3>3. [me EXCEPT !.pc = "backup", !.keys.id = file.id] = [me EXCEPT !.pc = "backup", !.keys = k]
      BY <1>2 DEF ProcState
    <3> QED
      BY <1>4, <3>1, <3>2, <3>3 DEF MigrateSteps
  <2>2. CASE ~(Keys!Loads(file, me.pass) /\ file.format # 3)
    BY <1>5, <1>7, <2>2 DEF Keys!BeginMigrate, Keys!Done, Keys!Set
  <2> QED
    BY <2>1, <2>2
<1>8. CASE Keys!CheckBackup(p)
  BY <1>6, <1>8 DEF Keys!CheckBackup, Keys!Set, MigrateSteps
<1>9. CASE Keys!CopyBegins(p) \/ Keys!CopyEnds(p)
  BY <1>6, <1>9 DEF Keys!CopyBegins, Keys!CopyEnds, Keys!Set, MigrateSteps
<1>10. CASE Keys!Migrate(p)
  <2>1. CASE me.op = "migrate" /\ me.pass = None
    BY <1>5, <1>10, <2>1 DEF Keys!Migrate, Keys!Done, Keys!Set
  <2>2. CASE ~(me.op = "migrate" /\ me.pass = None)
    <3> DEFINE k == [me.keys EXCEPT !.format = 3]
    <3>1. proc' = [proc EXCEPT ![p] = [me EXCEPT !.pc = "save", !.keys.format = 3]] /\ UNCHANGED started
      BY <1>10, <2>2 DEF Keys!Migrate, Keys!Set
    <3>2. k \in InMemory /\ k.id = last
      BY <1>2 DEF InMemory
    <3>3. [me EXCEPT !.pc = "save", !.keys.format = 3] = [me EXCEPT !.pc = "save", !.keys = k]
      BY <1>2 DEF ProcState
    <3> QED
      BY <1>4, <3>1, <3>2, <3>3 DEF MigrateSteps
  <2> QED
    BY <2>1, <2>2
<1> QED
  BY <1>7, <1>8, <1>9, <1>10

\* save_keys writes its temporary file.
LEMMA WriteTmpStep ==
    ASSUME KeyConstants, KeyInv, NEW p \in Process, Keys!WriteTmp(p)
    PROVE  KeyInv'
<1> DEFINE me == proc[p]
           r == [me EXCEPT !.tmp = Keys!Content(p)]
<1>1. /\ me.pc \in {"save", "reencrypt"} /\ proc' = [proc EXCEPT ![p] = r]
      /\ UNCHANGED <<opts, file, archive, last, nextId, started>>
  BY DEF Keys!WriteTmp, Keys!Set
<1>2. ProcOK(p) /\ nextId \in Nat /\ (started => Usable(file)) /\ proc'[p] = r
  BY <1>1 DEF KeyInv
<1>3. me.op # None /\ me \in ProcState /\ me.keys \in InMemory
  BY <1>1, <1>2 DEF ProcOK, Keys!Idle
<1>4. Keys!Content(p) \in KeyRecord
  BY <1>3 DEF Keys!Content, Keys!KeyFile, KeyRecord, InMemory, ProcState
<1>5. /\ r \in ProcState /\ r.op = me.op /\ r.pc = me.pc /\ r.keys = me.keys /\ r.pass = me.pass
      /\ r.tmp = Keys!Content(p)
  BY <1>3, <1>4 DEF ProcState
<1> HIDE DEF r
<1>6. Keys!Content(p)' = Keys!Content(p) /\ Keys!Effective' = Keys!Effective
  BY <1>1, <1>2, <1>5 DEF Keys!Content, Keys!KeyFile, Keys!Effective
<1>7. ProcOK(p)'
  BY <1>1, <1>2, <1>3, <1>5, <1>6 DEF ProcOK
<1>8. /\ Reader(p)' <=> Reader(p)
      /\ Unsettling(p)' <=> Unsettling(p)
  BY <1>1, <1>2, <1>5 DEF Reader, Unsettling
<1>9. Reader(p) => Usable(file) /\ ~NoRewrite
  BY <1>1 DEF KeyInv, NoRewrite
<1>10. Unsettling(p) => NoRewrite
  BY DEF KeyInv
<1>11. /\ r.op = "rotate" => \A q \in Process \ {p} : proc[q].op = None
       /\ \A q \in Process \ {p} : proc[q].op # "rotate"
  BY <1>3, <1>5 DEF KeyInv
<1> QED
  BY <1>1, <1>2, <1>7, <1>8, <1>9, <1>10, <1>11, OneProcess

\* The rename that puts a file in place: a fresh or rotated identity where no
\* reader is going to write, or the identity that is there already.
LEMMA ReplaceStep ==
    ASSUME KeyConstants, KeyInv, NEW p \in Process, Keys!Replace(p)
    PROVE  KeyInv'
<1> DEFINE me == proc[p]
           next == [me EXCEPT !.pc = "upgrade", !.tmp = None]
<1>1. /\ me.tmp # None /\ file' = me.tmp
      /\ last' = IF me.op \in {"rotate", "fresh"} THEN me.tmp.id ELSE last
      /\ UNCHANGED <<opts, archive, nextId>>
      /\ proc' = [proc EXCEPT ![p] = IF me.pc = "reencrypt" THEN next ELSE Keys!Idle]
  BY DEF Keys!Replace, Keys!Set, Keys!Done
<1>2. ProcOK(p) /\ DOMAIN proc = Process
  BY DEF KeyInv
<1>3. /\ me.op # None /\ me \in ProcState /\ me.keys \in InMemory
      /\ me.pc \in {"save", "reencrypt"} /\ me.tmp = Keys!Content(p) /\ me.pass \in {None, Keys!Effective}
  BY <1>1, <1>2 DEF ProcOK, Keys!Idle
<1>4. /\ me.tmp \in KeyRecord /\ me.tmp.id = me.keys.id
      /\ me.tmp.format = me.keys.format /\ me.tmp.pass = me.pass
  BY <1>3 DEF Keys!Content, Keys!KeyFile, KeyRecord, InMemory, ProcState
<1>5. Keys!Effective' = Keys!Effective /\ opts' = opts
  BY <1>1 DEF Keys!Effective
<1>6. Usable(file)'
  BY <1>1, <1>3, <1>4, <1>5 DEF Usable
<1>7. me.op \in {"fresh", "rotate"} \/ Reader(p)
  BY <1>3 DEF ProcState, Ops, Reader
<1>8. Reader(p) => ~NoRewrite /\ me.keys.id = last
  BY <1>3 DEF KeyInv, NoRewrite, Unsettling
<1>9. file' \in KeyRecord /\ file'.id = last'
  BY <1>1, <1>4, <1>7, <1>8 DEF Reader
<1>10. DOMAIN proc' = Process /\ \A q \in Process \ {p} : proc'[q] = proc[q]
  BY <1>1, <1>2
<1>11. /\ proc'[p].op \in {None, me.op}
       /\ proc'[p].op # None => me.pc = "reencrypt" /\ proc'[p].keys = me.keys
       /\ ProcOK(p)'
  <2>1. CASE me.pc = "reencrypt"
    <3>1. proc'[p] = next
      BY <1>1, <1>2, <2>1
    <3>2. /\ next \in ProcState /\ next.op = me.op /\ next.pc = "upgrade" /\ next.keys = me.keys
          /\ next.pass = me.pass /\ next.tmp = None
      BY <1>3 DEF ProcState, Steps
    <3>3. me.op = "start"
      BY <1>2, <1>7, <2>1 DEF ProcOK, Reader
    <3> HIDE DEF next
    <3> QED
      BY <1>2, <1>3, <1>5, <2>1, <3>1, <3>2, <3>3 DEF ProcOK
  <2>2. CASE me.pc # "reencrypt"
    <3>1. proc'[p] = Keys!Idle
      BY <1>1, <1>2, <2>2
    <3>2. /\ Keys!Idle \in ProcState /\ Keys!Idle.op = None /\ Keys!Idle.pass = None
          /\ Keys!Idle.tmp = None /\ Keys!Idle' = Keys!Idle
      BY DEF Keys!Idle, ProcState, Steps
    <3> QED
      BY <3>1, <3>2 DEF ProcOK, KeyConstants, Ops
  <2> QED
    BY <2>1, <2>2
<1>12. \A q \in Process : ProcOK(q)'
  <2> SUFFICES ASSUME NEW q \in Process, q # p PROVE ProcOK(q)'
    BY <1>11
  <2>1. ProcOK(q) /\ proc'[q] = proc[q]
    BY <1>10 DEF KeyInv
  <2> QED
    BY <1>5, <2>1 DEF ProcOK, Keys!Content, Keys!KeyFile, Keys!Idle
<1>13. \A x, y \in Process : proc'[x].op = "rotate" /\ x # y => proc'[y].op = None
  BY <1>10, <1>11 DEF KeyInv, KeyConstants, Ops
<1>14. ASSUME NEW q \in Process, Unsettling(q)'
       PROVE  NoRewrite'
  <2>1. CASE Reader(p)
    <3>1. last' = last
      BY <1>1, <2>1 DEF Reader
    <3>2. q # p
      BY <1>8, <1>11, <1>14, <2>1, <3>1 DEF Unsettling, Reader, KeyConstants, Ops
    <3>3. Unsettling(q)
      BY <1>10, <1>14, <3>1, <3>2 DEF Unsettling, Reader
    <3> QED
      BY <1>8, <2>1, <3>3 DEF KeyInv
  <2>2. CASE me.op = "rotate"
    <3>1. \A x \in Process : x # p => proc'[x].op = None
      BY <1>10, <2>2 DEF KeyInv
    <3>2. me.pc # "reencrypt"
      BY <1>2, <2>2 DEF ProcOK
    <3> QED
      BY <1>11, <1>14, <3>1, <3>2 DEF Unsettling, Reader, KeyConstants, Ops
  <2>3. CASE me.op = "fresh"
    <3>1. NoRewrite
      BY <2>3 DEF KeyInv, Unsettling
    <3>2. Settled(file)'
      BY <1>1, <1>2, <1>4, <1>5, <2>3 DEF Settled, ProcOK
    <3>3. me.pc # "reencrypt"
      BY <1>2, <2>3 DEF ProcOK
    <3>4. \A x \in Process : Reader(x)' => x # p /\ Reader(x) /\ proc'[x] = proc[x]
      BY <1>10, <1>11, <3>3 DEF Reader, KeyConstants, Ops
    <3> QED
      BY <3>1, <3>2, <3>4 DEF NoRewrite
  <2> QED
    BY <1>7, <2>1, <2>2, <2>3
<1>15. archive' = None \/ Usable(archive)'
  BY <1>1, <1>5 DEF KeyInv, Usable
<1>16. opts' \in Keys!Options /\ nextId' \in Nat
  BY <1>1 DEF KeyInv, Keys!Options
<1> QED
  BY <1>6, <1>9, <1>10, <1>12, <1>13, <1>14, <1>15, <1>16 DEF KeyInv

\* create_backup and restore_backup run while nothing else does.
LEMMA BackupStep ==
    ASSUME KeyConstants, KeyInv, Keys!Backup \/ Keys!Restore
    PROVE  KeyInv'
<1>1. /\ UNCHANGED <<opts, proc, nextId, started>> /\ opts \in Keys!Options /\ nextId \in Nat
      /\ \A p \in Process : proc[p] = Keys!Idle /\ ProcOK(p)
      /\ DOMAIN proc = Process
  BY DEF Keys!Backup, Keys!Restore, Keys!Alone, KeyInv
<1>2. Keys!Idle.op = None /\ None \notin Ops
  BY DEF Keys!Idle, KeyConstants
<1>3. Keys!Effective' = Keys!Effective
  BY <1>1 DEF Keys!Effective
<1>4. \A p \in Process : ProcOK(p)' /\ ~Reader(p)' /\ ~Unsettling(p)' /\ proc'[p].op = None
  <2> SUFFICES ASSUME NEW p \in Process
               PROVE  ProcOK(p)' /\ ~Reader(p)' /\ ~Unsettling(p)' /\ proc'[p].op = None
    OBVIOUS
  <2>1. proc'[p] = proc[p] /\ proc[p].op = None
    BY <1>1, <1>2
  <2>2. ProcOK(p)'
    BY <1>1, <1>3, <2>1 DEF ProcOK, Keys!Content, Keys!KeyFile, Keys!Idle
  <2> QED
    BY <1>2, <2>1, <2>2 DEF Reader, Unsettling, Ops
<1>5. CASE Keys!Backup
  <2>1. archive' = file /\ file' = file /\ last' = last /\ Usable(file)
    BY <1>5 DEF Keys!Backup, KeyInv
  <2>2. Usable(file)' /\ Usable(archive)'
    BY <1>3, <2>1 DEF Usable
  <2>3. file' \in KeyRecord /\ file'.id = last'
    BY <2>1 DEF KeyInv, Usable, KeyConstants
  <2> QED
    BY <1>1, <1>4, <2>2, <2>3 DEF KeyInv, Keys!Options
<1>6. CASE Keys!Restore
  <2>1. archive' = archive /\ file' = archive /\ last' = archive.id /\ Usable(archive)
    BY <1>6 DEF Keys!Restore, KeyInv
  <2>2. Usable(file)' /\ Usable(archive)'
    BY <1>3, <2>1 DEF Usable
  <2>3. file' \in KeyRecord /\ file'.id = last'
    BY <2>1 DEF Usable
  <2> QED
    BY <1>1, <1>4, <2>2, <2>3 DEF KeyInv, Keys!Options
<1> QED
  BY <1>5, <1>6

\* Every step of an installation keeps the invariant.
LEMMA KeyStep ==
    ASSUME KeyConstants, KeyInv, [Keys!Next]_(Keys!keyVars)
    PROVE  KeyInv'
<1>1. ASSUME NEW p \in Process, Keys!StartFresh(p) PROVE KeyInv'
  <2>1. \A q \in Process : proc[q].op # "rotate"
    BY <1>1 DEF Keys!StartFresh, Keys!Free
  <2> QED
    BY <1>1, <2>1, GenerateStep DEF Keys!StartFresh
<1>2. ASSUME NEW p \in Process, Keys!Rotate(p) PROVE KeyInv'
  <2>1. \A q \in Process : proc[q].op = None /\ proc[q].op # "rotate"
    BY <1>2 DEF Keys!Rotate, Keys!Alone, Keys!Idle, KeyConstants, Ops
  <2> QED
    BY <1>2, <2>1, GenerateStep DEF Keys!Rotate
<1>3. ASSUME NEW p \in Process, Keys!Run(p) PROVE KeyInv'
  <2>1. Usable(file) /\ nextId \in Nat
    BY <1>3, ReaderFacts DEF Keys!Run, KeyInv
  <2> QED
    BY <1>3, <2>1, ProcessEnds DEF Keys!Run, Keys!Done, Keys!Set
<1>4. ASSUME NEW p \in Process, Keys!Crash(p) PROVE KeyInv'
  <2>1. nextId \in Nat /\ (started => Usable(file))
    BY DEF KeyInv
  <2> QED
    BY <1>4, <2>1, ProcessEnds DEF Keys!Crash, Keys!Done, Keys!Set
<1>5. CASE UNCHANGED Keys!keyVars
  <2> USE DEF Keys!keyVars
  <2>1. \A p \in Process : ProcOK(p)'
    BY <1>5 DEF KeyInv, ProcOK, Keys!Effective, Keys!Content, Keys!KeyFile, Keys!Idle
  <2>2. (started' => Usable(file)') /\ (archive' = None \/ Usable(archive)')
    BY <1>5 DEF KeyInv, Usable, Keys!Effective
  <2>3. \A p \in Process : Reader(p)' => Usable(file)'
    BY <1>5 DEF KeyInv, Reader, Usable, Keys!Effective
  <2>4. \A p \in Process : Unsettling(p)' => NoRewrite'
    BY <1>5 DEF KeyInv, Unsettling, NoRewrite, Reader, Settled, Keys!Effective
  <2> QED
    BY <1>5, <2>1, <2>2, <2>3, <2>4 DEF KeyInv, Keys!Options
<1> QED
  BY <1>1, <1>2, <1>3, <1>4, <1>5, LoadStep, ReEncryptStep, MigrateStep, WriteTmpStep,
     ReplaceStep, BackupStep DEF Keys!Next

\* An installation with a whole key file, or without one, satisfies it.
LEMMA KeyInit ==
    ASSUME KeyConstants, Keys!Init
    PROVE  KeyInv
<1>1. \A p \in Process : proc[p] = Keys!Idle
  BY DEF Keys!Init
<1>2. Keys!Idle \in ProcState /\ Keys!Idle.op = None /\ Keys!Idle.pass = None /\ Keys!Idle.tmp = None
  BY DEF Keys!Idle, ProcState, Steps
<1>3. \A p \in Process : ProcOK(p) /\ ~Reader(p) /\ ~Unsettling(p) /\ proc[p].op = None
  BY <1>1, <1>2 DEF ProcOK, Reader, Unsettling, KeyConstants, Ops
<1>4. file = None \/ (file \in KeyRecord /\ file.id = last)
  BY DEF Keys!Init, KeyConstants
<1> QED
  BY <1>3, <1>4 DEF Keys!Init, KeyInv

\* keys.py and ensure_agent_keys, rotate_keys, backup.py: whatever processes
\* start on one key file at once and wherever they die, the file is whole and
\* holds the identity that was generated, rotated to or restored last, and an
\* installation that came up once can load its keys with the same options.
THEOREM KeyFileSafe ==
    ASSUME KeyConstants
    PROVE  Keys!Spec => []IdentityKept
<1>1. Keys!Init => KeyInv
  BY KeyInit
<1>2. KeyInv /\ [Keys!Next]_(Keys!keyVars) => KeyInv'
  BY KeyStep
<1>3. KeyInv => IdentityKept
  <2> SUFFICES ASSUME KeyInv PROVE Keys!IdentityKept /\ Keys!Startable
    BY DEF IdentityKept
  <2>1. Keys!IdentityKept
    BY DEF KeyInv, KeyConstants, Keys!IdentityKept
  <2>2. started => Usable(file) /\ file \in KeyRecord
    BY DEF KeyInv, Usable
  <2> QED
    BY <2>1, <2>2, LoadsUsable DEF Keys!Startable
<1> QED
  BY <1>1, <1>2, <1>3, PTL DEF Keys!Spec

-----------------------------------------------------------------------------
(***************************************************************************)
(* The audit log                                                           *)
(***************************************************************************)
LogConstants == RotateAt \in Nat \ {0} /\ MaxArchives \in Nat \ {0}

Line == [id : Int, prev : Int, anchor : Int]
Ages == 0 .. MaxArchives
Places == {"idle", "write", "size", "shift", "anchor"}

\* Files by age, as one function.
ByAge == [k \in Ages |-> Log!File(k)]

\* Every entry of a file is chained to the last one before it that parses.
Chained(f) == \A i \in 1 .. Len(f) : f[i] # Log!TornLine => f[i].prev = Log!HmacAt(f, i - 1)
Untorn(f) == \A i \in 1 .. Len(f) : f[i] # Log!TornLine
LastId(f) == f[Len(f)].id

\* Each file opens with an anchor to the tail of the next older one there is.
Adjacent(F, new, old) ==
    /\ new < old /\ F[new] # <<>> /\ F[old] # <<>>
    /\ \A k \in new + 1 .. old - 1 : F[k] = <<>>
Linked(F) == \A new, old \in Ages : Adjacent(F, new, old) => F[new][1].anchor = LastId(F[old])

LogTypes ==
    /\ live \in Seq(Line) /\ logs \in [1 .. MaxArchives -> Seq(Line)]
    /\ at \in [Process -> Places] /\ tail \in [Process -> Int] /\ slot \in Int
    /\ count \in Nat /\ crashes \in Nat /\ logFaults \in Nat /\ stuck \in Nat

\* One process is in log(); what it read of the tail is still the tail, and
\* while it renames, the place it renames to is free or the oldest archive's.
LogOrder ==
    /\ \A x, y \in Process : at[x] # "idle" /\ at[y] # "idle" => x = y
    /\ \A x \in Process :
         /\ at[x] = "write" => tail[x] = Log!HmacAt(live, Len(live))
         /\ at[x] = "anchor" => live = <<>>
         /\ at[x] = "shift" => slot \in 0 .. MaxArchives - 1
         /\ at[x] = "shift" /\ stuck = 0 => slot + 1 = MaxArchives \/ logs[slot + 1] = <<>>

Clean == crashes = 0 /\ logFaults = 0 /\ stuck = 0

\* What holds as long as nothing has failed.
LogClean ==
    Clean =>
       /\ \A k \in Ages : Untorn(ByAge[k])
       /\ Linked(ByAge)
       /\ live = <<>> => (\E x \in Process : at[x] = "anchor") \/ \A k \in 1 .. MaxArchives : logs[k] = <<>>
       /\ \A x \in Process :
            /\ at[x] \in {"size", "shift"} => live # <<>> /\ tail[x] = LastId(live)
            /\ at[x] = "anchor" => logs[1] # <<>> /\ tail[x] = LastId(logs[1])

LogInv == LogTypes /\ LogOrder /\ (\A k \in Ages : Chained(ByAge[k])) /\ LogClean

-----------------------------------------------------------------------------
\* What is appended to a file does not change what precedes it.
LEMMA HmacOfPrefix ==
    ASSUME NEW f \in Seq(Line), NEW e \in Line, NEW k \in 0 .. Len(f)
    PROVE  Log!HmacAt(Append(f, e), k) = Log!HmacAt(f, k)
<1> DEFINE Tails(g) == {i \in 1 .. k : g[i] # Log!TornLine /\ \A j \in i + 1 .. k : g[j] = Log!TornLine}
<1>1. \A i \in 1 .. k : Append(f, e)[i] = f[i]
  OBVIOUS
<1>2. \A i \in 1 .. k : \A j \in i + 1 .. k : j \in 1 .. k
  OBVIOUS
<1>3. Tails(Append(f, e)) = Tails(f)
  BY <1>1, <1>2
<1>4. Tails(f) # {} => (CHOOSE i \in Tails(f) : TRUE) \in 1 .. k
  OBVIOUS
<1>5. \A g : Log!HmacAt(g, k) = IF Tails(g) = {} THEN Log!Genesis ELSE g[CHOOSE i \in Tails(g) : TRUE].id
  BY Zenon DEF Log!HmacAt
<1> HIDE DEF Tails
<1> QED
  BY <1>1, <1>3, <1>4, <1>5

\* The tail of a file whose last line parses is that line's.
LEMMA HmacOfWhole ==
    ASSUME NEW f \in Seq(Line), NEW k \in 1 .. Len(f), f[k] # Log!TornLine
    PROVE  Log!HmacAt(f, k) = f[k].id
<1> DEFINE tails == {i \in 1 .. k : f[i] # Log!TornLine /\ \A j \in i + 1 .. k : f[j] = Log!TornLine}
<1>1. k \in tails
  OBVIOUS
<1>2. \A i \in tails : i = k
  OBVIOUS
<1>3. (CHOOSE i \in tails : TRUE) = k
  BY <1>1, <1>2
<1> QED
  BY <1>1, <1>3 DEF Log!HmacAt

\* A tail is an HMAC.
LEMMA HmacType ==
    ASSUME NEW f \in Seq(Line)
    PROVE  Log!HmacAt(f, Len(f)) \in Int
<1> DEFINE tails == {i \in 1 .. Len(f) : f[i] # Log!TornLine /\ \A j \in i + 1 .. Len(f) : f[j] = Log!TornLine}
<1>1. tails # {} => (CHOOSE i \in tails : TRUE) \in 1 .. Len(f)
  OBVIOUS
<1>2. \A i \in 1 .. Len(f) : f[i] \in Line
  OBVIOUS
<1>3. Log!HmacAt(f, Len(f)) = IF tails = {} THEN Log!Genesis ELSE f[CHOOSE i \in tails : TRUE].id
  BY Zenon DEF Log!HmacAt
<1> HIDE DEF tails
<1> QED
  BY <1>1, <1>2, <1>3 DEF Log!Genesis, Line

\* A line chained to the tail continues the chain; a torn one does not break it.
LEMMA ChainGrows ==
    ASSUME NEW f \in Seq(Line), Chained(f), NEW e \in Line,
           e # Log!TornLine => e.prev = Log!HmacAt(f, Len(f))
    PROVE  Chained(Append(f, e))
<1> DEFINE g == Append(f, e)
<1>1. /\ Len(g) = Len(f) + 1 /\ g[Len(f) + 1] = e /\ Len(f) \in Nat
      /\ \A i \in 1 .. Len(f) : g[i] = f[i]
  OBVIOUS
<1>2. ASSUME NEW i \in 1 .. Len(g), g[i] # Log!TornLine
      PROVE  g[i].prev = Log!HmacAt(g, i - 1)
  <2>1. i - 1 \in 0 .. Len(f)
    BY <1>1
  <2>2. Log!HmacAt(g, i - 1) = Log!HmacAt(f, i - 1)
    BY <2>1, HmacOfPrefix
  <2>3. CASE i = Len(f) + 1
    BY <1>1, <1>2, <2>2, <2>3
  <2>4. CASE i # Len(f) + 1
    <3>1. i \in 1 .. Len(f)
      BY <1>1, <2>4
    <3> QED
      BY <1>1, <1>2, <2>2, <3>1 DEF Chained
  <2> QED
    BY <2>3, <2>4
<1> QED
  BY <1>2 DEF Chained

\* A file without torn lines that is chained passes verify().
LEMMA ChainVerified ==
    ASSUME NEW f \in Seq(Line), Chained(f), Untorn(f)
    PROVE  Log!Verifies(f)
<1> SUFFICES ASSUME NEW i \in 1 .. Len(f)
             PROVE  f[i] # Log!TornLine /\ f[i].prev = IF i = 1 THEN Log!Genesis ELSE f[i - 1].id
  BY DEF Log!Verifies
<1>1. f[i] # Log!TornLine /\ f[i].prev = Log!HmacAt(f, i - 1)
  BY DEF Chained, Untorn
<1>2. CASE i = 1
  BY <1>1, <1>2 DEF Log!HmacAt
<1>3. CASE i # 1
  <2>1. i - 1 \in 1 .. Len(f) /\ f[i - 1] # Log!TornLine
    BY <1>3 DEF Untorn
  <2> QED
    BY <1>1, <1>3, <2>1, HmacOfWhole
<1> QED
  BY <1>2, <1>3

\* Renaming a file to the next older place, free or the oldest one's, keeps
\* neighbours linked: the live file and an archive alike.
Shifted(F, i) == [k \in Ages |-> IF k = i THEN <<>> ELSE IF k = i + 1 THEN F[i] ELSE F[k]]

LEMMA ShiftLinked ==
    ASSUME LogConstants, NEW F, Linked(F), NEW i \in 0 .. MaxArchives - 1, F[i] # <<>>,
           i + 1 = MaxArchives \/ F[i + 1] = <<>>
    PROVE  Linked(Shifted(F, i))
<1> DEFINE G == Shifted(F, i)
<1>0. /\ G[i] = <<>> /\ G[i + 1] = F[i] /\ i \in Ages /\ i + 1 \in Ages /\ MaxArchives \in Nat
      /\ \A k \in Ages : k # i /\ k # i + 1 => G[k] = F[k]
  BY DEF Shifted, Ages, LogConstants
<1> HIDE DEF G
<1> SUFFICES ASSUME NEW new \in Ages, NEW old \in Ages, Adjacent(G, new, old)
             PROVE  G[new][1].anchor = LastId(G[old])
  BY DEF Linked, G
<1>1. /\ new < old /\ G[new] # <<>> /\ G[old] # <<>> /\ new # i /\ old # i
      /\ \A k \in new + 1 .. old - 1 : G[k] = <<>> /\ k \in Ages
  BY <1>0 DEF Adjacent, Ages
<1>2. CASE new = i + 1
  <2>1. F[i + 1] = <<>> /\ old # i + 1
    BY <1>0, <1>1, <1>2 DEF Ages
  <2>2. ASSUME NEW k \in i + 1 .. old - 1 PROVE F[k] = <<>>
    <3>1. k = i + 1 \/ (k \in new + 1 .. old - 1 /\ k # i /\ k # i + 1)
      BY <1>2 DEF Ages
    <3> QED
      BY <1>0, <1>1, <2>1, <3>1
  <2>3. Adjacent(F, i, old)
    BY <1>0, <1>1, <1>2, <2>1, <2>2 DEF Adjacent, Ages
  <2> QED
    BY <1>0, <1>1, <1>2, <2>1, <2>3 DEF Linked
<1>3. CASE old = i + 1
  <2>1. new < i
    BY <1>0, <1>1, <1>3 DEF Ages
  <2>2. ASSUME NEW k \in new + 1 .. i - 1 PROVE F[k] = <<>>
    <3>1. k \in new + 1 .. old - 1 /\ k # i /\ k # i + 1
      BY <1>3 DEF Ages
    <3> QED
      BY <1>0, <1>1, <3>1
  <2>3. Adjacent(F, new, i)
    BY <1>0, <1>1, <2>1, <2>2 DEF Adjacent, Ages
  <2> QED
    BY <1>0, <1>1, <1>3, <2>1, <2>3 DEF Linked, Ages
<1>4. CASE new # i + 1 /\ old # i + 1
  <2>1. ~(new < i /\ i < old)
    <3> SUFFICES ASSUME new < i, i < old PROVE FALSE
      OBVIOUS
    <3>1. i + 1 \in new + 1 .. old - 1
      BY <1>0, <1>4 DEF Ages
    <3> QED
      BY <1>0, <1>1, <3>1
  <2>2. ASSUME NEW k \in new + 1 .. old - 1 PROVE F[k] = <<>>
    <3>1. k # i /\ k # i + 1
      BY <1>0, <1>1, <1>4, <2>1 DEF Ages
    <3> QED
      BY <1>0, <1>1, <3>1
  <2>3. Adjacent(F, new, old)
    BY <1>0, <1>1, <1>4, <2>2 DEF Adjacent
  <2> QED
    BY <1>0, <1>1, <1>4, <2>3 DEF Linked
<1> QED
  BY <1>2, <1>3, <1>4

-----------------------------------------------------------------------------
\* The files by age before and after a step.
LEMMA AgeFacts ==
    ASSUME LogConstants
    PROVE  /\ ByAge[0] = live /\ ByAge'[0] = live'
           /\ \A k \in 1 .. MaxArchives : ByAge[k] = logs[k] /\ ByAge'[k] = logs'[k]
           /\ 0 \in Ages /\ \A k \in Ages : k = 0 \/ k \in 1 .. MaxArchives
           /\ 1 .. MaxArchives \subseteq Ages
BY DEF LogConstants, ByAge, Ages, Log!File

\* A step by x that leaves the files alone.
LEMMA FilesRest ==
    ASSUME LogConstants, LogInv, UNCHANGED <<live, logs>>
    PROVE  /\ \A k \in Ages : Chained(ByAge'[k]) /\ ByAge'[k] = ByAge[k]
           /\ live' \in Seq(Line) /\ logs' \in [1 .. MaxArchives -> Seq(Line)]
           /\ (\A k \in Ages : Untorn(ByAge[k])) => \A k \in Ages : Untorn(ByAge'[k])
           /\ Linked(ByAge) => Linked(ByAge')
<1>1. ByAge' = ByAge
  BY DEF ByAge, Log!File
<1> QED
  BY <1>1 DEF LogInv, LogTypes

\* log() takes the locks and reads the tail again.
LEMMA LockStep ==
    ASSUME LogConstants, LogInv, NEW x \in Process, Log!Lock(x)
    PROVE  LogInv'
<1>1. /\ \A y \in Process : at[y] = "idle"
      /\ at' = [at EXCEPT ![x] = "write"]
      /\ tail' = [tail EXCEPT ![x] = Log!HmacAt(live, Len(live))]
      /\ UNCHANGED <<live, logs, slot, count, crashes, logFaults, stuck>>
  BY DEF Log!Lock, Log!Free, Log!ReadLastHmac
<1>2. LogTypes
  BY DEF LogInv
<1>3. /\ at'[x] = "write" /\ tail'[x] = Log!HmacAt(live, Len(live))
      /\ \A y \in Process \ {x} : at'[y] = "idle"
  BY <1>1, <1>2 DEF LogTypes
<1>4. Log!HmacAt(live, Len(live)) \in Int
  BY <1>2, HmacType DEF LogTypes
<1>5. LogTypes'
  BY <1>1, <1>2, <1>4 DEF LogTypes, Places
<1>6. LogOrder'
  BY <1>1, <1>3 DEF LogOrder
<1>7. LogClean'
  BY <1>1, <1>3, FilesRest DEF LogInv, LogClean, Clean
<1> QED
  BY <1>1, <1>5, <1>6, <1>7, FilesRest DEF LogInv

\* The file is small enough, or the shift begins.
LEMMA SizeStep ==
    ASSUME LogConstants, LogInv, NEW x \in Process, Log!KeepFile(x) \/ Log!StartShift(x)
    PROVE  LogInv'
<1>1. /\ at[x] = "size" /\ UNCHANGED <<live, logs, tail, count, crashes, logFaults, stuck>>
      /\ \/ at' = [at EXCEPT ![x] = "idle"] /\ slot' = slot
         \/ at' = [at EXCEPT ![x] = "shift"] /\ slot' = MaxArchives - 1
  BY DEF Log!KeepFile, Log!StartShift
<1>2. LogTypes /\ MaxArchives \in Nat \ {0}
  BY DEF LogInv, LogConstants
<1>3. LogTypes'
  <2>1. at' \in [Process -> Places]
    BY <1>1, <1>2 DEF LogTypes, Places
  <2>2. slot' \in Int
    BY <1>1, <1>2 DEF LogTypes
  <2> QED
    BY <1>1, <1>2, <2>1, <2>2 DEF LogTypes
<1>4. /\ \A y \in Process \ {x} : at[y] = "idle" /\ at'[y] = "idle"
      /\ at'[x] \in {"idle", "shift"} /\ (at'[x] = "shift" => slot' = MaxArchives - 1)
  BY <1>1, <1>2 DEF LogInv, LogOrder, LogTypes
<1>5. LogOrder'
  BY <1>1, <1>2, <1>4 DEF LogOrder
<1>6. LogClean'
  <2>1. ASSUME Clean
        PROVE  live # <<>> /\ tail[x] = LastId(live) /\ (\A k \in Ages : Untorn(ByAge[k])) /\ Linked(ByAge)
    BY <1>1, <2>1 DEF LogInv, LogClean
  <2> QED
    BY <1>1, <1>4, <2>1, FilesRest DEF LogClean, Clean
<1> QED
  BY <1>1, <1>3, <1>5, <1>6, FilesRest DEF LogInv

\* _write_entry appends a line chained to the tail, or fails and writes nothing.
LEMMA WriteStep ==
    ASSUME LogConstants, LogInv, NEW x \in Process, Log!WriteEntry(x) \/ Log!WriteAnchor(x)
    PROVE  LogInv'
<1>0. LogTypes /\ LogOrder /\ LogClean /\ \A k \in Ages : Chained(ByAge[k])
  BY DEF LogInv
<1>1. \A y \in Process \ {x} : at[y] = "idle"
  BY <1>0 DEF LogOrder, Log!WriteEntry, Log!WriteAnchor
<1>2. PICK p \in Int, a \in Int :
        /\ Log!Written(x, p, a)
        /\ p = Log!HmacAt(live, Len(live))
        /\ Clean /\ at[x] = "anchor" => a = LastId(logs[1])
  <2>1. CASE Log!WriteEntry(x)
    <3>1. tail[x] \in Int /\ Log!NoAnchor \in Int
      BY <1>0 DEF LogTypes, Log!NoAnchor
    <3>2. Log!Written(x, tail[x], Log!NoAnchor) /\ at[x] = "write"
      BY <2>1 DEF Log!WriteEntry
    <3>3. tail[x] = Log!HmacAt(live, Len(live))
      BY <1>0, <3>2 DEF LogOrder
    <3> QED
      BY <3>1, <3>2, <3>3
  <2>2. CASE Log!WriteAnchor(x)
    <3>1. tail[x] \in Int /\ Log!Genesis \in Int
      BY <1>0 DEF LogTypes, Log!Genesis
    <3>2. Log!Written(x, Log!Genesis, tail[x]) /\ at[x] = "anchor"
      BY <2>2 DEF Log!WriteAnchor, Log!PreviousTail
    <3>3. live = <<>>
      BY <1>0, <3>2 DEF LogOrder
    <3>4. Log!HmacAt(live, Len(live)) = Log!Genesis
      BY <3>3 DEF Log!HmacAt
    <3>5. Clean => tail[x] = LastId(logs[1])
      BY <1>0, <3>2 DEF LogClean
    <3> QED
      BY <3>1, <3>2, <3>4, <3>5
  <2> QED
    BY <2>1, <2>2
<1>3. /\ UNCHANGED <<logs, slot, crashes, stuck>>
      /\ at' \in [Process -> Places] /\ \A y \in Process \ {x} : at'[y] = "idle"
      /\ \/ at[x] = "write" /\ at'[x] = "size"
         \/ at[x] = "anchor" /\ at'[x] = "idle"
  BY <1>0, <1>1 DEF Log!WriteEntry, Log!WriteAnchor, LogTypes, Places
<1>4. LogOrder'
  BY <1>3 DEF LogOrder
<1>5. CASE /\ count' = count + 1
           /\ live' = Append(live, [id |-> count', prev |-> p, anchor |-> a])
           /\ tail' = [tail EXCEPT ![x] = count']
           /\ UNCHANGED logFaults
  <2> DEFINE e == [id |-> count', prev |-> p, anchor |-> a]
  <2>1. e \in Line /\ e # Log!TornLine /\ e.prev = p /\ e.id = count' /\ e.anchor = a /\ live' = Append(live, e)
    BY <1>0, <1>5 DEF LogTypes, Line, Log!TornLine
  <2> HIDE DEF e
  <2>2. /\ live \in Seq(Line) /\ live' \in Seq(Line) /\ Len(live') = Len(live) + 1
        /\ live'[Len(live) + 1] = e /\ \A i \in 1 .. Len(live) : live'[i] = live[i]
    BY <1>0, <2>1 DEF LogTypes
  <2>3. LogTypes'
    BY <1>0, <1>3, <1>5, <2>2 DEF LogTypes
  <2>4. \A k \in Ages : Chained(ByAge'[k])
    <3>1. Chained(live')
      BY <1>0, <1>2, <2>1, <2>2, ChainGrows, AgeFacts
    <3> QED
      BY <1>0, <1>3, <3>1, AgeFacts
  <2>5. LogClean'
    <3> SUFFICES ASSUME Clean PROVE LogClean'
      BY <1>3, <1>5 DEF LogClean, Clean
    <3>1. \A k \in Ages : Untorn(ByAge'[k])
      <4>1. Untorn(live')
        BY <1>0, <2>1, <2>2, AgeFacts DEF LogClean, Untorn
      <4> QED
        BY <1>0, <1>3, <4>1, AgeFacts DEF LogClean
    <3>2. live' # <<>> /\ tail'[x] = LastId(live')
      <4>1. tail'[x] = count'
        BY <1>0, <1>5 DEF LogTypes
      <4>2. live'[Len(live')] = e /\ live' # <<>>
        BY <2>2
      <4> QED
        BY <2>1, <4>1, <4>2 DEF LastId
    <3>3. Linked(ByAge')
      <4> SUFFICES ASSUME NEW new \in Ages, NEW old \in Ages, Adjacent(ByAge', new, old)
                   PROVE  ByAge'[new][1].anchor = LastId(ByAge'[old])
        BY DEF Linked
      <4>0. /\ MaxArchives \in Nat /\ new < old /\ ByAge'[new] # <<>> /\ ByAge'[old] # <<>>
            /\ \A k \in new + 1 .. old - 1 : ByAge'[k] = <<>> /\ k \in Ages /\ k # 0
        BY DEF Adjacent, Ages, LogConstants
      <4>1. old \in 1 .. MaxArchives /\ ByAge'[old] = logs[old] /\ logs[old] # <<>> /\ ByAge[old] = logs[old]
        BY <1>3, <4>0, AgeFacts DEF Ages
      <4>2. CASE new # 0
        <5>1. \A k \in Ages : k # 0 => ByAge'[k] = ByAge[k]
          BY <1>3, AgeFacts
        <5>2. Adjacent(ByAge, new, old)
          BY <4>0, <4>1, <4>2, <5>1 DEF Adjacent
        <5> QED
          BY <1>0, <4>1, <4>2, <5>1, <5>2 DEF LogClean, Linked
      <4>3. CASE new = 0 /\ live # <<>>
        <5>1. live'[1] = live[1] /\ ByAge'[0] = live' /\ ByAge[0] = live
          <6>1. 1 \in 1 .. Len(live)
            BY <2>2, <4>3
          <6> QED
            BY <2>2, <6>1, AgeFacts
        <5>2. \A k \in Ages : k # 0 => ByAge'[k] = ByAge[k]
          BY <1>3, AgeFacts
        <5>3. Adjacent(ByAge, 0, old)
          BY <4>0, <4>1, <4>3, <5>1, <5>2 DEF Adjacent
        <5>4. ByAge[0][1].anchor = LastId(ByAge[old])
          BY <1>0, <5>3, AgeFacts DEF LogClean, Linked
        <5> QED
          BY <4>1, <4>3, <5>1, <5>4
      <4>4. CASE new = 0 /\ live = <<>>
        <5>1. at[x] = "anchor"
          BY <1>0, <1>1, <4>1, <4>4 DEF LogClean
        <5>2. logs[1] # <<>> /\ a = LastId(logs[1])
          BY <1>0, <1>2, <5>1 DEF LogClean
        <5>3. old = 1
          <6>1. ByAge'[1] # <<>> /\ 1 \notin new + 1 .. old - 1
            BY <1>3, <4>0, <5>2, AgeFacts DEF LogConstants
          <6> QED
            BY <4>0, <4>1, <4>4, <6>1
        <5>4. live'[1] = e /\ ByAge'[0] = live'
          BY <2>2, <4>4, AgeFacts
        <5> QED
          BY <2>1, <4>1, <4>4, <5>2, <5>3, <5>4
      <4> QED
        BY <4>2, <4>3, <4>4
    <3> QED
      BY <1>3, <3>1, <3>2, <3>3 DEF LogClean
  <2> QED
    BY <1>4, <2>3, <2>4, <2>5 DEF LogInv
<1>6. CASE /\ logFaults' = logFaults + 1
           /\ tail' = [tail EXCEPT ![x] = p]
           /\ UNCHANGED <<live, count>>
  <2>1. LogTypes'
    BY <1>0, <1>3, <1>6 DEF LogTypes
  <2>2. LogClean'
    BY <1>0, <1>6 DEF LogTypes, LogClean, Clean
  <2> QED
    BY <1>3, <1>4, <1>6, <2>1, <2>2, FilesRest DEF LogInv
<1> QED
  BY <1>2, <1>5, <1>6 DEF Log!Written

\* What a rename of file i to i + 1 does to the files.
LEMMA RenamedFiles ==
    ASSUME LogConstants, LogInv, NEW i \in 0 .. MaxArchives - 1, ByAge' = Shifted(ByAge, i)
    PROVE  /\ \A k \in Ages : Chained(ByAge'[k])
           /\ (\A k \in Ages : Untorn(ByAge[k])) => \A k \in Ages : Untorn(ByAge'[k])
<1>1. \A k \in Ages : ByAge'[k] = <<>> \/ \E j \in Ages : ByAge'[k] = ByAge[j]
  BY DEF Shifted, Ages, LogConstants
<1>2. Chained(<<>>) /\ Untorn(<<>>)
  BY DEF Chained, Untorn
<1>3. \A k \in Ages : Chained(ByAge[k])
  BY DEF LogInv
<1> QED
  BY <1>1, <1>2, <1>3

\* The two renames of a rotation are of that form.
LEMMA MovedFiles ==
    ASSUME LogConstants, LogInv, slot \in 1 .. MaxArchives - 1, logs[slot] # <<>>,
           logs' = Log!Moved(slot), live' = live
    PROVE  /\ ByAge' = Shifted(ByAge, slot)
           /\ logs' \in [1 .. MaxArchives -> Seq(Line)] /\ logs'[slot] = <<>>
<1>0. logs \in [1 .. MaxArchives -> Seq(Line)] /\ MaxArchives \in Nat
  BY DEF LogInv, LogTypes, LogConstants
<1>1. logs' = [logs EXCEPT ![slot + 1] = logs[slot], ![slot] = <<>>]
  BY DEF Log!Moved
<1>2. slot \in 1 .. MaxArchives /\ slot # 0 /\ slot + 1 # 0 /\ slot # slot + 1
  BY <1>0
<1>3. /\ logs'[slot] = <<>> /\ logs'[slot + 1] = logs[slot]
      /\ \A k \in 1 .. MaxArchives : k # slot /\ k # slot + 1 => logs'[k] = logs[k]
      /\ logs' \in [1 .. MaxArchives -> Seq(Line)]
  BY <1>0, <1>1
<1>4. ASSUME NEW k \in Ages PROVE Log!File(k)' = Shifted(ByAge, slot)[k]
  <2>1. ByAge[slot] = logs[slot] /\ (k # 0 => k \in 1 .. MaxArchives /\ ByAge[k] = logs[k]) /\ ByAge[0] = live
    BY <1>2, AgeFacts
  <2>2. Log!File(k)' = IF k = 0 THEN live' ELSE logs'[k]
    BY DEF Log!File
  <2>3. Shifted(ByAge, slot)[k] = IF k = slot THEN <<>> ELSE IF k = slot + 1 THEN ByAge[slot] ELSE ByAge[k]
    BY DEF Shifted
  <2> QED
    BY <1>2, <1>3, <2>1, <2>2, <2>3
<1> QED
  BY <1>3, <1>4 DEF ByAge, Shifted

LEMMA RenamedLive ==
    ASSUME LogConstants, LogInv, logs' = [logs EXCEPT ![1] = live], live' = <<>>
    PROVE  /\ ByAge' = Shifted(ByAge, 0)
           /\ logs' \in [1 .. MaxArchives -> Seq(Line)] /\ logs'[1] = live
<1>0. logs \in [1 .. MaxArchives -> Seq(Line)] /\ MaxArchives \in Nat \ {0} /\ live \in Seq(Line)
  BY DEF LogInv, LogTypes, LogConstants
<1>1. /\ logs'[1] = live /\ \A k \in 1 .. MaxArchives : k # 1 => logs'[k] = logs[k]
      /\ logs' \in [1 .. MaxArchives -> Seq(Line)]
  BY <1>0
<1>2. \A k \in Ages : Log!File(k)' = Shifted(ByAge, 0)[k]
  BY <1>0, <1>1, AgeFacts DEF Shifted, Log!File, Ages
<1> QED
  BY <1>1, <1>2 DEF ByAge, Shifted

\* One archive moves up, or its rename fails.
LEMMA ShiftStep ==
    ASSUME LogConstants, LogInv, NEW x \in Process, Log!ShiftArchive(x)
    PROVE  LogInv'
<1>0. LogTypes /\ LogOrder /\ LogClean /\ MaxArchives \in Nat \ {0}
  BY DEF LogInv, LogConstants
<1>1. /\ at[x] = "shift" /\ slot > 0 /\ slot' = slot - 1
      /\ UNCHANGED <<live, at, tail, count, crashes, logFaults>>
  BY DEF Log!ShiftArchive
<1>2. /\ \A y \in Process \ {x} : at[y] = "idle"
      /\ slot \in 1 .. MaxArchives - 1
      /\ stuck = 0 => slot + 1 = MaxArchives \/ logs[slot + 1] = <<>>
  BY <1>0, <1>1 DEF LogOrder
<1>3. CASE logs' = Log!Moved(slot) /\ UNCHANGED stuck
  <2>1. CASE logs[slot] = <<>>
    <3>1. logs' = logs
      BY <1>3, <2>1 DEF Log!Moved
    <3>2. LogTypes'
      BY <1>0, <1>1, <1>3, <3>1 DEF LogTypes
    <3>3. LogOrder'
      BY <1>0, <1>1, <1>2, <1>3, <2>1, <3>1 DEF LogOrder
    <3>4. LogClean'
      BY <1>0, <1>1, <1>3, <3>1, FilesRest DEF LogClean, Clean
    <3> QED
      BY <1>1, <3>1, <3>2, <3>3, <3>4, FilesRest DEF LogInv
  <2>2. CASE logs[slot] # <<>>
    <3>2. logs'[slot] = <<>> /\ logs' \in [1 .. MaxArchives -> Seq(Line)]
      BY <1>1, <1>2, <1>3, <2>2, MovedFiles
    <3>3. ByAge' = Shifted(ByAge, slot)
      BY <1>1, <1>2, <1>3, <2>2, MovedFiles
    <3>4. LogTypes'
      BY <1>0, <1>1, <1>3, <3>2 DEF LogTypes
    <3>5. LogOrder'
      BY <1>0, <1>1, <1>2, <1>3, <3>2 DEF LogOrder
    <3>6. LogClean'
      <4> SUFFICES ASSUME Clean PROVE LogClean'
        BY <1>1, <1>3 DEF LogClean, Clean
      <4>1. live # <<>> /\ tail[x] = LastId(live) /\ Linked(ByAge) /\ \A k \in Ages : Untorn(ByAge[k])
        BY <1>0, <1>1 DEF LogClean
      <4>2. ByAge[slot] # <<>> /\ (slot + 1 = MaxArchives \/ ByAge[slot + 1] = <<>>)
        <5>1. slot \in 1 .. MaxArchives /\ slot + 1 \in 1 .. MaxArchives
          BY <1>0, <1>2
        <5>2. ByAge[slot] = logs[slot] /\ ByAge[slot + 1] = logs[slot + 1]
          BY <5>1, AgeFacts
        <5> QED
          BY <1>2, <2>2, <5>2 DEF Clean
      <4>3. Linked(ByAge')
        BY <1>2, <3>3, <4>1, <4>2, ShiftLinked
      <4>4. \A k \in Ages : Untorn(ByAge'[k])
        BY <1>2, <3>3, <4>1, RenamedFiles
      <4> QED
        BY <1>1, <1>2, <4>1, <4>3, <4>4 DEF LogClean
    <3> QED
      BY <1>2, <3>3, <3>4, <3>5, <3>6, RenamedFiles DEF LogInv
  <2> QED
    BY <2>1, <2>2
<1>4. CASE stuck' = stuck + 1 /\ UNCHANGED logs
  <2>1. stuck' # 0 /\ stuck' \in Nat
    BY <1>0, <1>4 DEF LogTypes
  <2>2. LogTypes'
    BY <1>0, <1>1, <1>4, <2>1 DEF LogTypes
  <2>3. LogOrder'
    BY <1>0, <1>1, <1>2, <1>4, <2>1 DEF LogOrder
  <2>4. LogClean'
    BY <2>1 DEF LogClean, Clean
  <2> QED
    BY <1>1, <1>4, <2>2, <2>3, <2>4, FilesRest DEF LogInv
<1> QED
  BY <1>3, <1>4 DEF Log!ShiftArchive

\* The live file becomes the first archive, or its rename fails.
LEMMA RenameStep ==
    ASSUME LogConstants, LogInv, NEW x \in Process, Log!RenameLive(x)
    PROVE  LogInv'
<1>0. LogTypes /\ LogOrder /\ LogClean /\ MaxArchives \in Nat \ {0}
  BY DEF LogInv, LogConstants
<1>1. at[x] = "shift" /\ slot = 0 /\ UNCHANGED <<tail, slot, count, crashes, logFaults>>
  BY DEF Log!RenameLive
<1>2. /\ \A y \in Process \ {x} : at[y] = "idle"
      /\ stuck = 0 => 1 = MaxArchives \/ logs[1] = <<>>
  BY <1>0, <1>1 DEF LogOrder
<1>3. CASE /\ logs' = [logs EXCEPT ![1] = live] /\ live' = <<>>
           /\ at' = [at EXCEPT ![x] = "anchor"] /\ UNCHANGED stuck
  <2>1. /\ logs'[1] = live /\ logs' \in [1 .. MaxArchives -> Seq(Line)] /\ live' \in Seq(Line)
        /\ ByAge' = Shifted(ByAge, 0)
    BY <1>3, RenamedLive
  <2>2. at'[x] = "anchor" /\ \A y \in Process \ {x} : at'[y] = "idle"
    BY <1>0, <1>2, <1>3 DEF LogTypes
  <2>4. LogTypes'
    BY <1>0, <1>1, <1>3, <2>1 DEF LogTypes, Places
  <2>5. LogOrder'
    BY <1>3, <2>2 DEF LogOrder
  <2>6. 0 \in 0 .. MaxArchives - 1
    BY <1>0
  <2>7. LogClean'
    <3> SUFFICES ASSUME Clean PROVE LogClean'
      BY <1>1, <1>3 DEF LogClean, Clean
    <3>1. live # <<>> /\ tail[x] = LastId(live) /\ Linked(ByAge) /\ \A k \in Ages : Untorn(ByAge[k])
      BY <1>0, <1>1 DEF LogClean
    <3>2. ByAge[0] # <<>> /\ (0 + 1 = MaxArchives \/ ByAge[0 + 1] = <<>>)
      BY <1>0, <1>2, <3>1, AgeFacts DEF Clean
    <3>3. Linked(ByAge')
      BY <2>1, <2>6, <3>1, <3>2, ShiftLinked
    <3>4. \A k \in Ages : Untorn(ByAge'[k])
      BY <2>1, <2>6, <3>1, RenamedFiles
    <3> QED
      BY <1>1, <2>1, <2>2, <3>1, <3>3, <3>4 DEF LogClean
  <2> QED
    BY <2>1, <2>4, <2>5, <2>6, <2>7, RenamedFiles DEF LogInv
<1>4. CASE stuck' = stuck + 1 /\ at' = [at EXCEPT ![x] = "idle"] /\ UNCHANGED <<live, logs>>
  <2>1. stuck' # 0 /\ stuck' \in Nat /\ \A y \in Process : at'[y] = "idle"
    BY <1>0, <1>2, <1>4 DEF LogTypes
  <2>2. LogTypes'
    BY <1>0, <1>1, <1>4, <2>1 DEF LogTypes, Places
  <2>3. LogOrder'
    BY <2>1 DEF LogOrder
  <2>4. LogClean'
    BY <2>1 DEF LogClean, Clean
  <2> QED
    BY <1>1, <1>4, <2>2, <2>3, <2>4, FilesRest DEF LogInv
<1> QED
  BY <1>3, <1>4 DEF Log!RenameLive

\* A process dies in log(), perhaps in the middle of a line.
LEMMA LogCrashStep ==
    ASSUME LogConstants, LogInv, NEW x \in Process, Log!Crash(x)
    PROVE  LogInv'
<1>0. LogTypes /\ LogOrder /\ \A k \in Ages : Chained(ByAge[k])
  BY DEF LogInv
<1>1. /\ at[x] # "idle" /\ crashes' = crashes + 1 /\ at' = [at EXCEPT ![x] = "idle"]
      /\ tail' = [tail EXCEPT ![x] = Log!HmacAt(live, Len(live))]
      /\ live' = live \/ live' = Append(live, Log!TornLine)
      /\ UNCHANGED <<logs, slot, count, logFaults, stuck>>
  BY DEF Log!Crash, Log!ReadLastHmac
<1>2. \A y \in Process : at'[y] = "idle"
  BY <1>0, <1>1 DEF LogOrder, LogTypes
<1>3. Log!TornLine \in Line
  BY DEF Log!TornLine, Log!NoAnchor, Line
<1>4. live' \in Seq(Line) /\ Chained(live')
  <2>1. live \in Seq(Line) /\ Chained(live)
    BY <1>0, AgeFacts DEF LogTypes
  <2>2. CASE live' = live
    BY <2>1, <2>2
  <2>3. CASE live' = Append(live, Log!TornLine)
    BY <1>3, <2>1, <2>3, ChainGrows
  <2> QED
    BY <1>1, <2>2, <2>3
<1>5. Log!HmacAt(live, Len(live)) \in Int
  BY <1>0, HmacType DEF LogTypes
<1>6. LogTypes'
  BY <1>0, <1>1, <1>4, <1>5 DEF LogTypes, Places
<1>7. LogOrder'
  BY <1>2 DEF LogOrder
<1>8. LogClean'
  BY <1>0, <1>1 DEF LogTypes, LogClean, Clean
<1>9. \A k \in Ages : Chained(ByAge'[k])
  BY <1>0, <1>1, <1>4, AgeFacts
<1> QED
  BY <1>6, <1>7, <1>8, <1>9 DEF LogInv

\* Every step of the processes that share the log keeps the invariant.
LEMMA LogStep ==
    ASSUME LogConstants, LogInv, [Log!Next]_(Log!vars)
    PROVE  LogInv'
<1>1. CASE UNCHANGED Log!vars
  <2>1. LogTypes' /\ LogOrder'
    BY <1>1 DEF Log!vars, LogInv, LogTypes, LogOrder
  <2>2. LogClean'
    BY <1>1, FilesRest DEF Log!vars, LogInv, LogClean, Clean
  <2> QED
    BY <1>1, <2>1, <2>2, FilesRest DEF Log!vars, LogInv
<1> QED
  BY <1>1, LockStep, SizeStep, WriteStep, ShiftStep, RenameStep, LogCrashStep DEF Log!Next

\* There is no file at first.
LEMMA LogInit ==
    ASSUME LogConstants, Log!Init
    PROVE  LogInv
<1>1. \A k \in Ages : ByAge[k] = <<>>
  BY AgeFacts DEF Log!Init
<1>2. Chained(<<>>) /\ Untorn(<<>>)
  BY DEF Chained, Untorn
<1>3. LogTypes
  BY DEF Log!Init, LogTypes, Places, Log!Genesis
<1>4. LogOrder
  BY DEF Log!Init, LogOrder
<1>5. Linked(ByAge)
  BY <1>1 DEF Linked, Adjacent
<1>6. LogClean
  BY <1>1, <1>2, <1>5 DEF Log!Init, LogClean
<1> QED
  BY <1>1, <1>2, <1>3, <1>4, <1>6 DEF LogInv

\* The invariant gives what both verifiers look for.
LEMMA LogVerified ==
    ASSUME LogConstants, LogInv
    PROVE  Log!ChainVerifies /\ Log!Rechained
<1>1. \A k \in Ages : ByAge[k] = Log!File(k) /\ ByAge[k] \in Seq(Line) /\ Chained(ByAge[k])
  BY AgeFacts DEF LogInv, LogTypes, ByAge
<1>2. Log!Rechained
  BY <1>1 DEF Log!Rechained, Chained, Ages
<1>3. ASSUME crashes + logFaults + stuck = 0
      PROVE  Log!Verifies(live) /\ Log!VerifiesAcross
  <2>1. Clean
    BY <1>3 DEF LogInv, LogTypes, Clean
  <2>2. (\A k \in Ages : Untorn(ByAge[k])) /\ Linked(ByAge)
    BY <2>1 DEF LogInv, LogClean
  <2>3. \A k \in Ages : Log!Verifies(Log!File(k))
    BY <1>1, <2>2, ChainVerified
  <2>4. ASSUME NEW new \in Ages, NEW old \in Ages, Log!Neighbours(new, old)
        PROVE  Log!File(new)[1].anchor = Log!File(old)[Len(Log!File(old))].id
    <3>1. MaxArchives \in Nat /\ \A k \in new + 1 .. old - 1 : k \in Ages
      BY DEF LogConstants, Ages
    <3>2. Adjacent(ByAge, new, old)
      BY <1>1, <2>4, <3>1 DEF Adjacent, Log!Neighbours
    <3> QED
      BY <1>1, <2>2, <3>2 DEF Linked, LastId
  <2>5. Log!Verifies(live)
    BY <1>1, <2>3, AgeFacts
  <2> QED
    BY <2>3, <2>4, <2>5 DEF Log!VerifiesAcross, Ages
<1> QED
  BY <1>2, <1>3 DEF Log!ChainVerifies

\* audit.py, log, _maybe_rotate, verify and verify_chain_across_archives: for any
\* processes, rotation size and number of archives, both verifiers accept the log
\* between calls while no write or rename failed and nobody died in log(); and
\* whatever failed, torn lines aside, no file ever holds a second chain.
THEOREM LogVerifies ==
    ASSUME LogConstants
    PROVE  Log!Spec => []ChainVerifies
<1>1. Log!Init => LogInv
  BY LogInit
<1>2. LogInv /\ [Log!Next]_(Log!vars) => LogInv'
  BY LogStep
<1>3. LogInv => ChainVerifies
  BY LogVerified DEF ChainVerifies
<1> QED
  BY <1>1, <1>2, <1>3, PTL DEF Log!Spec

\* Nothing is lost by appending.
LEMMA EntriesGrow ==
    ASSUME NEW f \in Seq(Line), NEW e \in Line
    PROVE  Log!Entries(f) \subseteq Log!Entries(Append(f, e))
<1>1. Len(Append(f, e)) = Len(f) + 1 /\ \A i \in 1 .. Len(f) : Append(f, e)[i] = f[i] /\ i \in 1 .. Len(f) + 1
  OBVIOUS
<1> QED
  BY <1>1 DEF Log!Entries

\* What is stored, by age; what a step may lose.
LEMMA StoredByAge ==
    ASSUME LogConstants
    PROVE  /\ Log!Stored = UNION {Log!Entries(ByAge[k]) : k \in Ages}
           /\ Log!Stored' = UNION {Log!Entries(ByAge'[k]) : k \in Ages}
<1>1. \A k \in Ages : ByAge[k] = Log!File(k) /\ ByAge'[k] = Log!File(k)'
  BY DEF ByAge
<1> QED
  BY <1>1 DEF Log!Stored, Ages

LEMMA NothingLost ==
    ASSUME LogConstants, LogInv, [Log!Next]_(Log!vars), stuck' = 0
    PROVE  Log!Stored \ Log!Stored' \subseteq Log!Entries(logs[MaxArchives])
<1>0. LogTypes /\ LogOrder /\ MaxArchives \in Nat \ {0}
  BY DEF LogInv, LogConstants
<1>1. ASSUME \A k \in Ages : Log!Entries(ByAge[k]) \subseteq Log!Entries(ByAge'[k])
      PROVE  Log!Stored \ Log!Stored' \subseteq Log!Entries(logs[MaxArchives])
  BY <1>1, StoredByAge
<1>2. ASSUME UNCHANGED <<live, logs>>
      PROVE  Log!Stored \ Log!Stored' \subseteq Log!Entries(logs[MaxArchives])
  BY <1>1, <1>2, FilesRest
<1>3. ASSUME NEW e \in Line, live' = Append(live, e), logs' = logs
      PROVE  Log!Stored \ Log!Stored' \subseteq Log!Entries(logs[MaxArchives])
  <2>1. Log!Entries(live) \subseteq Log!Entries(live')
    BY <1>0, <1>3, EntriesGrow DEF LogTypes
  <2>2. \A k \in Ages : Log!Entries(ByAge[k]) \subseteq Log!Entries(ByAge'[k])
    BY <1>3, <2>1, AgeFacts
  <2> QED
    BY <1>1, <2>2
<1>4. ASSUME NEW i \in 0 .. MaxArchives - 1, ByAge' = Shifted(ByAge, i),
             i + 1 = MaxArchives \/ ByAge[i + 1] = <<>>
      PROVE  Log!Stored \ Log!Stored' \subseteq Log!Entries(logs[MaxArchives])
  <2> SUFFICES ASSUME NEW k \in Ages, NEW e \in Log!Entries(ByAge[k]), e \notin Log!Stored'
               PROVE  e \in Log!Entries(logs[MaxArchives])
    BY StoredByAge
  <2>1. \A j \in Ages : e \notin Log!Entries(ByAge'[j])
    BY StoredByAge
  <2>2. i \in Ages /\ i + 1 \in Ages
    BY <1>0 DEF Ages
  <2>3. k # i
    <3> SUFFICES ASSUME k = i PROVE FALSE
      OBVIOUS
    <3>1. ByAge'[i + 1] = ByAge[i]
      BY <1>0, <1>4, <2>2 DEF Shifted
    <3> QED
      BY <2>1, <2>2, <3>1
  <2>4. k = i + 1
    BY <1>4, <2>1, <2>3 DEF Shifted
  <2>5. ByAge[k] # <<>>
    BY DEF Log!Entries
  <2>6. k = MaxArchives /\ ByAge[k] = logs[MaxArchives]
    BY <1>0, <1>4, <2>4, <2>5, AgeFacts
  <2> QED
    BY <2>6
<1>5. ASSUME NEW x \in Process, Log!WriteEntry(x) \/ Log!WriteAnchor(x)
      PROVE  Log!Stored \ Log!Stored' \subseteq Log!Entries(logs[MaxArchives])
  <2>1. logs' = logs
    BY <1>5 DEF Log!WriteEntry, Log!WriteAnchor
  <2>2. \E p, a \in Int : Log!Written(x, p, a)
    <3>1. tail[x] \in Int /\ Log!Genesis \in Int /\ Log!NoAnchor \in Int
      BY <1>0 DEF LogTypes, Log!Genesis, Log!NoAnchor
    <3>2. Log!Written(x, tail[x], Log!NoAnchor) \/ Log!Written(x, Log!Genesis, tail[x])
      BY <1>5 DEF Log!WriteEntry, Log!WriteAnchor, Log!PreviousTail
    <3> QED
      BY <3>1, <3>2
  <2>3. \A p, a \in Int : [id |-> count + 1, prev |-> p, anchor |-> a] \in Line
    BY <1>0 DEF LogTypes, Line
  <2>4. live' = live \/ \E p, a \in Int : live' = Append(live, [id |-> count + 1, prev |-> p, anchor |-> a])
    BY <2>2 DEF Log!Written
  <2> QED
    BY <1>2, <1>3, <2>1, <2>3, <2>4
<1>6. ASSUME NEW x \in Process, Log!ShiftArchive(x)
      PROVE  Log!Stored \ Log!Stored' \subseteq Log!Entries(logs[MaxArchives])
  <2>1. /\ at[x] = "shift" /\ slot > 0 /\ live' = live /\ stuck = 0
        /\ logs' = Log!Moved(slot)
    BY <1>0, <1>6 DEF Log!ShiftArchive, LogTypes
  <2>2. slot \in 1 .. MaxArchives - 1 /\ (slot + 1 = MaxArchives \/ logs[slot + 1] = <<>>)
    BY <1>0, <2>1 DEF LogOrder
  <2>3. CASE logs[slot] = <<>>
    BY <1>2, <2>1, <2>3 DEF Log!Moved
  <2>4. CASE logs[slot] # <<>>
    <3>1. ByAge' = Shifted(ByAge, slot)
      BY <1>6, <2>1, <2>2, <2>4, MovedFiles
    <3>2. slot + 1 = MaxArchives \/ ByAge[slot + 1] = <<>>
      <4>1. slot + 1 \in 1 .. MaxArchives
        BY <1>0, <2>2
      <4> QED
        BY <2>2, <4>1, AgeFacts
    <3> QED
      BY <1>0, <1>4, <2>2, <3>1, <3>2
  <2> QED
    BY <2>3, <2>4
<1>7. ASSUME NEW x \in Process, Log!RenameLive(x)
      PROVE  Log!Stored \ Log!Stored' \subseteq Log!Entries(logs[MaxArchives])
  <2>1. at[x] = "shift" /\ slot = 0 /\ stuck = 0 /\ logs' = [logs EXCEPT ![1] = live] /\ live' = <<>>
    BY <1>0, <1>7 DEF Log!RenameLive, LogTypes
  <2>2. 1 = MaxArchives \/ logs[1] = <<>>
    BY <1>0, <2>1 DEF LogOrder
  <2>3. ByAge' = Shifted(ByAge, 0)
    BY <2>1, RenamedLive
  <2>4. 0 \in 0 .. MaxArchives - 1 /\ (0 + 1 = MaxArchives \/ ByAge[0 + 1] = <<>>)
    BY <1>0, <2>2, AgeFacts
  <2> QED
    BY <1>4, <2>3, <2>4
<1>8. ASSUME NEW x \in Process, Log!Crash(x)
      PROVE  Log!Stored \ Log!Stored' \subseteq Log!Entries(logs[MaxArchives])
  <2>1. Log!TornLine \in Line
    BY DEF Log!TornLine, Log!NoAnchor, Line
  <2>2. logs' = logs /\ (live' = live \/ live' = Append(live, Log!TornLine))
    BY <1>8 DEF Log!Crash
  <2> QED
    BY <1>2, <1>3, <2>1, <2>2
<1>9. ASSUME NEW x \in Process, Log!Lock(x) \/ Log!KeepFile(x) \/ Log!StartShift(x)
      PROVE  UNCHANGED <<live, logs>>
  BY <1>9 DEF Log!Lock, Log!KeepFile, Log!StartShift
<1>10. CASE UNCHANGED Log!vars
  BY <1>2, <1>10 DEF Log!vars
<1> QED
  BY <1>2, <1>5, <1>6, <1>7, <1>8, <1>9, <1>10 DEF Log!Next

\* audit.py, _maybe_rotate: as long as no rename failed, an entry that was
\* written leaves the disk only with the oldest archive, whoever dies between
\* which renames and whatever writes fail.
THEOREM LogKeepsEntries ==
    ASSUME LogConstants
    PROVE  Log!Spec => NothingVanishes
<1>1. Log!Init => LogInv
  BY LogInit
<1>2. LogInv /\ [Log!Next]_(Log!vars) => LogInv'
  BY LogStep
<1>3. LogInv /\ [Log!Next]_(Log!vars) =>
          [stuck' = 0 => Log!Stored \ Log!Stored' \subseteq Log!Entries(logs[MaxArchives])]_(Log!vars)
  BY NothingLost
<1> QED
  BY <1>1, <1>2, <1>3, PTL DEF Log!Spec, NothingVanishes, Log!NothingVanishes

-----------------------------------------------------------------------------
(***************************************************************************)
(* InviteLedger                                                            *)
(***************************************************************************)
\* The ledger keeps a nonce for longer than the skew a token's expiry is given
\* (LEDGER_RETENTION_AFTER_EXPIRY is an hour, INVITE_CLOCK_SKEW half a minute).
InviteConstants ==
    /\ Lifetime \in Nat /\ Skew \in Nat /\ Retention \in Nat
    /\ Skew <= Retention
    /\ None \notin Nat /\ None \notin Token

InviteTypes ==
    /\ now \in Nat
    /\ expires \in [Token -> Nat \cup {None}]
    /\ loaded \in BOOLEAN
    /\ spent \subseteq {t \in Token : expires[t] # None}
    /\ ledger \subseteq {t \in Token : expires[t] # None}
    /\ carried \in [Peer -> Token \cup {None}]
    /\ \A p \in Peer : carried[p] # None => expires[carried[p]] # None
    /\ joining \in [Peer -> Token \cup {None}]
    /\ pin = [p \in Peer |-> pin[p]]

\* A nonce the ledger may have forgotten belongs to a token long expired.
Forgettable(t) == expires[t] + Retention < now

\* A held token is in the ledger and, once the ledger was read, in memory, or
\* is forgettable; and nobody shares it.
HeldInv ==
    \A t \in Token, p \in Peer : Invites!Holds(p, t) =>
        /\ expires[t] # None
        /\ t \in ledger \/ Forgettable(t)
        /\ loaded => t \in spent \/ Forgettable(t)
        /\ \A q \in Peer : Invites!Holds(q, t) => q = p

InviteInv == InviteTypes /\ HeldInv

LEMMA InviteInit == ASSUME InviteConstants PROVE Invites!Init => InviteInv
  <1> SUFFICES ASSUME Invites!Init PROVE InviteInv
    OBVIOUS
  <1>1. loaded \in BOOLEAN
    BY Zenon DEF Invites!Init
  <1> QED BY <1>1 DEF InviteConstants, Invites!Init, InviteInv, InviteTypes, HeldInv, Invites!Holds

\* No token the inviter accepts is held already.
LEMMA AcceptedIsFree ==
  ASSUME InviteConstants, InviteInv, NEW t \in Token, expires[t] # None,
         Invites!Acceptable(t), NEW q \in Peer
  PROVE  ~Invites!Holds(q, t)
  BY DEF InviteConstants, InviteInv, InviteTypes, HeldInv, Invites!Acceptable,
         Invites!Expired, Invites!Ledger, Invites!Kept, Forgettable

LEMMA InviteReserve ==
  ASSUME InviteConstants, InviteInv, NEW p \in Peer, Invites!Reserve(p)
  PROVE  InviteInv'
  <1> DEFINE t == carried[p]
  <1>1. t \in Token /\ expires[t] \in Nat /\ Invites!Acceptable(t)
    BY DEF Invites!Reserve, InviteInv, InviteTypes
  <1>2. \A q \in Peer : ~Invites!Holds(q, t)
    BY <1>1, AcceptedIsFree DEF InviteConstants
  <1>3. /\ UNCHANGED <<now, expires, carried, pin>>
        /\ loaded' = TRUE /\ spent' = Invites!Kept(Invites!Ledger \cup {t})
        /\ \/ ledger' = spent' /\ joining' = [joining EXCEPT ![p] = t]
           \/ UNCHANGED <<ledger, joining>>
    BY DEF Invites!Reserve
  <1>4. t \in spent'
    BY <1>1, <1>3 DEF InviteConstants, InviteInv, InviteTypes, Invites!Kept, Invites!Acceptable,
                      Invites!Expired
  <1>5. InviteTypes'
    <2>1. loaded' \in BOOLEAN
      BY <1>3, Zenon
    <2>2. spent' \subseteq {u \in Token : expires'[u] # None}
      BY <1>1, <1>3 DEF InviteConstants, InviteInv, InviteTypes, Invites!Kept, Invites!Ledger
    <2> QED BY <1>1, <1>3, <2>1, <2>2 DEF InviteInv, InviteTypes
  <1>6. \A u \in Token, q \in Peer : Invites!Holds(q, u) => u \in spent' \/ Forgettable(u)
    BY <1>3 DEF InviteConstants, InviteInv, InviteTypes, HeldInv, Invites!Kept, Invites!Ledger,
                Forgettable
  <1>7. \A u \in Token : Forgettable(u)' <=> Forgettable(u)
    BY <1>3 DEF Forgettable
  <1>8. CASE UNCHANGED <<ledger, joining>>
    <2>1. \A u \in Token, q \in Peer : Invites!Holds(q, u)' <=> Invites!Holds(q, u)
      BY <1>3, <1>8 DEF Invites!Holds
    <2> QED BY <1>3, <1>5, <1>6, <1>7, <1>8, <2>1 DEF InviteInv, HeldInv
  <1>9. CASE ledger' = spent' /\ joining' = [joining EXCEPT ![p] = t]
    <2>1. \A u \in Token, q \in Peer : Invites!Holds(q, u)' => Invites!Holds(q, u) \/ (q = p /\ u = t)
      BY <1>3, <1>9 DEF Invites!Holds, InviteInv, InviteTypes
    <2> QED BY <1>1, <1>2, <1>3, <1>4, <1>5, <1>6, <1>7, <1>9, <2>1
            DEF InviteInv, HeldInv, InviteConstants
  <1> QED BY <1>3, <1>8, <1>9

\* The other steps of the inviter.
LEMMA InviteOthers ==
  ASSUME InviteConstants, InviteInv, NEW p \in Peer,
         Invites!Refuse(p) \/ Invites!PinInvited(p) \/ Invites!PinPlain(p) \/ Invites!Restart
  PROVE  InviteInv'
  <1> USE DEF InviteConstants
  <1>0. UNCHANGED <<now, expires, ledger, carried>>
    BY DEF Invites!Refuse, Invites!PinInvited, Invites!PinPlain, Invites!Restart
  <1>1. CASE Invites!Refuse(p)
    BY <1>0, <1>1 DEF Invites!Refuse, InviteInv, InviteTypes, HeldInv, Invites!Holds, Forgettable, Invites!Kept
  <1>2. CASE Invites!PinInvited(p)
    <2>1. \A u \in Token, q \in Peer : Invites!Holds(q, u)' => Invites!Holds(q, u)
      BY <1>2 DEF Invites!PinInvited, Invites!Holds, InviteInv, InviteTypes
    <2>2. InviteTypes'
      BY <1>0, <1>2 DEF Invites!PinInvited, InviteInv, InviteTypes
    <2> QED BY <1>0, <1>2, <2>1, <2>2 DEF Invites!PinInvited, InviteInv, HeldInv, Forgettable
  <1>3. CASE Invites!PinPlain(p)
    <2>1. \A u \in Token, q \in Peer : Invites!Holds(q, u)' => Invites!Holds(q, u)
      BY <1>3 DEF Invites!PinPlain, Invites!Holds, InviteInv, InviteTypes
    <2>2. InviteTypes'
      BY <1>0, <1>3 DEF Invites!PinPlain, InviteInv, InviteTypes
    <2> QED BY <1>0, <1>3, <2>1, <2>2 DEF Invites!PinPlain, InviteInv, HeldInv, Forgettable
  <1>4. CASE Invites!Restart
    <2>1. \A u \in Token, q \in Peer : Invites!Holds(q, u)' => Invites!Holds(q, u)
      BY <1>4 DEF Invites!Restart, Invites!Holds, InviteInv, InviteTypes
    <2>2. loaded' \in BOOLEAN /\ ~loaded'
      BY <1>4, Zenon DEF Invites!Restart
    <2>3. InviteTypes'
      BY <1>0, <1>4, <2>2 DEF Invites!Restart, InviteInv, InviteTypes
    <2> QED BY <1>0, <1>4, <2>1, <2>2, <2>3 DEF Invites!Restart, InviteInv, HeldInv, Forgettable
  <1> QED BY <1>1, <1>2, <1>3, <1>4

LEMMA InviteNext ==
  ASSUME InviteConstants PROVE InviteInv /\ [Invites!Next]_Invites!inviteVars => InviteInv'
  <1> SUFFICES ASSUME InviteInv, [Invites!Next]_Invites!inviteVars PROVE InviteInv'
    OBVIOUS
  <1> USE DEF InviteConstants
  <1>1. ASSUME NEW t \in Token, Invites!Create(t) PROVE InviteInv'
    <2>1. /\ UNCHANGED <<now, loaded, spent, ledger, carried, joining, pin>>
          /\ expires' \in [Token -> Nat \cup {None}]
          /\ expires'[t] # None
          /\ \A u \in Token : expires[u] # None => expires'[u] = expires[u]
      BY <1>1 DEF Invites!Create, InviteInv, InviteTypes
    <2>2. \A u \in Token, q \in Peer : Invites!Holds(q, u)' <=> Invites!Holds(q, u)
      BY <2>1 DEF Invites!Holds
    <2>3. \A u \in Token : expires[u] # None => (Forgettable(u)' <=> Forgettable(u))
      BY <2>1 DEF Forgettable
    <2>4. InviteTypes'
      BY <2>1 DEF InviteInv, InviteTypes
    <2> QED BY <2>1, <2>2, <2>3, <2>4 DEF InviteInv, HeldInv
  <1>2. ASSUME NEW p \in Peer, NEW t \in Token,
               Invites!SetupFromInvite(p, t) \/ Invites!EmbedInvite(p, t)
        PROVE  InviteInv'
    BY <1>2 DEF Invites!SetupFromInvite, Invites!EmbedInvite, Invites!Issued, InviteInv,
                InviteTypes, HeldInv, Invites!Holds, Forgettable
  <1>3. CASE Invites!Restart
    <2>1. CASE Peer = {}
      <3>1. loaded' \in BOOLEAN
        BY <1>3, Zenon DEF Invites!Restart
      <3> QED BY <1>3, <2>1, <3>1 DEF Invites!Restart, InviteInv, InviteTypes, HeldInv
    <2> QED BY <1>3, <2>1, InviteOthers
  <1>4. CASE Invites!Tick
    BY <1>4 DEF Invites!Tick, InviteInv, InviteTypes, HeldInv, Invites!Holds, Forgettable
  <1>5. CASE UNCHANGED Invites!inviteVars
    BY <1>5 DEF Invites!inviteVars, InviteInv, InviteTypes, HeldInv, Invites!Holds, Forgettable
  <1> QED BY <1>1, <1>2, <1>3, <1>4, <1>5, InviteReserve, InviteOthers DEF Invites!Next

\* An invitation admits one peer, for any number of tokens, peers and restarts and
\* whatever writes of the ledger and of the pin fail: what the ledger may have
\* forgotten is_expired refuses.
THEOREM InviteSingleUse == ASSUME InviteConstants PROVE Invites!Spec => []SingleUse
  <1>1. InviteInv => SingleUse
    BY DEF SingleUse, InviteInv, HeldInv, Invites!SingleUse, Invites!Holds
  <1> QED BY <1>1, InviteInit, InviteNext, PTL DEF Invites!Spec

-----------------------------------------------------------------------------
(***************************************************************************)
(* TrustStore                                                              *)
(***************************************************************************)
\* Operations on the file come one at a time: the lock of _save covers the write
\* only, and overlapping ones lose updates.
StoreConstants == Serial = TRUE /\ NoKey \notin Key

StoreTypes ==
    /\ store \in [owner : {"us", "them"}, pins : [Peer -> Key \cup {NoKey}], revoked : SUBSET Peer]
    /\ op \in [Process -> {Store!NoOp} \cup [kind : {"open"}, copy : Store!Copy,
                                              request : Store!Request]]

\* The file under an open operation is the one it loaded, or failed to read; only one
\* is open.
LoadedInv ==
    /\ store.owner = "them" => store.pins = Store!NoPins
    /\ \A x \in Process : op[x] # Store!NoOp =>
         /\ op[x].copy \in {Store!Loaded, Store!Unreadable}
         /\ reads = 0 => op[x].copy = Store!Loaded
         /\ \A y \in Process : op[y] # Store!NoOp => y = x

StoreInv == StoreTypes /\ LoadedInv /\ reads \in Nat

LEMMA StoreInit == ASSUME StoreConstants PROVE Store!Init => StoreInv
  BY DEF StoreConstants, Store!Init, StoreInv, StoreTypes, LoadedInv, Store!NoOp, Store!NoPins

LEMMA StoreOpen ==
  ASSUME StoreConstants, StoreInv, NEW x \in Process, NEW r \in Store!Request, Store!Open(x, r)
  PROVE  StoreInv'
  <1>1. UNCHANGED store /\ reads' \in Nat /\ reads' >= reads
    BY DEF Store!Open, StoreInv
  <1>2. \A y \in Process : op[y] = Store!NoOp
    BY DEF Store!Open, Store!Quiet, StoreConstants
  <1>3. Store!Loaded \in Store!Copy /\ Store!Unreadable \in Store!Copy
    BY DEF Store!Loaded, Store!Unreadable, Store!Copy, StoreInv, StoreTypes, Store!NoPins
  <1>4. PICK c \in {Store!Loaded, Store!Unreadable} :
          /\ op' = [op EXCEPT ![x] = [kind |-> "open", copy |-> c, request |-> r]]
          /\ reads' = 0 => c = Store!Loaded
    BY DEF Store!Open, StoreInv
  <1>5. c \in Store!Copy
    BY <1>3, <1>4
  <1>6. Store!Loaded' = Store!Loaded /\ Store!Unreadable' = Store!Unreadable
    BY <1>1 DEF Store!Loaded, Store!Unreadable, Store!NoPins
  <1>7. StoreTypes'
    BY <1>1, <1>4, <1>5 DEF StoreInv, StoreTypes
  <1>8. LoadedInv'
    BY <1>1, <1>2, <1>4, <1>6 DEF StoreInv, StoreTypes, LoadedInv
  <1> QED BY <1>1, <1>7, <1>8 DEF StoreInv

\* What the operation of x may have made of the file: nothing, or its copy with
\* another pin set or dropped and revocations added.
Saved(x, p, k, R) ==
    store' = Store!Written([op[x].copy.pins EXCEPT ![p] = k], op[x].copy.revoked \cup R)

Operation(x) ==
    \/ Store!CheckTofu(x) \/ Store!BroadcastRevocation(x) \/ Store!HandleRevocation(x)
    \/ Store!RevokePeer(x) \/ Store!SetTrustState(x)

\* Every operation writes its own copy, if it may, and no pin over another.
LEMMA StoreOperation ==
  ASSUME StoreConstants, StoreInv, NEW x \in Process, Operation(x)
  PROVE  /\ op[x] # Store!NoOp /\ UNCHANGED reads
         /\ op' = [op EXCEPT ![x] = Store!NoOp]
         /\ \/ UNCHANGED store
            \/ /\ ~op[x].copy.locked
               /\ \E p \in Peer, k \in Key \cup {NoKey}, R \in SUBSET Peer :
                    Saved(x, p, k, R) /\ (k = NoKey \/ op[x].copy.pins[p] \in {NoKey, k})
  <1> DEFINE copy == op[x].copy
             p == op[x].request.peer
  <1>1. op[x].kind = "open" /\ UNCHANGED reads /\ op' = [op EXCEPT ![x] = Store!NoOp]
    BY DEF Operation, Store!CheckTofu, Store!BroadcastRevocation, Store!HandleRevocation,
           Store!RevokePeer, Store!SetTrustState, Store!Running, Store!Done
  <1>2. op[x] # Store!NoOp
    BY <1>1 DEF Store!NoOp
  <1>3. op[x] \in [kind : {"open"}, copy : Store!Copy, request : Store!Request]
    BY <1>2 DEF StoreInv, StoreTypes
  <1>4. p \in Peer /\ copy \in Store!Copy
    BY <1>3 DEF Store!Request
  <1>5. copy.pins \in [Peer -> Key \cup {NoKey}] /\ copy.revoked \in SUBSET Peer
    BY <1>4 DEF Store!Copy
  <1>6. [copy.pins EXCEPT ![p] = copy.pins[p]] = copy.pins /\ copy.revoked \cup {} = copy.revoked
    BY <1>4, <1>5
  <1>7. ASSUME NEW k \in Key \cup {NoKey}, NEW R \in SUBSET Peer, NEW saved \in BOOLEAN,
               k = NoKey \/ copy.pins[p] \in {NoKey, k},
               Store!Save(copy, [copy.pins EXCEPT ![p] = k], copy.revoked \cup R, saved)
        PROVE  \/ UNCHANGED store
               \/ /\ ~op[x].copy.locked
                  /\ \E q \in Peer, l \in Key \cup {NoKey}, S \in SUBSET Peer :
                       Saved(x, q, l, S) /\ (l = NoKey \/ op[x].copy.pins[q] \in {NoKey, l})
    BY <1>4, <1>7 DEF Store!Save, Saved
  <1>8. ASSUME NEW saved \in BOOLEAN, Store!Save(copy, copy.pins, copy.revoked, saved)
        PROVE  \/ UNCHANGED store
               \/ /\ ~op[x].copy.locked
                  /\ \E q \in Peer, l \in Key \cup {NoKey}, S \in SUBSET Peer :
                       Saved(x, q, l, S) /\ (l = NoKey \/ op[x].copy.pins[q] \in {NoKey, l})
    <2>1. copy.pins[p] \in Key \cup {NoKey}
      BY <1>4, <1>5
    <2>2. Store!Save(copy, [copy.pins EXCEPT ![p] = copy.pins[p]], copy.revoked \cup {}, saved)
      BY <1>6, <1>8
    <2> QED BY <1>7, <2>1, <2>2
  <1>9. CASE Store!CheckTofu(x)
    <2>1. op[x].request.key \in Key
      BY <1>3, <1>9 DEF Store!CheckTofu, Store!Running, Store!Request
    <2>2. CASE Store!Refused(copy, p, op[x].request.key)
      BY <1>1, <1>2, <1>9, <2>2 DEF Store!CheckTofu
    <2>3. CASE ~Store!Refused(copy, p, op[x].request.key) /\ copy.pins[p] # op[x].request.key
      <3>1. copy.pins[p] \in {NoKey, op[x].request.key}
        BY <2>3 DEF Store!Refused
      <3>2. PICK saved \in BOOLEAN :
              Store!Save(copy, [copy.pins EXCEPT ![p] = op[x].request.key], copy.revoked, saved)
        BY <1>9, <2>3 DEF Store!CheckTofu
      <3>3. Store!Save(copy, [copy.pins EXCEPT ![p] = op[x].request.key], copy.revoked \cup {}, saved)
        BY <1>6, <3>2
      <3>4. op[x].request.key \in Key \cup {NoKey} /\ {} \in SUBSET Peer
        BY <2>1
      <3>5. \/ UNCHANGED store
            \/ ~op[x].copy.locked /\ Saved(x, p, op[x].request.key, {})
        BY <3>3 DEF Store!Save, Saved
      <3> QED BY <1>1, <1>2, <1>4, <3>1, <3>4, <3>5, Zenon
    <2>4. CASE ~Store!Refused(copy, p, op[x].request.key) /\ copy.pins[p] = op[x].request.key
      <3>1. PICK saved \in BOOLEAN : Store!Save(copy, copy.pins, copy.revoked, saved)
        BY <1>9, <2>4 DEF Store!CheckTofu
      <3> QED BY <1>1, <1>2, <1>8, <3>1
    <2> QED BY <2>2, <2>3, <2>4
  <1>10. CASE Store!BroadcastRevocation(x) \/ Store!HandleRevocation(x)
    <2>1. PICK saved \in BOOLEAN :
            Store!Save(copy, [copy.pins EXCEPT ![p] = NoKey], copy.revoked \cup {p}, saved)
      BY <1>10 DEF Store!BroadcastRevocation, Store!HandleRevocation, Store!MarkRevoked
    <2> QED BY <1>1, <1>2, <1>4, <1>7, <2>1
  <1>11. CASE Store!RevokePeer(x)
    <2>1. CASE UNCHANGED store
      BY <1>1, <1>2, <2>1
    <2>2. ASSUME NEW saved \in BOOLEAN,
                 Store!Save(copy, [copy.pins EXCEPT ![p] = NoKey], copy.revoked, saved)
          PROVE  Store!Save(copy, [copy.pins EXCEPT ![p] = NoKey], copy.revoked \cup {}, saved)
      BY <1>6, <2>2
    <2>3. CASE ~UNCHANGED store
      <3>1. PICK saved \in BOOLEAN :
              Store!Save(copy, [copy.pins EXCEPT ![p] = NoKey], copy.revoked, saved)
        BY <1>11, <2>3 DEF Store!RevokePeer
      <3> QED BY <1>1, <1>2, <1>7, <2>2, <3>1
    <2> QED BY <2>1, <2>3
  <1>12. CASE Store!SetTrustState(x)
    BY <1>1, <1>2, <1>8, <1>12 DEF Store!SetTrustState
  <1> QED BY <1>9, <1>10, <1>11, <1>12 DEF Operation

RevocationStep == reads = 0 /\ store.owner = "us" /\ store'.owner = "us"
                    => store.revoked \subseteq store'.revoked
PinStep == \A p \in Peer : reads = 0 /\ store.pins[p] # NoKey
                    => store'.pins[p] \in {NoKey, store.pins[p]}

LEMMA StoreOperationKeeps ==
  ASSUME StoreConstants, StoreInv, NEW x \in Process, Operation(x)
  PROVE  StoreInv' /\ RevocationStep /\ PinStep
  <1>1. /\ op[x] # Store!NoOp /\ UNCHANGED reads
        /\ op' = [op EXCEPT ![x] = Store!NoOp]
    BY StoreOperation
  <1>2. \A y \in Process : op'[y] = Store!NoOp
    BY <1>1 DEF StoreInv, StoreTypes, LoadedInv
  <1>3. op' \in [Process -> {Store!NoOp} \cup [kind : {"open"}, copy : Store!Copy,
                                               request : Store!Request]]
    BY <1>1 DEF StoreInv, StoreTypes
  <1>4. CASE UNCHANGED store
    BY <1>1, <1>2, <1>3, <1>4
       DEF StoreInv, StoreTypes, LoadedInv, RevocationStep, PinStep, Store!NoPins
  <1>5. CASE ~UNCHANGED store
    <2>1. ~op[x].copy.locked
      BY <1>5, StoreOperation
    <2>2. PICK p \in Peer, k \in Key \cup {NoKey}, R \in SUBSET Peer :
             Saved(x, p, k, R) /\ (k = NoKey \/ op[x].copy.pins[p] \in {NoKey, k})
      BY <1>5, StoreOperation
    <2>3. op[x].copy \in Store!Copy
      BY <1>1 DEF StoreInv, StoreTypes
    <2>4. op[x].copy.pins \in [Peer -> Key \cup {NoKey}] /\ op[x].copy.revoked \in SUBSET Peer
      BY <2>3 DEF Store!Copy
    <2>5. /\ store'.owner = "us"
          /\ store'.pins = [op[x].copy.pins EXCEPT ![p] = k]
          /\ store'.revoked = op[x].copy.revoked \cup R
          /\ store' \in [owner : {"us", "them"}, pins : [Peer -> Key \cup {NoKey}],
                        revoked : SUBSET Peer]
      BY <2>2, <2>4 DEF Saved, Store!Written
    <2>6. StoreInv'
      BY <1>1, <1>2, <1>3, <2>5 DEF StoreInv, StoreTypes, LoadedInv
    <2>7. ASSUME reads = 0 PROVE RevocationStep /\ PinStep
      <3>1. op[x].copy = Store!Loaded
        BY <1>1, <2>7 DEF StoreInv, LoadedInv
      <3>2. store.owner = "us" /\ op[x].copy.pins = store.pins /\ op[x].copy.revoked = store.revoked
        BY <2>1, <3>1 DEF Store!Loaded
      <3>3. RevocationStep
        BY <2>5, <3>2 DEF RevocationStep
      <3>4. PinStep
        BY <2>2, <2>4, <2>5, <3>2 DEF PinStep
      <3> QED BY <3>3, <3>4
    <2> QED BY <2>6, <2>7 DEF RevocationStep, PinStep
  <1> QED BY <1>4, <1>5

LEMMA StoreNext ==
  ASSUME StoreConstants
  PROVE  StoreInv /\ [Store!Next]_Store!vars => StoreInv' /\ RevocationStep /\ PinStep
  <1> SUFFICES ASSUME StoreInv, [Store!Next]_Store!vars
               PROVE  StoreInv' /\ RevocationStep /\ PinStep
    OBVIOUS
  <1>1. ASSUME NEW x \in Process, NEW r \in Store!Request, Store!Open(x, r)
        PROVE  StoreInv' /\ RevocationStep /\ PinStep
    <2>1. UNCHANGED store
      BY <1>1 DEF Store!Open
    <2> QED BY <1>1, <2>1, StoreOpen DEF RevocationStep, PinStep
  <1>2. CASE Store!ForeignWrite
    <2>1. /\ \A y \in Process : op[y] = Store!NoOp
          /\ UNCHANGED <<op, reads>>
          /\ store' = [owner |-> "them", pins |-> Store!NoPins, revoked |-> {}]
      BY <1>2 DEF Store!ForeignWrite, Store!Quiet, StoreConstants
    <2>2. /\ store'.owner = "them" /\ store'.pins = Store!NoPins
          /\ \A p \in Peer : store'.pins[p] = NoKey
          /\ store' \in [owner : {"us", "them"}, pins : [Peer -> Key \cup {NoKey}],
                        revoked : SUBSET Peer]
      BY <2>1 DEF Store!NoPins
    <2> QED BY <2>1, <2>2 DEF StoreInv, StoreTypes, LoadedInv, RevocationStep, PinStep
  <1>3. CASE UNCHANGED Store!vars
    <2>1. UNCHANGED <<store, op, reads>>
      BY <1>3 DEF Store!vars
    <2>2. Store!Loaded' = Store!Loaded /\ Store!Unreadable' = Store!Unreadable
      BY <2>1 DEF Store!Loaded, Store!Unreadable, Store!NoPins
    <2> QED BY <2>1, <2>2 DEF StoreInv, StoreTypes, LoadedInv, RevocationStep, PinStep
  <1> QED BY <1>1, <1>2, <1>3, StoreOperationKeeps DEF Store!Next, Operation

\* Revocations and pinned keys on disk survive every operation, for any number of
\* processes and peers and whatever writes fail, while every load can read the file.
THEOREM TrustFileSticks == ASSUME StoreConstants PROVE Store!Spec => TrustSticks
  <1>1. RevocationStep => [reads = 0 /\ store.owner = "us" /\ store'.owner = "us"
                             => store.revoked \subseteq store'.revoked]_Store!vars
    BY DEF RevocationStep
  <1>2. PinStep => [\A p \in Peer : reads = 0 /\ store.pins[p] # NoKey
                      => store'.pins[p] \in {NoKey, store.pins[p]}]_Store!vars
    BY DEF PinStep
  <1> QED BY <1>1, <1>2, StoreInit, StoreNext, PTL
          DEF Store!Spec, TrustSticks, Store!TrustSticks, Store!RevocationSticks, Store!PinSticks
=============================================================================
