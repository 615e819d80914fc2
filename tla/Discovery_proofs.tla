--------------------------- MODULE Discovery_proofs ---------------------------
(***************************************************************************)
(* TLAPS proofs about Discovery: the cache follows the authority's         *)
(* generations, for any set of Pipes and any number of fetches.            *)
(***************************************************************************)
EXTENDS Discovery, TLAPS

(* An expiry that sorts no later than a stamp is less than a second after  *)
(* it: the most that the RFC3339Nano texts can be out of order.            *)
LEMMA TextOrder ==
  ASSUME NEW e \in Nat, NEW s \in Nat, Text(e) <= Text(s)
  PROVE  e < s + Res
  BY ResAssumption DEF Text

(* Every initial state satisfies the inductive invariant.                  *)
LEMMA InitIInv == Init => IInv
  <1> SUFFICES ASSUME Init PROVE IInv
    OBVIOUS
  <1> USE DiscoveryAssumption DEF Init
  <1>1. NoRecords \in Records /\ NoSnapshot \in Snapshot
    BY DEF NoRecords, Records, NoSnapshot, Snapshot
  <1>2. TypeOK
    BY <1>1 DEF TypeOK, Idle, NoRecords
  <1>3. \A s \in InPlay : s = NoSnapshot
    BY DEF InPlay, Idle
  <1>4. \A p \in Pipes : NoRecords[p] = None
    BY DEF NoRecords
  <1>5. \A p \in Pipes : Known(p) = {}
    BY <1>3, <1>4 DEF Known, NoSnapshot
  <1>6. RecordsInOrder
    BY <1>5 DEF RecordsInOrder
  <1>7. SnapshotsInOrder
    BY <1>3, <1>4 DEF SnapshotsInOrder, NoSnapshot
  <1>8. CacheIsSnapshot
    BY <1>4 DEF CacheIsSnapshot, Discovered, NoSnapshot
  <1> QED
    BY <1>2, <1>4, <1>6, <1>7, <1>8 DEF IInv

(* What the invariant says of the records and snapshots.                   *)
LEMMA Types ==
  ASSUME TypeOK
  PROVE  /\ \A s \in InPlay : s \in Snapshot /\ s.gen \in Nat /\ s.snap \in Records
         /\ \A p \in Pipes : \A r \in Known(p) :
              r \in Record /\ r.seq \in Nat /\ r.exp \in Nat
         /\ \A p \in Pipes : rows[p] # None => rows[p] \in Known(p)
         /\ \A p \in Pipes : \A s \in InPlay : s.snap[p] # None => s.snap[p] \in Known(p)
  <1>1. \A s \in InPlay : s \in Snapshot /\ s.gen \in Nat /\ s.snap \in Records
    BY DEF TypeOK, InPlay, Snapshot
  <1>2. \A p \in Pipes : \A r \in Known(p) : r \in Record
    BY <1>1 DEF TypeOK, Known, Records
  <1>3. \A r \in Record : r.seq \in Nat /\ r.exp \in Nat
    BY DEF Record
  <1> QED
    BY <1>1, <1>2, <1>3 DEF Known

(* A pruned record is in its last second.                                  *)
LEMMA PrunedLate ==
  ASSUME TypeOK, NEW r \in Record, Prunable(r)
  PROVE  r.exp < now + Res
  BY TextOrder DEF Prunable, TypeOK, Record

(* Records that are forgotten do not matter.                               *)
LEMMA KnownShrinks ==
  ASSUME RecordsInOrder, UNCHANGED <<now, seq>>,
         \A p \in Pipes : Known(p)' \subseteq Known(p)
  PROVE  RecordsInOrder'
  BY DEF RecordsInOrder

(* A snapshot that is committed or dropped leaves the others in order.     *)
LEMMA PlayShrinks ==
  ASSUME TypeOK, SnapshotsInOrder, UNCHANGED <<now, authority>>,
         InPlay' \subseteq InPlay \cup {NoSnapshot}
  PROVE  SnapshotsInOrder'
  <1>1. /\ NoSnapshot.gen = 0 /\ NoSnapshot.snap = NoRecords
        /\ \A p \in Pipes : NoRecords[p] = None
    BY DEF NoSnapshot, NoRecords
  <1>2. gen # 0 /\ gen \in Nat
    BY DEF TypeOK
  <1>3. Listed(rows)' = Listed(rows)
    BY DEF authority, Listed
  <1>4. \A q, r : Succeeds(q, r)' <=> Succeeds(q, r)
    BY DEF Succeeds
  <1> QED
    BY <1>1, <1>2, <1>3, <1>4 DEF SnapshotsInOrder, authority

-----------------------------------------------------------------------------
(* A new record is later than all that are known.                          *)
LEMMA PublishStep ==
  ASSUME IInv, NEW p \in Pipes, Publish(p)
  PROVE  IInv'
  <1>1. PICK listed \in BOOLEAN :
          LET r == [seq |-> seq[p] + 1, exp |-> now + RecordTTL, listed |-> listed]
          IN  /\ sent' = [sent EXCEPT ![p] = @ \cup {r}]
              /\ cache' = IF p \in Own
                            THEN [cache EXCEPT ![p] = [rec |-> r, local |-> TRUE]]
                            ELSE cache
    BY ZenonT(60) DEF Publish
  <1> DEFINE r == [seq |-> seq[p] + 1, exp |-> now + RecordTTL, listed |-> listed]
             row == [rec |-> r, local |-> TRUE]
  <1>2. /\ seq' = [seq EXCEPT ![p] = @ + 1]
        /\ UNCHANGED <<now, rows, gen, fresh, fetch>>
    BY DEF Publish, authority
  <1>3. TypeOK /\ seq[p] \in Nat /\ now \in Nat
    BY DEF IInv, TypeOK
  <1>4. r \in Record /\ r.seq = seq[p] + 1 /\ r.exp = now + RecordTTL /\ row \in Row
        /\ row.rec = r /\ row.local = TRUE
    BY <1>3, DiscoveryAssumption DEF Record, Row
  <1>5. /\ sent' = [sent EXCEPT ![p] = @ \cup {r}]
        /\ cache' = [cache EXCEPT ![p] = row] \/ cache' = cache
    BY <1>1
  <1> HIDE DEF r, row
  <1>6. TypeOK'
    BY <1>2, <1>3, <1>4, <1>5 DEF TypeOK
  <1>7. InPlay' = InPlay
    BY <1>2 DEF InPlay
  <1>8. SnapshotsInOrder'
    BY <1>2, <1>3, <1>7, PlayShrinks DEF IInv, authority
  <1>9. RecordsInOrder'
    <2>1. \A q \in Pipes : Known(q)' \subseteq Known(q) \cup (IF q = p THEN {r} ELSE {})
      BY <1>2, <1>3, <1>5, <1>7 DEF Known, TypeOK
    <2> SUFFICES ASSUME NEW q \in Pipes, NEW a \in Known(q)', NEW b \in Known(q)'
                 PROVE  /\ a.seq <= seq'[q] /\ a.exp <= now' + RecordTTL
                        /\ a.seq = b.seq => a = b
                        /\ a.seq < b.seq => a.exp <= b.exp
      BY DEF RecordsInOrder
    <2>2. \A k \in Known(q) : /\ k.seq \in Nat /\ k.exp \in Nat
                             /\ k.seq <= seq[q] /\ k.exp <= now + RecordTTL
      BY SMTT(60), <1>3, Types DEF IInv, RecordsInOrder
    <2>3. CASE q # p
      <3>1. a \in Known(q) /\ b \in Known(q) /\ seq'[q] = seq[q]
        BY SMTT(60), <1>2, <1>3, <2>1, <2>3 DEF TypeOK
      <3> QED
        BY <1>2, <3>1 DEF IInv, RecordsInOrder
    <2>4. CASE q = p
      <3>1. seq'[q] = seq[p] + 1
        BY <1>2, <1>3, <2>4 DEF TypeOK
      <3>2. (a \in Known(q) \/ a = r) /\ (b \in Known(q) \/ b = r)
        BY <2>1, <2>4
      <3>3. CASE a \in Known(q) /\ b \in Known(q)
        BY SMTT(60), <1>2, <1>3, <2>2, <2>4, <3>1, <3>3 DEF IInv, RecordsInOrder
      <3>4. CASE a = r
        BY <1>2, <1>3, <1>4, <2>2, <2>4, <3>1, <3>2, <3>4, DiscoveryAssumption
      <3>5. CASE a \in Known(q) /\ b = r
        BY SMTT(60), <1>2, <1>3, <1>4, <2>2, <2>4, <3>1, <3>5, DiscoveryAssumption
      <3> QED
        BY <3>2, <3>3, <3>4, <3>5
    <2> QED
      BY <2>3, <2>4
  <1>10. CacheIsSnapshot'
    <2> SUFFICES ASSUME NEW q \in Pipes
                 PROVE  (/\ Discovered(q) => cache[q].rec = fresh.snap[q]
                         /\ fresh.snap[q] # None /\ now + Res <= fresh.snap[q].exp
                              => cache[q] # None)'
      BY DEF CacheIsSnapshot
    <2>1. row # None
      BY <1>4, DiscoveryAssumption DEF Row, Record
    <2> QED
      BY <1>2, <1>3, <1>4, <1>5, <2>1 DEF IInv, CacheIsSnapshot, Discovered, TypeOK
  <1>11. \A q \in Pipes : cache'[q] # None /\ cache'[q].local => cache'[q].rec.seq <= seq'[q]
    <2> SUFFICES ASSUME NEW q \in Pipes, cache'[q] # None, cache'[q].local
                 PROVE  cache'[q].rec.seq <= seq'[q]
      OBVIOUS
    <2>1. seq[q] \in Nat /\ seq'[q] \in Nat /\ seq[q] <= seq'[q]
      BY <1>2, <1>3 DEF TypeOK
    <2>2. cache[q] # None => cache[q].rec.seq \in Nat
      BY <1>3 DEF TypeOK, Row, Record
    <2>3. CASE cache'[q] = cache[q]
      BY SMTT(60), <2>1, <2>2, <2>3 DEF IInv
    <2>4. CASE q = p /\ cache'[q] = row
      BY SMTT(60), <1>2, <1>3, <1>4, <2>4 DEF TypeOK
    <2> QED
      BY <1>3, <1>5, <2>3, <2>4 DEF TypeOK
  <1> QED
    BY <1>6, <1>8, <1>9, <1>10, <1>11 DEF IInv

(* An announcement moves a known record to the authority's rows under a    *)
(* generation that no snapshot has.                                        *)
LEMMA AnnounceStep ==
  ASSUME IInv, NEW p \in Pipes, Announce(p)
  PROVE  IInv'
  <1>1. PICK r \in sent[p] :
          /\ rows[p] # None => ~Replays(rows[p], r)
          /\ rows' = [rows EXCEPT ![p] = r]
          /\ gen' = gen + 1
    BY ZenonT(60) DEF Announce
  <1>2. UNCHANGED <<now, seq, sent, cache, fresh, fetch>>
    BY DEF Announce, home
  <1>3. TypeOK /\ gen \in Nat
    BY DEF IInv, TypeOK
  <1>4. r \in Record /\ r.seq \in Nat /\ r # None /\ r \in Known(p)
    BY <1>3, DiscoveryAssumption DEF TypeOK, Record, Known
  <1>5. TypeOK'
    BY <1>1, <1>2, <1>3, <1>4 DEF TypeOK, Records
  <1>6. InPlay' = InPlay
    BY <1>2 DEF InPlay
  <1>7. RecordsInOrder'
    <2>1. \A q \in Pipes : rows'[q] = rows[q] \/ (q = p /\ rows'[q] = r)
      BY SMTT(60), <1>1, <1>3 DEF TypeOK, Records
    <2>2. \A q \in Pipes : Known(q)' \subseteq Known(q)
      BY SMTT(60), <1>2, <1>4, <1>6, <2>1 DEF Known
    <2> QED
      BY <1>2, <2>2, KnownShrinks DEF IInv
  <1>8. SnapshotsInOrder'
    <2>1. ASSUME NEW s \in InPlay, NEW q \in Pipes, s.snap[q] # None
          PROVE  Succeeds(rows[q], s.snap[q])'
      <3>1. Succeeds(rows[q], s.snap[q])
        BY SMTT(60), <2>1 DEF IInv, SnapshotsInOrder
      <3>2. s.snap[q].seq \in Nat /\ (rows[q] # None => rows[q].seq \in Nat)
        BY SMTT(60), <1>3, <2>1, Types
      <3>3. CASE q # p
        BY SMTT(60), <1>1, <1>2, <1>3, <3>1, <3>3 DEF Succeeds, TypeOK, Records
      <3>4. CASE q = p
        <4>1. rows'[q] = r
          BY SMTT(60), <1>1, <1>3, <3>4 DEF TypeOK, Records
        <4>2. rows[q] # None => rows[q].seq <= r.seq
          BY SMTT(60), <1>1, <1>4, <3>2, <3>4 DEF Replays
        <4> QED
          BY <1>2, <1>4, <3>1, <3>2, <4>1, <4>2 DEF Succeeds
      <3> QED
        BY SMTT(60), <3>3, <3>4
    <2>2. \A s \in InPlay : s.gen \in Nat /\ s.gen <= gen
      BY <1>3, Types DEF IInv, SnapshotsInOrder
    <2>3. \A s \in InPlay : s.gen <= gen' /\ s.gen # gen'
      BY <1>1, <1>3, <2>2
    <2>4. \A a, b : Succeeds(a, b)' <=> Succeeds(a, b)
      BY SMTT(60), <1>2 DEF Succeeds
    <2> QED
      BY <1>6, <2>1, <2>3, <2>4 DEF IInv, SnapshotsInOrder
  <1> QED
    BY <1>2, <1>5, <1>7, <1>8 DEF IInv, CacheIsSnapshot, Discovered

-----------------------------------------------------------------------------
(* Pruning takes only rows in their last second, and a new snapshot is the *)
(* authority's content under its current generation.                       *)
LEMMA ServeStep ==
  ASSUME IInv, NEW x \in Fetchers, ServeSnapshot(x)
  PROVE  IInv'
  <1> DEFINE n == [gen |-> gen', snap |-> Listed(rows')]
  <1>1. /\ rows' = Pruned(rows)
        /\ gen' = IF rows' = rows THEN gen ELSE gen + 1
        /\ \/ fetch' = [fetch EXCEPT ![x] = [pc |-> "reply", reply |-> n]]
           \/ fetch' = fetch
        /\ UNCHANGED <<now, seq, sent, cache, fresh>>
    BY SMTT(60) DEF ServeSnapshot, home
  <1>2. TypeOK /\ gen \in Nat \ {0} /\ rows \in Records
    BY DEF IInv, TypeOK
  <1>3. \A p \in Pipes : \/ rows'[p] = rows[p]
                         \/ rows'[p] = None /\ rows[p] # None /\ rows[p].exp < now + Res
    <2> SUFFICES ASSUME NEW p \in Pipes, rows'[p] # rows[p]
                 PROVE  rows'[p] = None /\ rows[p] # None /\ rows[p].exp < now + Res
      BY SMTT(60)
    <2>1. rows'[p] = None /\ rows[p] # None /\ Prunable(rows[p])
      BY <1>1 DEF Pruned
    <2>2. rows[p] \in Record
      BY <1>2, <2>1 DEF Records
    <2> QED
      BY <1>2, <2>1, <2>2, PrunedLate
  <1>4. rows' \in Records /\ gen' \in Nat \ {0} /\ gen <= gen'
    <2>1. rows' \in Records
      BY <1>1, <1>2 DEF Pruned, Records
    <2> QED
      BY <1>1, <1>2, <2>1
  <1>5. /\ n \in Snapshot /\ n.gen = gen' /\ n.snap = Listed(rows')
        /\ \A p \in Pipes : n.snap[p] # None => n.snap[p] = rows'[p]
    <2>1. Listed(rows') \in Records
      BY <1>4 DEF Listed, Records
    <2>2. \A p \in Pipes : Listed(rows')[p] # None => Listed(rows')[p] = rows'[p]
      BY SMTT(60) DEF Listed
    <2> QED
      BY <1>4, <2>1, <2>2 DEF Snapshot
  <1> HIDE DEF n
  <1>6. TypeOK'
    BY <1>1, <1>2, <1>4, <1>5 DEF TypeOK
  <1>7. InPlay' \subseteq InPlay \cup {n}
    BY SMTT(60), <1>1, <1>2 DEF InPlay, TypeOK
  <1>8. RecordsInOrder'
    <2>1. \A p \in Pipes : Known(p)' \subseteq Known(p)
      BY <1>1, <1>3, <1>5, <1>7 DEF Known
    <2> QED
      BY SMTT(60), <1>1, <2>1, KnownShrinks DEF IInv
  <1>9. \A a, b : Succeeds(a, b)' <=> Succeeds(a, b)
    BY <1>1 DEF Succeeds
  <1>10. ASSUME NEW s \in InPlay
         PROVE  /\ s.gen \in Nat /\ s.gen <= gen'
                /\ s.gen = 0 => s.snap = NoRecords
                /\ s.gen = gen' => s.snap = n.snap
                /\ \A p \in Pipes : s.snap[p] # None => Succeeds(rows'[p], s.snap[p])
    <2>1. /\ s.gen \in Nat /\ s.gen <= gen
          /\ s.gen = 0 => s.snap = NoRecords
          /\ s.gen = gen => s.snap = Listed(rows)
      BY SMTT(60), <1>2, Types DEF IInv, SnapshotsInOrder
    <2>2. s.gen = gen' => s.snap = n.snap
      BY <1>1, <1>2, <1>5, <2>1
    <2>3. ASSUME NEW p \in Pipes, s.snap[p] # None
          PROVE  Succeeds(rows'[p], s.snap[p])
      <3>1. Succeeds(rows[p], s.snap[p])
        BY ZenonT(60), <2>3 DEF IInv, SnapshotsInOrder
      <3>2. /\ s.snap[p] \in Known(p) /\ s.snap[p].seq \in Nat /\ s.snap[p].exp \in Nat
            /\ rows[p] # None => /\ rows[p] \in Known(p)
                                 /\ rows[p].seq \in Nat /\ rows[p].exp \in Nat
        BY ZenonT(60), <1>2, <2>3, Types
      <3>3. CASE rows'[p] = rows[p]
        BY SMTT(60), <3>1, <3>3
      <3>4. CASE rows'[p] # rows[p]
        <4>1. rows[p] # None /\ rows[p].exp < now + Res
          BY SMTT(60), <1>3, <3>4
        <4>2. s.snap[p].seq <= rows[p].seq => s.snap[p].exp <= rows[p].exp
          BY <3>2, <4>1 DEF IInv, RecordsInOrder
        <4>3. now \in Nat /\ Res \in Nat
          BY <1>2, ResAssumption DEF TypeOK
        <4> QED
          BY SMTT(60), <3>1, <3>2, <4>1, <4>2, <4>3 DEF Succeeds
      <3> QED
        BY ZenonT(60), <3>3, <3>4
    <2> QED
      BY SMTT(60), <1>2, <1>4, <2>1, <2>2, <2>3
  <1>11. \A p \in Pipes : n.snap[p] # None =>
            rows'[p] = n.snap[p] /\ Succeeds(n.snap[p], n.snap[p])
    <2>1. \A p \in Pipes : n.snap[p] # None => n.snap[p].seq \in Nat
      BY ZenonT(60), <1>5 DEF Snapshot, Records, Record
    <2> QED
      BY <1>5, <2>1 DEF Succeeds
  <1>12. SnapshotsInOrder'
    <2>1. ASSUME NEW s \in InPlay \cup {n}
          PROVE  /\ s.gen <= gen' /\ (s.gen = 0 => s.snap = NoRecords)
                 /\ s.gen = gen' => s.snap = Listed(rows')
                 /\ \A p \in Pipes : s.snap[p] # None => Succeeds(rows'[p], s.snap[p])
      BY SMTT(60), <1>4, <1>5, <1>10, <1>11
    <2>2. ASSUME NEW s \in InPlay \cup {n}, NEW t \in InPlay \cup {n}
          PROVE  /\ s.gen = t.gen => s.snap = t.snap
                 /\ s.gen <= t.gen =>
                      \A p \in Pipes : s.snap[p] # None /\ t.snap[p] # None
                                         => Succeeds(t.snap[p], s.snap[p])
      <3>1. CASE s \in InPlay /\ t \in InPlay
        BY SMTT(60), <3>1 DEF IInv, SnapshotsInOrder
      <3>2. CASE t = n
        BY <1>5, <1>10, <1>11, <3>2
      <3>3. CASE s = n /\ t \in InPlay
        <4>1. t.gen \in Nat /\ t.gen <= gen' /\ gen' \in Nat
          BY SMTT(60), <1>4, <1>10, <3>3
        <4>2. n.gen <= t.gen => t.snap = n.snap
          BY <1>5, <1>10, <3>3, <4>1
        <4> QED
          BY ZenonT(60), <1>11, <3>3, <4>1, <4>2, <1>5
      <3> QED
        BY SMTT(60), <3>1, <3>2, <3>3
    <2>3. Listed(rows)' = Listed(rows') /\ NoRecords' = NoRecords
      BY DEF Listed, NoRecords
    <2> QED
      BY SMTT(60), <1>7, <1>9, <2>1, <2>2, <2>3 DEF SnapshotsInOrder
  <1> QED
    BY SMTT(60), <1>1, <1>6, <1>8, <1>12 DEF IInv, CacheIsSnapshot, Discovered

(* Dropping or committing an answer brings no new snapshot into play.      *)
LEMMA IdlePlay ==
  ASSUME TypeOK, NEW x \in Fetchers, fetch' = [fetch EXCEPT ![x] = Idle],
         fresh' \in {fresh, fetch[x].reply}, UNCHANGED <<sent, rows>>
  PROVE  /\ InPlay' \subseteq InPlay \cup {NoSnapshot}
         /\ \A p \in Pipes : Known(p)' \subseteq Known(p)
  <1>1. InPlay' \subseteq InPlay \cup {NoSnapshot}
    BY DEF TypeOK, InPlay, Idle
  <1>2. \A p \in Pipes : NoSnapshot.snap[p] = None
    BY DEF NoSnapshot, NoRecords
  <1> QED
    BY <1>1, <1>2 DEF Known

(* The row of a discovered record.                                         *)
LEMMA FoundRow ==
  ASSUME NEW r \in Record, NEW v, v = [rec |-> r, local |-> FALSE]
  PROVE  v \in Row /\ v # None /\ v.rec = r /\ ~v.local
  <1>1. v \in Row
    BY DEF Row
  <1>2. v # None
    BY ZenonT(60), <1>1, DiscoveryAssumption DEF Row, Record
  <1> QED
    BY <1>1, <1>2

(* A commit makes the cache equal to the snapshot, but for this home's     *)
(* rows and for records in their last second.                              *)
LEMMA ReconcileStep ==
  ASSUME IInv, NEW x \in Fetchers, Reconcile(x)
  PROVE  IInv'
  <1> DEFINE t == fetch[x].reply
  <1>1. /\ cache' = Reconciled(t) /\ fresh' = t
        /\ fetch' = [fetch EXCEPT ![x] = Idle]
        /\ UNCHANGED <<now, seq, sent, rows, gen>>
    BY SMTT(60) DEF Reconcile, authority
  <1>2. TypeOK /\ t \in Snapshot /\ t.snap \in Records
    BY DEF IInv, TypeOK, Snapshot
  <1>3. NoSnapshot \in Snapshot
    BY SMTT(60) DEF NoSnapshot, NoRecords, Snapshot, Records
  <1> HIDE DEF t
  <1>4. ASSUME NEW p \in Pipes
        PROVE  \/ cache'[p] = cache[p] /\ cache[p] # None /\ cache[p].local
               \/ cache'[p] = None /\ (t.snap[p] = None \/ t.snap[p].exp < now + Res)
               \/ /\ cache'[p] \in Row /\ cache'[p] # None
                  /\ cache'[p].rec = t.snap[p] /\ ~cache'[p].local
    <2>1. t.snap[p] = None \/ t.snap[p] \in Record
      BY <1>2 DEF Records
    <2>2. t.snap[p] \in Record /\ Prunable(t.snap[p]) => t.snap[p].exp < now + Res
      BY <1>2, PrunedLate
    <2> QED
      BY <1>1, <2>1, <2>2, FoundRow DEF Reconciled
  <1>5. TypeOK'
    <2>1. \A p \in Pipes : cache'[p] \in Row \cup {None}
      BY SMTT(60), <1>2, <1>4 DEF TypeOK
    <2>2. cache' \in [Pipes -> Row \cup {None}]
      BY <1>1, <2>1 DEF Reconciled
    <2>3. Idle \in [pc : {"idle", "reply"}, reply : Snapshot]
      BY <1>3 DEF Idle
    <2> QED
      BY SMTT(60), <1>1, <1>2, <2>2, <2>3 DEF TypeOK
  <1>6. SnapshotsInOrder' /\ RecordsInOrder'
    BY ZenonT(60), <1>1, <1>2, IdlePlay, PlayShrinks, KnownShrinks DEF IInv, authority, t
  <1>7. CacheIsSnapshot'
    <2> SUFFICES ASSUME NEW p \in Pipes
                 PROVE  (/\ Discovered(p) => cache[p].rec = fresh.snap[p]
                         /\ fresh.snap[p] # None /\ now + Res <= fresh.snap[p].exp
                              => cache[p] # None)'
      BY SMTT(60) DEF CacheIsSnapshot
    <2>1. now \in Nat /\ Res \in Nat /\ (t.snap[p] # None => t.snap[p].exp \in Nat)
      BY SMTT(60), <1>2, ResAssumption DEF TypeOK, Records, Record
    <2> QED
      BY SMTT(60), <1>1, <1>4, <2>1 DEF Discovered
  <1>8. \A p \in Pipes : cache'[p] # None /\ cache'[p].local => cache'[p].rec.seq <= seq'[p]
    BY SMTT(60), <1>1, <1>4 DEF IInv
  <1> QED
    BY <1>5, <1>6, <1>7, <1>8 DEF IInv

(* A fetch that fails changes neither the cache nor the authority.         *)
LEMMA FailStep ==
  ASSUME IInv, NEW x \in Fetchers, FetchFails(x)
  PROVE  IInv'
  <1>1. UNCHANGED <<now, seq, sent, rows, gen, cache, fresh>> /\ TypeOK
    BY DEF FetchFails, authority, home, IInv
  <1>2. NoSnapshot \in Snapshot
    BY ZenonT(60) DEF NoSnapshot, NoRecords, Snapshot, Records
  <1>3. fetch' = [fetch EXCEPT ![x] = Idle]
    BY DEF FetchFails
  <1>4. TypeOK'
    BY SMTT(60), <1>1, <1>2, <1>3 DEF TypeOK, Idle
  <1>5. SnapshotsInOrder' /\ RecordsInOrder'
    BY ZenonT(60), <1>1, <1>3, <1>4, IdlePlay, PlayShrinks, KnownShrinks
       DEF IInv, authority
  <1> QED
    BY <1>1, <1>4, <1>5 DEF IInv, CacheIsSnapshot, Discovered

(* Pruning the cache takes only rows in their last second.                 *)
LEMMA PruneStep ==
  ASSUME IInv, Prune
  PROVE  IInv'
  <1>1. UNCHANGED <<now, seq, sent, rows, gen, fresh, fetch>> /\ TypeOK
    BY SMTT(60) DEF Prune, authority, IInv
  <1>2. ASSUME NEW p \in Pipes
        PROVE  \/ cache'[p] = cache[p]
               \/ cache'[p] = None /\ Discovered(p) /\ cache[p].rec.exp < now + Res
    <2>1. Discovered(p) => cache[p].rec \in Record
      BY <1>1 DEF Discovered, TypeOK, Row
    <2> QED
      BY <1>1, <2>1, PrunedLate DEF Prune
  <1>3. TypeOK'
    <2>1. cache' \in [Pipes -> Row \cup {None}]
      BY SMTT(60), <1>1 DEF Prune, TypeOK
    <2> QED
      BY <1>1, <2>1 DEF TypeOK
  <1>4. InPlay' = InPlay /\ \A p \in Pipes : Known(p)' = Known(p)
    BY SMTT(60), <1>1 DEF InPlay, Known
  <1>5. SnapshotsInOrder' /\ RecordsInOrder'
    BY SMTT(60), <1>1, <1>4, PlayShrinks, KnownShrinks DEF IInv, authority
  <1>6. CacheIsSnapshot'
    <2> SUFFICES ASSUME NEW p \in Pipes
                 PROVE  (/\ Discovered(p) => cache[p].rec = fresh.snap[p]
                         /\ fresh.snap[p] # None /\ now + Res <= fresh.snap[p].exp
                              => cache[p] # None)'
      BY SMTT(60) DEF CacheIsSnapshot
    <2>1. now \in Nat /\ Res \in Nat /\ (Discovered(p) => cache[p].rec.exp \in Nat)
      BY SMTT(60), <1>1, ResAssumption DEF TypeOK, Discovered, Row, Record
    <2> QED
      BY SMTT(60), <1>1, <1>2, <2>1 DEF IInv, CacheIsSnapshot, Discovered
  <1>7. \A p \in Pipes : cache'[p] # None /\ cache'[p].local => cache'[p].rec.seq <= seq'[p]
    BY SMTT(60), <1>1, <1>2 DEF IInv
  <1> QED
    BY SMTT(60), <1>3, <1>5, <1>6, <1>7 DEF IInv

(* Time only brings records closer to their end.                           *)
LEMMA TickStep ==
  ASSUME IInv, Tick
  PROVE  IInv'
  <1>1. /\ UNCHANGED <<seq, sent, rows, gen, cache, fresh, fetch>> /\ TypeOK
        /\ now \in Nat /\ now' = now + 1 /\ Res \in Nat /\ RecordTTL \in Nat
    BY SMTT(60), ResAssumption, DiscoveryAssumption DEF Tick, authority, home, IInv, TypeOK
  <1>2. TypeOK'
    BY SMTT(60), <1>1 DEF TypeOK
  <1>3. InPlay' = InPlay /\ \A p \in Pipes : Known(p)' = Known(p)
    BY ZenonT(60), <1>1 DEF InPlay, Known
  <1>4. RecordsInOrder'
    <2>1. \A p \in Pipes : \A r \in Known(p) : r.exp \in Nat
      BY <1>1, Types
    <2> QED
      BY <1>1, <1>3, <2>1 DEF IInv, RecordsInOrder
  <1>5. \A q, r : r.exp \in Nat /\ Succeeds(q, r) => Succeeds(q, r)'
    BY SMTT(60), <1>1 DEF Succeeds
  <1>6. SnapshotsInOrder'
    <2>1. \A s \in InPlay : \A p \in Pipes : s.snap[p] # None => s.snap[p].exp \in Nat
      BY <1>1, Types
    <2>2. Listed(rows)' = Listed(rows)
      BY <1>1 DEF Listed
    <2> QED
      BY ZenonT(60), <1>1, <1>3, <1>5, <2>1, <2>2 DEF IInv, SnapshotsInOrder
  <1>7. CacheIsSnapshot'
    <2>1. \A p \in Pipes : fresh.snap[p] # None => fresh.snap[p].exp \in Nat
      BY SMTT(60), <1>1, Types DEF InPlay
    <2> QED
      BY SMTT(60), <1>1, <2>1 DEF IInv, CacheIsSnapshot, Discovered
  <1> QED
    BY SMTT(60), <1>1, <1>2, <1>4, <1>6, <1>7 DEF IInv

-----------------------------------------------------------------------------
(* Every step preserves the inductive invariant.                           *)
LEMMA NextIInv == IInv /\ [Next]_vars => IInv'
  <1> SUFFICES ASSUME IInv, [Next]_vars PROVE IInv'
    BY ZenonT(60)
  <1>1. CASE UNCHANGED vars
    <2>1. InPlay' = InPlay /\ \A p \in Pipes : Known(p)' = Known(p)
      BY ZenonT(60), <1>1 DEF vars, InPlay, Known
    <2>2. UNCHANGED <<now, seq, sent, rows, gen, cache, fresh, fetch>> /\ TypeOK /\ TypeOK'
      BY <1>1 DEF vars, IInv, TypeOK
    <2> QED
      BY ZenonT(60), <2>1, <2>2, PlayShrinks, KnownShrinks
         DEF IInv, CacheIsSnapshot, Discovered, authority
  <1> QED
    BY <1>1, PublishStep, AnnounceStep, ServeStep,
       ReconcileStep, FailStep, PruneStep, TickStep DEF Next

(* The records of a Pipe and the snapshots in play are in order, and the   *)
(* cache is the accepted snapshot.                                         *)
THEOREM Invariance == Spec => []IInv
  BY InitIInv, NextIInv, PTL DEF Spec

(* The cache holds the accepted snapshot and this home's own rows.         *)
THEOREM CacheFollowsSnapshot == Spec => []CacheIsSnapshot
  BY Invariance, PTL DEF IInv

(* An answer that is not older than the accepted one is never ambiguous,   *)
(* and never replays a record that is not in its last second.              *)
THEOREM SnapshotsApply == Spec => []HonestSnapshotsApply
  <1>1. ASSUME IInv, NEW x \in Fetchers, fetch[x].reply.gen >= fresh.gen
        PROVE  LET s == fetch[x].reply
               IN  /\ s.gen = fresh.gen => s.snap = fresh.snap
                   /\ \A p \in Pipes :
                        /\ Discovered(p) /\ s.snap[p] # None
                        /\ Replays(cache[p].rec, s.snap[p])
                        => cache[p].rec.exp < now + Res
    <2> DEFINE s == fetch[x].reply
    <2>1. /\ TypeOK /\ s \in InPlay /\ fresh \in InPlay
          /\ s.gen \in Nat /\ fresh.gen \in Nat
      BY ZenonT(60), <1>1, Types DEF IInv, InPlay
    <2>2. /\ s.gen = fresh.gen => s.snap = fresh.snap
          /\ \A p \in Pipes : fresh.snap[p] # None /\ s.snap[p] # None
                               => Succeeds(s.snap[p], fresh.snap[p])
      BY ZenonT(60), <1>1, <2>1 DEF IInv, SnapshotsInOrder
    <2> HIDE DEF s
    <2>3. ASSUME NEW p \in Pipes, Discovered(p), s.snap[p] # None,
                 Replays(cache[p].rec, s.snap[p])
          PROVE  cache[p].rec.exp < now + Res
      <3>1. cache[p].rec = fresh.snap[p] /\ cache[p].rec \in Record
        BY ZenonT(60), <1>1, <2>1, <2>3 DEF IInv, CacheIsSnapshot, Discovered, TypeOK, Row
      <3>2. fresh.snap[p] # None
        BY ZenonT(60), <3>1, DiscoveryAssumption DEF Record
      <3>3. /\ fresh.snap[p] \in Known(p) /\ s.snap[p] \in Known(p)
            /\ fresh.snap[p].seq \in Nat /\ s.snap[p].seq \in Nat
            /\ fresh.snap[p].exp \in Nat /\ now \in Nat /\ Res \in Nat
        BY ZenonT(60), <2>1, <2>3, <3>2, Types, ResAssumption DEF TypeOK
      <3>4. s.snap[p].seq < fresh.snap[p].seq
        BY ZenonT(60), <1>1, <2>3, <3>1, <3>3 DEF IInv, RecordsInOrder, Replays
      <3> QED
        BY SMTT(60), <2>2, <2>3, <3>1, <3>2, <3>3, <3>4 DEF Succeeds
    <2> QED
      BY <2>2, <2>3 DEF s
  <1>2. IInv => HonestSnapshotsApply
    BY ZenonT(60), <1>1 DEF HonestSnapshotsApply
  <1> QED
    BY <1>2, Invariance, PTL

(* No step brings an older generation, nor an older record of a Pipe that  *)
(* is not in its last second.                                              *)
THEOREM NewsIsNew == Spec => NoOldNews
  <1> DEFINE Forward ==
        /\ fresh'.gen >= fresh.gen
        /\ \A p \in Pipes :
             /\ fresh.snap[p] # None /\ now + Res <= fresh.snap[p].exp
             /\ fresh'.snap[p] # None
             => fresh'.snap[p].seq >= fresh.snap[p].seq
  <1>1. ASSUME IInv, [Next]_vars PROVE Forward
    <2>1. /\ TypeOK /\ fresh \in InPlay /\ fresh.gen \in Nat
          /\ \A p \in Pipes : fresh.snap[p] # None => fresh.snap[p].seq \in Nat
      BY SMTT(60), <1>1, Types DEF IInv, InPlay
    <2>2. CASE fresh' = fresh
      BY <2>1, <2>2
    <2>3. ASSUME NEW x \in Fetchers, Reconcile(x) PROVE Forward
      <3> DEFINE t == fetch[x].reply
      <3>1. fresh' = t /\ t.gen >= fresh.gen
        BY <2>3 DEF Reconcile, Acceptable
      <3>2. t \in InPlay /\ t.gen \in Nat
        BY ZenonT(60), <2>1, Types DEF InPlay
      <3>3. \A p \in Pipes : t.snap[p] # None => t.snap[p].seq \in Nat
        BY ZenonT(60), <2>1, <3>2, Types
      <3> HIDE DEF t
      <3>4. \A p \in Pipes : fresh.snap[p] # None /\ t.snap[p] # None
                             => Succeeds(t.snap[p], fresh.snap[p])
        BY <1>1, <2>1, <3>1, <3>2 DEF IInv, SnapshotsInOrder
      <3> QED
        BY ZenonT(60), <2>1, <3>1, <3>3, <3>4 DEF Succeeds
    <2>4. fresh' = fresh \/ \E x \in Fetchers : Reconcile(x)
      BY <1>1 DEF Next, vars, Publish, Announce,
                  ServeSnapshot, FetchFails, Prune, Tick, home
    <2> QED
      BY SMTT(60), <2>2, <2>3, <2>4
  <1>2. IInv /\ [Next]_vars => [Forward]_vars
    BY <1>1
  <1> QED
    BY <1>2, Invariance, PTL DEF Spec, NoOldNews

(* A row that this home published stays until it publishes the Pipe again. *)
THEOREM OwnRowsAreKept == Spec => OwnRowsStay
  <1> DEFINE Kept == \A p \in Pipes :
          cache[p] # None /\ cache[p].local /\ cache'[p] # cache[p] =>
            /\ cache'[p] # None /\ cache'[p].local
            /\ cache'[p].rec.seq > cache[p].rec.seq
  <1>1. ASSUME IInv, [Next]_vars PROVE Kept
    <2> SUFFICES ASSUME NEW p \in Pipes, cache[p] # None, cache[p].local,
                        cache'[p] # cache[p]
                 PROVE  /\ cache'[p] # None /\ cache'[p].local
                        /\ cache'[p].rec.seq > cache[p].rec.seq
      BY ZenonT(60)
    <2>1. /\ TypeOK /\ cache[p].rec.seq \in Nat /\ cache[p].rec.seq <= seq[p]
          /\ seq[p] \in Nat /\ now \in Nat
      BY <1>1 DEF IInv, TypeOK, Row, Record
    <2>2. ~Prune
      BY ZenonT(60) DEF Prune, Discovered
    <2>3. ASSUME NEW x \in Fetchers PROVE ~Reconcile(x)
      BY DEF Reconcile, Reconciled
    <2>4. PICK q \in Pipes : Publish(q)
      BY <1>1, <2>2, <2>3 DEF Next, vars, Announce,
                  ServeSnapshot, FetchFails, Tick, home
    <2>5. PICK listed \in BOOLEAN :
            \/ cache' = [cache EXCEPT ![q] =
                  [rec |-> [seq |-> seq[q] + 1, exp |-> now + RecordTTL, listed |-> listed],
                   local |-> TRUE]]
            \/ cache' = cache
      BY ZenonT(60), <2>4 DEF Publish
    <2> DEFINE r == [seq |-> seq[p] + 1, exp |-> now + RecordTTL, listed |-> listed]
               row == [rec |-> r, local |-> TRUE]
    <2>6. cache'[p] = row
      BY ZenonT(60), <2>1, <2>5 DEF TypeOK
    <2>7. r \in Record
      BY SMTT(30), <2>1, DiscoveryAssumption DEF Record
    <2>8. row \in Row /\ row.rec.seq = seq[p] + 1 /\ row.local
      BY ZenonT(60), <2>7 DEF Row
    <2>9. row # None
      BY ZenonT(60), <2>8, DiscoveryAssumption DEF Row, Record
    <2>10. seq[p] + 1 > cache[p].rec.seq
      BY <2>1
    <2> HIDE DEF r, row
    <2> QED
      BY ZenonT(60), <2>6, <2>8, <2>9, <2>10
  <1>2. IInv /\ [Next]_vars => [Kept]_vars
    BY <1>1
  <1> QED
    BY <1>2, Invariance, PTL DEF Spec, OwnRowsStay

=============================================================================
