-------------------------- MODULE ScopedClient_proofs --------------------------
(***************************************************************************)
(* A local Pipe never presents an expired lease, for any number of         *)
(* connections and any times that satisfy Timing.                          *)
(*                                                                         *)
(* The invariant bounds how far the expiry that the code keeps with a      *)
(* lease can be from the lease's own, in the cache, in the stored row and  *)
(* in the goroutines between them, and how much of a lease is left while a *)
(* goroutine holds it.  A second one is about a refresh that a revocation  *)
(* overtakes, a third about the lock of the record.                        *)
(***************************************************************************)
EXTENDS ScopedClient, TLAPS

(* The time that can pass within a setup.                                  *)
D == Setup - 1

EntryOK(e) == e.left <= e.lease.left + D

(* A new pair on its way to the cache and the row.                         *)
PairOK(g) ==
    /\ g.pc = "set" /\ g.clock > 0 => g.lease.left >= AccessTTL - (Setup - g.clock)
    /\ g.pc = "expires" => g.lease.left >= AccessTTL - D
    /\ g.pc = "persist" => g.left <= g.lease.left + D

(* A connection has enough of its lease left for the rest of its setup and *)
(* for a stream.                                                           *)
EnoughLeft(g) ==
    /\ g.pc \in {"set", "expires", "persist", "dial"} /\ g.clock > 0
          => g.lease.left >= D + g.clock
    /\ g.pc = "hello" /\ g.clock > 0 => g.lease.left >= g.clock

LeaseInv ==
    /\ TypeOK
    /\ EntryOK(cache) /\ EntryOK(row)
    /\ PairOK(rf)
    /\ \A c \in Conns : PairOK(conn[c]) /\ EnoughLeft(conn[c])

-----------------------------------------------------------------------------
(* Leases and entries as time passes.                                      *)

LEMMA Constants ==
    /\ AccessTTL \in Nat /\ Margin \in Nat /\ Setup \in Nat /\ Cooldown \in Nat
    /\ MaxSeq \in Nat /\ MaxSeq > 0 /\ D \in Nat /\ Setup = D + 1
    /\ Margin >= 3 * D /\ AccessTTL > Margin
BY Timing DEF D

LEMMA NoLeaseType == NoLease \in Lease /\ Empty \in Entry /\ EntryOK(Empty)
BY Constants DEF NoLease, Lease, Empty, Entry, EntryOK

LEMMA AgedType ==
    ASSUME NEW l \in Lease
    PROVE  Aged(l) \in Lease /\ Aged(l).left = Less(l.left)
BY Constants DEF Aged, Less, Lease, NoLease

LEMMA StaleType ==
    ASSUME NEW l \in Lease
    PROVE  Stale(l) \in Lease /\ Stale(l).left = l.left
BY Constants DEF Stale, Lease

LEMMA KeptOK ==
    ASSUME NEW e \in Entry, EntryOK(e)
    PROVE  Kept(e) \in Entry /\ EntryOK(Kept(e))
BY NoLeaseType DEF Kept

LEMMA AgedEntryOK ==
    ASSUME NEW e \in Entry, EntryOK(e)
    PROVE  AgedEntry(e) \in Entry /\ EntryOK(AgedEntry(e))
<1> DEFINE a == [lease |-> Aged(e.lease), left |-> Less(e.left)]
<1>1. e.lease \in Lease /\ e.left \in 0..AccessTTL /\ e.lease.left \in 0..AccessTTL
  BY DEF Entry, Lease
<1>2. Aged(e.lease) \in Lease /\ Aged(e.lease).left = Less(e.lease.left)
  BY <1>1, AgedType
<1>3. Less(e.left) \in 0..AccessTTL /\ Less(e.left) <= Less(e.lease.left) + D
  BY <1>1, Constants DEF Less, EntryOK
<1>4. a \in Entry /\ EntryOK(a)
  BY <1>2, <1>3 DEF Entry, EntryOK
<1> QED BY <1>4, KeptOK DEF AgedEntry

(* What a tick does to the fields of a goroutine's record.                 *)
LEMMA LessType ==
    ASSUME NEW m \in Nat, NEW n \in 0..m
    PROVE  Less(n) \in 0..m /\ (n > 0 => Less(n) = n - 1) /\ (n = 0 => Less(n) = 0)
BY DEF Less

LEMMA SpentRefresh ==
    ASSUME NEW a \in RefreshCall, a.clock <= 0, a.pc # "expires"
    PROVE  LET z == [a EXCEPT !.lease = NoLease, !.left = 0]
           IN  z \in RefreshCall /\ PairOK(z)
<1> DEFINE z == [a EXCEPT !.lease = NoLease, !.left = 0]
<1>1. NoLease \in Lease /\ 0 \in 0..AccessTTL /\ NoLease.left = 0
  BY NoLeaseType, Constants DEF NoLease
<1>2. /\ z \in RefreshCall /\ z.left = 0 /\ z.lease = NoLease
      /\ z.clock = a.clock /\ z.pc = a.pc /\ z.clock \in 0..Setup
  BY <1>1 DEF RefreshCall
<1> HIDE DEF z
<1>3. PairOK(z)
  BY <1>1, <1>2, Constants DEF PairOK
<1> QED BY <1>2, <1>3 DEF z

LEMMA AgedRefresh ==
    ASSUME NEW g \in RefreshCall, PairOK(g), g.pc # "expires"
    PROVE  AgedCall(g) \in RefreshCall /\ PairOK(AgedCall(g))
<1> DEFINE a == [g EXCEPT !.lease = Aged(@), !.left = Less(@), !.clock = Less(@)]
           z == [a EXCEPT !.lease = NoLease, !.left = 0]
<1>1. /\ g.lease \in Lease /\ g.lease.left \in 0..AccessTTL
      /\ g.left \in 0..AccessTTL /\ g.clock \in 0..Setup
  BY DEF RefreshCall, Lease
<1>2. Aged(g.lease) \in Lease /\ Aged(g.lease).left = Less(g.lease.left)
  BY <1>1, AgedType
<1>3. Less(g.left) \in 0..AccessTTL /\ Less(g.clock) \in 0..Setup
  BY <1>1, LessType, Constants
<1>4. /\ a \in RefreshCall /\ a.pc = g.pc /\ a.lease = Aged(g.lease)
      /\ a.left = Less(g.left) /\ a.clock = Less(g.clock)
  BY <1>2, <1>3 DEF RefreshCall
<1>5. PairOK(a)
  BY <1>1, <1>2, <1>4, Constants DEF PairOK, Less
<1>6. a.clock > 0 \/ a.clock <= 0
  BY <1>3, <1>4, Constants
<1> HIDE DEF a
<1>7. a.clock <= 0 => z \in RefreshCall /\ PairOK(z)
  BY <1>4, SpentRefresh
<1> QED BY <1>4, <1>5, <1>6, <1>7 DEF AgedCall, a

LEMMA SpentConn ==
    ASSUME NEW a \in ConnCall, a.clock <= 0, a.pc # "expires"
    PROVE  LET z == [a EXCEPT !.lease = NoLease, !.left = 0]
           IN  z \in ConnCall /\ PairOK(z) /\ EnoughLeft(z)
<1> DEFINE z == [a EXCEPT !.lease = NoLease, !.left = 0]
<1>1. NoLease \in Lease /\ 0 \in 0..AccessTTL /\ NoLease.left = 0
  BY NoLeaseType, Constants DEF NoLease
<1>2. /\ z \in ConnCall /\ z.left = 0 /\ z.lease = NoLease
      /\ z.clock = a.clock /\ z.pc = a.pc /\ z.clock \in 0..Setup
  BY <1>1 DEF ConnCall
<1> HIDE DEF z
<1>3. PairOK(z)
  BY <1>1, <1>2, Constants DEF PairOK
<1>4. EnoughLeft(z)
  BY <1>1, <1>2, Constants DEF EnoughLeft
<1> QED BY <1>2, <1>3, <1>4 DEF z

LEMMA AgedConn ==
    ASSUME NEW g \in ConnCall, PairOK(g), EnoughLeft(g), g.pc # "expires"
    PROVE  AgedCall(g) \in ConnCall /\ PairOK(AgedCall(g)) /\ EnoughLeft(AgedCall(g))
<1> DEFINE a == [g EXCEPT !.lease = Aged(@), !.left = Less(@), !.clock = Less(@)]
           z == [a EXCEPT !.lease = NoLease, !.left = 0]
<1>1. /\ g.lease \in Lease /\ g.lease.left \in 0..AccessTTL
      /\ g.left \in 0..AccessTTL /\ g.clock \in 0..Setup
  BY DEF ConnCall, Lease
<1>2. Aged(g.lease) \in Lease /\ Aged(g.lease).left = Less(g.lease.left)
  BY <1>1, AgedType
<1>3. Less(g.left) \in 0..AccessTTL /\ Less(g.clock) \in 0..Setup
  BY <1>1, LessType, Constants
<1>4. /\ a \in ConnCall /\ a.pc = g.pc /\ a.lease = Aged(g.lease)
      /\ a.left = Less(g.left) /\ a.clock = Less(g.clock)
  BY <1>2, <1>3 DEF ConnCall
<1>5. PairOK(a)
  BY <1>1, <1>2, <1>4, Constants DEF PairOK, Less
<1>6. EnoughLeft(a)
  BY <1>1, <1>2, <1>4, Constants DEF EnoughLeft, Less
<1>7. a.clock > 0 \/ a.clock <= 0
  BY <1>3, <1>4, Constants
<1> HIDE DEF a
<1>8. a.clock <= 0 => z \in ConnCall /\ PairOK(z) /\ EnoughLeft(z)
  BY <1>4, SpentConn
<1> QED BY <1>4, <1>5, <1>6, <1>7, <1>8 DEF AgedCall, a

-----------------------------------------------------------------------------
(* What the goroutines put into their records.                             *)

LEMMA IdleOK == Idle \in ConnCall /\ PairOK(Idle) /\ EnoughLeft(Idle)
BY NoLeaseType, Constants DEF Idle, ConnCall, PairOK, EnoughLeft

LEMMA OffOK ==
    /\ Off \in RefreshCall /\ PairOK(Off)
    /\ Waiting \in RefreshCall /\ PairOK(Waiting)
<1>1. Off \in RefreshCall /\ Off.pc = "off"
  <2>1. NoLease \in Lease /\ 0 \in 0..AccessTTL /\ 0 \in 0..Setup
    BY NoLeaseType, Constants
  <2> QED BY Zenon, <2>1 DEF Off, RefreshCall
<1>2. Waiting \in RefreshCall /\ Waiting.pc = "wait"
  BY Zenon, <1>1 DEF Waiting, RefreshCall
<1> QED BY <1>1, <1>2 DEF PairOK

LEMMA IssuedType == Issued \in Lease /\ Issued.left = AccessTTL
BY Constants DEF Issued, Lease

(* A pass starts with no lease or with one that outlives setup and stream. *)
LEMMA OpeningOK ==
    ASSUME LeaseInv, NEW c \in Conns, NEW r \in 0..MaxSeq, NEW again \in BOOLEAN
    PROVE  /\ Opening(c, r, again) \in ConnCall
           /\ PairOK(Opening(c, r, again)) /\ EnoughLeft(Opening(c, r, again))
<1> DEFINE o == Opening(c, r, again)
<1>1. conn[c] \in ConnCall /\ cache.lease \in Lease
      /\ cache.left \in 0..AccessTTL /\ cache.lease.left \in 0..AccessTTL
  BY DEF LeaseInv, TypeOK, Entry, Lease
<1>2. /\ o \in ConnCall /\ o.clock = Setup
      /\ o.pc = (IF Usable(cache) THEN "dial" ELSE "request")
      /\ o.lease = (IF Usable(cache) THEN cache.lease ELSE NoLease)
  <2>1. NoLease \in Lease /\ 0 \in 0..AccessTTL /\ Setup \in 0..Setup
    BY NoLeaseType, Constants
  <2>2. CASE Usable(cache)
    BY <1>1, <2>1, <2>2 DEF Opening, ConnCall
  <2>3. CASE ~Usable(cache)
    BY <1>1, <2>1, <2>3 DEF Opening, ConnCall
  <2> QED BY <2>2, <2>3
<1>3. Usable(cache) => cache.lease.left >= D + Setup
  BY <1>1, Constants DEF Usable, LeaseInv, EntryOK
<1> HIDE DEF o
<1>4. PairOK(o) /\ EnoughLeft(o)
  BY <1>2, <1>3, Constants DEF PairOK, EnoughLeft
<1> QED BY <1>2, <1>4 DEF o

-----------------------------------------------------------------------------
(* The steps.                                                              *)

ConnsOK == conn \in [Conns -> ConnCall] /\ \A c \in Conns : PairOK(conn[c]) /\ EnoughLeft(conn[c])
RefreshOK == rf \in RefreshCall /\ PairOK(rf)
LeasesOK == cache \in Entry /\ row \in Entry /\ EntryOK(cache) /\ EntryOK(row)
RecordsOK ==
    /\ pub \in 1..MaxSeq /\ calm \in 0..Setup /\ seen \in 1..MaxSeq
    /\ mu \in Conns \cup {Periodic, Free} /\ cool \in 0..Cooldown

LEMMA Parts == LeaseInv <=> ConnsOK /\ RefreshOK /\ LeasesOK /\ RecordsOK
BY DEF LeaseInv, ConnsOK, RefreshOK, LeasesOK, RecordsOK, TypeOK

LEMMA PartsPrime == ConnsOK' /\ RefreshOK' /\ LeasesOK' /\ RecordsOK' => LeaseInv'
BY DEF LeaseInv, ConnsOK, RefreshOK, LeasesOK, RecordsOK, TypeOK

LEMMA Same ==
    ASSUME LeaseInv
    PROVE  /\ UNCHANGED conn => ConnsOK'
           /\ UNCHANGED rf => RefreshOK'
           /\ UNCHANGED <<cache, row>> => LeasesOK'
           /\ UNCHANGED <<pub, calm, resolver>> => RecordsOK'
<1>1. ConnsOK /\ RefreshOK /\ LeasesOK /\ RecordsOK
  BY Parts
<1>2. UNCHANGED conn => ConnsOK'
  BY <1>1 DEF ConnsOK
<1>3. UNCHANGED rf => RefreshOK'
  BY <1>1 DEF RefreshOK
<1>4. UNCHANGED <<cache, row>> => LeasesOK'
  BY <1>1 DEF LeasesOK
<1>5. UNCHANGED <<pub, calm, resolver>> => RecordsOK'
  BY <1>1 DEF RecordsOK, resolver
<1> QED BY <1>2, <1>3, <1>4, <1>5

LEMMA ConnUpdate ==
    ASSUME ConnsOK, NEW c \in Conns, NEW g \in ConnCall, PairOK(g), EnoughLeft(g),
           conn' = [conn EXCEPT ![c] = g]
    PROVE  ConnsOK'
BY Zenon DEF ConnsOK

LEMMA CloseOK ==
    ASSUME ConnsOK, NEW c \in Conns, Close(c)
    PROVE  ConnsOK'
BY IdleOK, ConnUpdate DEF Close

LEMMA TransientOK ==
    ASSUME ConnsOK, NEW c \in Conns, Transient(c)
    PROVE  ConnsOK'
<1> DEFINE g == [Idle EXCEPT !.pc = "recover", !.seq = conn[c].seq]
<1>1. conn[c] \in ConnCall /\ conn[c].seq \in 0..MaxSeq
  BY DEF ConnsOK, ConnCall
<1>2. g \in ConnCall /\ g.pc = "recover"
  <2>1. Idle \in ConnCall
    BY IdleOK
  <2> QED BY <1>1, <2>1 DEF ConnCall
<1> HIDE DEF g
<1>3. PairOK(g) /\ EnoughLeft(g)
  BY <1>2 DEF PairOK, EnoughLeft
<1>4. conn' = [conn EXCEPT ![c] = Idle] \/ conn' = [conn EXCEPT ![c] = g]
  BY DEF Transient, g
<1> QED BY <1>2, <1>3, <1>4, IdleOK, ConnUpdate

LEMMA AcceptStep == ASSUME LeaseInv, NEW c \in Conns, Accept(c) PROVE LeaseInv'
<1>1. seen \in 0..MaxSeq /\ FALSE \in BOOLEAN
  BY Constants DEF LeaseInv, TypeOK
<1>2. ConnsOK'
  BY <1>1, OpeningOK, ConnUpdate, Parts, Zenon DEF Accept
<1> QED BY <1>2, Same, PartsPrime DEF Accept

LEMMA RequestStep == ASSUME LeaseInv, NEW c \in Conns, Request(c) PROVE LeaseInv'
<1> DEFINE g == [conn[c] EXCEPT !.pc = "set", !.lease = Issued]
<1>1. conn[c] \in ConnCall /\ conn \in [Conns -> ConnCall] /\ conn[c].clock \in 0..Setup
  BY DEF LeaseInv, TypeOK, ConnCall
<1>2. g \in ConnCall /\ g.pc = "set" /\ g.lease = Issued /\ g.clock = conn[c].clock
  BY <1>1, IssuedType DEF ConnCall
<1> HIDE DEF g
<1>3. PairOK(g) /\ EnoughLeft(g)
  BY <1>1, <1>2, IssuedType, Constants DEF PairOK, EnoughLeft
<1>4. Close(c) \/ conn' = [conn EXCEPT ![c] = g]
  BY <1>1 DEF Request, g
<1>5. ConnsOK'
  BY <1>2, <1>3, <1>4, CloseOK, ConnUpdate, Parts
<1> QED BY <1>5, Same, PartsPrime DEF Request

(* A new pair is cached with its own expiry.                               *)
LEMMA CachedOK == ASSUME NEW l \in Lease PROVE Cached(l) \in Entry /\ EntryOK(Cached(l))
BY Constants DEF Cached, Entry, EntryOK, Lease

LEMMA SetStep == ASSUME LeaseInv, NEW c \in Conns, Set(c) PROVE LeaseInv'
<1> DEFINE g == [conn[c] EXCEPT !.pc = "expires"]
<1>1. /\ conn[c] \in ConnCall /\ conn \in [Conns -> ConnCall] /\ conn[c].clock \in 0..Setup
      /\ conn[c].lease \in Lease /\ conn[c].lease.left \in 0..AccessTTL
      /\ PairOK(conn[c]) /\ EnoughLeft(conn[c])
  BY DEF LeaseInv, TypeOK, ConnCall, Lease
<1>2. CASE conn[c].clock > 0 /\ cache' = Cached(conn[c].lease)
           /\ conn' = [conn EXCEPT ![c].pc = "expires"]
  <2>1. g \in ConnCall /\ g.pc = "expires" /\ g.lease = conn[c].lease /\ g.clock = conn[c].clock
    BY <1>1 DEF ConnCall
  <2>2. conn[c].pc = "set"
    BY DEF Set
  <2>3. conn' = [conn EXCEPT ![c] = g]
    BY <1>1, <1>2
  <2> HIDE DEF g
  <2>4. PairOK(g) /\ EnoughLeft(g)
    BY <1>1, <1>2, <2>1, <2>2, Constants DEF PairOK, EnoughLeft
  <2>5. ConnsOK'
    BY <2>1, <2>3, <2>4, ConnUpdate, Parts
  <2>6. LeasesOK'
    BY <1>1, <1>2, CachedOK, Parts DEF LeasesOK, Set
  <2> QED BY <2>5, <2>6, Same, PartsPrime DEF Set
<1>3. CASE Close(c) /\ UNCHANGED cache
  <2>1. ConnsOK'
    BY <1>3, CloseOK, Parts
  <2> QED BY <1>3, <2>1, Same, PartsPrime DEF Set
<1> QED BY <1>2, <1>3 DEF Set

(* The fields of a connection's record.                                    *)
LEMMA ConnFields ==
    ASSUME LeaseInv, NEW c \in Conns
    PROVE  /\ conn \in [Conns -> ConnCall] /\ conn[c] \in ConnCall
           /\ conn[c].clock \in 0..Setup /\ conn[c].left \in 0..AccessTTL
           /\ conn[c].seq \in 0..MaxSeq
           /\ conn[c].lease \in Lease /\ conn[c].lease.left \in 0..AccessTTL
           /\ PairOK(conn[c]) /\ EnoughLeft(conn[c])
BY DEF LeaseInv, TypeOK, ConnCall, Lease

LEMMA CacheFields ==
    ASSUME LeaseInv
    PROVE  /\ cache \in Entry /\ row \in Entry /\ EntryOK(cache) /\ EntryOK(row)
           /\ cache.left \in 0..AccessTTL /\ cache.lease \in Lease
           /\ row.left \in 0..AccessTTL /\ row.lease \in Lease
BY DEF LeaseInv, TypeOK, Entry

LEMMA ReadExpiresStep == ASSUME LeaseInv, NEW c \in Conns, ReadExpires(c) PROVE LeaseInv'
<1> DEFINE g == [conn[c] EXCEPT !.pc = "persist", !.left = cache.left]
<1>1. /\ g \in ConnCall /\ g.pc = "persist" /\ g.left = cache.left
      /\ g.lease = conn[c].lease /\ g.clock = conn[c].clock
  BY ConnFields, CacheFields DEF ConnCall
<1>2. conn[c].pc = "expires" /\ conn' = [conn EXCEPT ![c] = g]
  BY ConnFields DEF ReadExpires
<1> HIDE DEF g
<1>3. PairOK(g) /\ EnoughLeft(g)
  BY <1>1, <1>2, ConnFields, CacheFields, Constants DEF PairOK, EnoughLeft
<1>4. ConnsOK'
  BY <1>1, <1>2, <1>3, ConnUpdate, Parts
<1> QED BY <1>4, Same, PartsPrime DEF ReadExpires

(* The row gets the lease with the expiry that was read.                   *)
LEMMA StoredOK ==
    ASSUME NEW l \in Lease, NEW n \in 0..AccessTTL, n <= l.left + D
    PROVE  LET e == Kept([lease |-> l, left |-> n]) IN e \in Entry /\ EntryOK(e)
<1> DEFINE e == [lease |-> l, left |-> n]
<1>1. e \in Entry /\ EntryOK(e)
  BY DEF Entry, EntryOK
<1> HIDE DEF e
<1>2. Kept(e) \in Entry /\ EntryOK(Kept(e))
  BY <1>1, KeptOK
<1> QED BY <1>2 DEF e

LEMMA PersistStep == ASSUME LeaseInv, NEW c \in Conns, Persist(c) PROVE LeaseInv'
<1> DEFINE g == [conn[c] EXCEPT !.pc = "dial", !.left = 0]
<1>0. conn[c].pc = "persist"
  BY DEF Persist
<1>1. CASE Close(c) /\ UNCHANGED row
  <2>1. ConnsOK'
    BY <1>1, CloseOK, Parts
  <2> QED BY <1>1, <2>1, Same, PartsPrime DEF Persist
<1>2. CASE /\ row' = Kept([lease |-> conn[c].lease, left |-> conn[c].left])
           /\ conn' = [conn EXCEPT ![c].pc = "dial", ![c].left = 0]
  <2>1. 0 \in 0..AccessTTL
    BY Constants
  <2>2. /\ g \in ConnCall /\ g.pc = "dial"
        /\ g.lease = conn[c].lease /\ g.clock = conn[c].clock
    BY <2>1, ConnFields DEF ConnCall
  <2>3. conn' = [conn EXCEPT ![c] = g]
    BY <1>2, ConnFields
  <2> HIDE DEF g
  <2>4. PairOK(g) /\ EnoughLeft(g)
    BY <1>0, <2>2, ConnFields DEF PairOK, EnoughLeft
  <2>5. ConnsOK'
    BY <2>2, <2>3, <2>4, ConnUpdate, Parts
  <2>6. conn[c].left <= conn[c].lease.left + D
    BY <1>0, ConnFields DEF PairOK
  <2>7. row' \in Entry /\ EntryOK(row')
    BY <1>2, <2>6, ConnFields, StoredOK
  <2>8. LeasesOK'
    BY <2>7, CacheFields DEF LeasesOK, Persist
  <2> QED BY <2>5, <2>8, Same, PartsPrime DEF Persist
<1> QED BY <1>1, <1>2 DEF Persist

LEMMA RefreshFields ==
    ASSUME LeaseInv
    PROVE  /\ rf \in RefreshCall /\ rf.clock \in 0..Setup /\ rf.left \in 0..AccessTTL
           /\ rf.lease \in Lease /\ rf.lease.left \in 0..AccessTTL /\ PairOK(rf)
BY DEF LeaseInv, TypeOK, RefreshCall, Lease

LEMMA DialStep == ASSUME LeaseInv, NEW c \in Conns, Dial(c) PROVE LeaseInv'
<1> DEFINE g == [conn[c] EXCEPT !.pc = "hello", !.clock = Setup]
           w == [rf EXCEPT !.pc = "wait"]
<1>1. w \in RefreshCall /\ w.pc = "wait"
  BY RefreshFields DEF RefreshCall
<1> HIDE DEF w
<1>2. PairOK(w)
  BY <1>1 DEF PairOK
<1>3. RefreshOK'
  BY <1>1, <1>2, RefreshFields DEF Dial, RefreshOK, w
<1>4. CASE conn[c].clock > 0 /\ conn' = [conn EXCEPT ![c].pc = "hello", ![c].clock = Setup]
  <2>1. Setup \in 0..Setup
    BY Constants
  <2>2. /\ g \in ConnCall /\ g.pc = "hello"
        /\ g.lease = conn[c].lease /\ g.clock = Setup
    BY <2>1, ConnFields DEF ConnCall
  <2>3. conn' = [conn EXCEPT ![c] = g] /\ conn[c].pc = "dial"
    BY <1>4, ConnFields DEF Dial
  <2> HIDE DEF g
  <2>4. PairOK(g) /\ EnoughLeft(g)
    BY <1>4, <2>2, <2>3, ConnFields, Constants DEF PairOK, EnoughLeft
  <2> QED BY <2>2, <2>3, <2>4, <1>3, ConnUpdate, Parts, Same, PartsPrime DEF Dial
<1>5. CASE Transient(c)
  <2>1. ConnsOK'
    BY <1>5, TransientOK, Parts
  <2> QED BY <1>3, <2>1, Same, PartsPrime DEF Dial
<1> QED BY <1>4, <1>5 DEF Dial

LEMMA HandshakeStep == ASSUME LeaseInv, NEW c \in Conns, Handshake(c) PROVE LeaseInv'
<1> DEFINE g == [Idle EXCEPT !.pc = "serving"]
<1>1. g \in ConnCall /\ g.pc = "serving"
  <2>1. Idle \in ConnCall
    BY IdleOK
  <2> QED BY <2>1 DEF ConnCall
<1>2. conn' = [conn EXCEPT ![c] = g] \/ Close(c) \/ Transient(c)
  BY DEF Handshake
<1> HIDE DEF g
<1>3. PairOK(g) /\ EnoughLeft(g)
  BY <1>1 DEF PairOK, EnoughLeft
<1>4. ConnsOK'
  BY <1>1, <1>2, <1>3, ConnUpdate, CloseOK, TransientOK, Parts
<1> QED BY <1>4, Same, PartsPrime DEF Handshake

LEMMA EndStep == ASSUME LeaseInv, NEW c \in Conns, End(c) PROVE LeaseInv'
<1>1. ConnsOK'
  BY CloseOK, Parts DEF End
<1> QED BY <1>1, Same, PartsPrime DEF End

LEMMA RecordFields ==
    ASSUME LeaseInv
    PROVE  /\ pub \in 1..MaxSeq /\ calm \in 0..Setup /\ seen \in 1..MaxSeq
           /\ mu \in Conns \cup {Periodic, Free} /\ cool \in 0..Cooldown
BY DEF LeaseInv, TypeOK

LEMMA RecoverStep == ASSUME LeaseInv, NEW c \in Conns, Recover(c) PROVE LeaseInv'
<1> DEFINE g == [conn[c] EXCEPT !.pc = "fetch"]
<1>1. RecordsOK'
  BY RecordFields, Constants DEF Recover, RecordsOK
<1>2. g \in ConnCall /\ g.pc = "fetch"
  BY ConnFields DEF ConnCall
<1>3. Close(c) \/ conn' = [conn EXCEPT ![c] = g]
  BY ConnFields DEF Recover
<1> HIDE DEF g
<1>4. PairOK(g) /\ EnoughLeft(g)
  BY <1>2 DEF PairOK, EnoughLeft
<1>5. ConnsOK'
  BY <1>2, <1>3, <1>4, ConnUpdate, CloseOK, Parts
<1> QED BY <1>1, <1>5, Same, PartsPrime DEF Recover

LEMMA FetchStep == ASSUME LeaseInv, NEW c \in Conns, Fetch(c) PROVE LeaseInv'
<1>1. CASE Close(c) /\ UNCHANGED seen
  <2>1. ConnsOK'
    BY <1>1, CloseOK, Parts
  <2>2. RecordsOK'
    BY <1>1, RecordFields DEF Fetch, RecordsOK
  <2> QED BY <2>1, <2>2, Same, PartsPrime DEF Fetch
<1>2. ASSUME NEW r \in (seen + 1)..pub, seen' = r,
             conn' = [conn EXCEPT ![c] = Opening(c, r, TRUE)]
      PROVE  LeaseInv'
  <2>1. r \in 1..MaxSeq /\ r \in 0..MaxSeq /\ TRUE \in BOOLEAN
    BY RecordFields, Constants
  <2>2. ConnsOK'
    BY <1>2, <2>1, OpeningOK, ConnUpdate, Parts, Zenon
  <2>3. RecordsOK'
    BY <1>2, <2>1, RecordFields DEF Fetch, RecordsOK
  <2> QED BY <2>2, <2>3, Same, PartsPrime DEF Fetch
<1> QED BY <1>1, <1>2 DEF Fetch

LEMMA ResolveStep == ASSUME LeaseInv, Resolve \/ Resolved PROVE LeaseInv'
<1>1. RecordsOK'
  BY RecordFields, Constants DEF Resolve, Resolved, RecordsOK
<1> QED BY <1>1, Same, PartsPrime DEF Resolve, Resolved

LEMMA MoveStep == ASSUME LeaseInv, Move PROVE LeaseInv'
<1>1. RecordsOK'
  BY RecordFields, Constants DEF Move, RecordsOK, resolver
<1> QED BY <1>1, Same, PartsPrime DEF Move

-----------------------------------------------------------------------------
(* The refresh goroutine.                                                  *)

LEMMA RefreshTickStep == ASSUME LeaseInv, RefreshTick PROVE LeaseInv'
<1>1. Setup \in 0..Setup
  BY Constants
<1>2. rf' \in RefreshCall /\ rf'.pc = "request"
  BY <1>1, RefreshFields, CacheFields DEF RefreshTick, RefreshCall
<1>3. RefreshOK'
  BY <1>2 DEF RefreshOK, PairOK
<1> QED BY <1>3, Same, PartsPrime DEF RefreshTick

LEMMA ExchangeStep == ASSUME LeaseInv, Exchange PROVE LeaseInv'
<1>1. CASE rf' = Waiting
  BY <1>1, OffOK, Same, PartsPrime DEF Exchange, RefreshOK
<1>2. CASE rf' = [rf EXCEPT !.pc = "mint", !.lease = NoLease, !.old = TRUE]
  <2>1. NoLease \in Lease
    BY NoLeaseType
  <2>2. rf' \in RefreshCall /\ rf'.pc = "mint"
    BY <1>2, <2>1, RefreshFields DEF RefreshCall
  <2>3. RefreshOK'
    BY <2>2 DEF RefreshOK, PairOK
  <2> QED BY <2>3, Same, PartsPrime DEF Exchange
<1> QED BY <1>1, <1>2 DEF Exchange

LEMMA MintStep == ASSUME LeaseInv, Mint PROVE LeaseInv'
<1>1. CASE rf' = Waiting
  BY <1>1, OffOK, Same, PartsPrime DEF Mint, RefreshOK
<1>2. CASE rf' = [rf EXCEPT !.pc = "set", !.lease = Issued]
  <2>1. rf' \in RefreshCall /\ rf'.pc = "set" /\ rf'.lease = Issued /\ rf'.clock = rf.clock
    BY <1>2, IssuedType, RefreshFields DEF RefreshCall
  <2>2. RefreshOK'
    BY <2>1, IssuedType, RefreshFields, Constants DEF RefreshOK, PairOK
  <2> QED BY <2>2, Same, PartsPrime DEF Mint
<1> QED BY <1>1, <1>2 DEF Mint

LEMMA RefreshSetStep == ASSUME LeaseInv, RefreshSet PROVE LeaseInv'
<1>1. CASE rf' = Waiting /\ UNCHANGED cache
  BY <1>1, OffOK, Same, PartsPrime DEF RefreshSet, RefreshOK
<1>2. CASE rf.clock > 0 /\ cache' = Cached(rf.lease) /\ rf' = [rf EXCEPT !.pc = "expires", !.old = FALSE]
  <2>1. /\ rf.pc = "set"
        /\ rf' \in RefreshCall /\ rf'.pc = "expires" /\ rf'.lease = rf.lease
    BY <1>2, RefreshFields DEF RefreshCall, RefreshSet
  <2>2. RefreshOK'
    BY <1>2, <2>1, RefreshFields, Constants DEF RefreshOK, PairOK
  <2>3. cache' \in Entry /\ EntryOK(cache')
    BY <1>2, RefreshFields, CachedOK
  <2>4. LeasesOK'
    BY <2>3, CacheFields DEF LeasesOK, RefreshSet
  <2> QED BY <2>2, <2>4, Same, PartsPrime DEF RefreshSet
<1> QED BY <1>1, <1>2 DEF RefreshSet

LEMMA RefreshReadExpiresStep == ASSUME LeaseInv, RefreshReadExpires PROVE LeaseInv'
<1>1. 0 \in 0..Setup
  BY Constants
<1>2. /\ rf.pc = "expires" /\ rf' \in RefreshCall /\ rf'.pc = "persist"
      /\ rf'.left = cache.left /\ rf'.lease = rf.lease
  BY <1>1, RefreshFields, CacheFields DEF RefreshReadExpires, RefreshCall
<1>3. RefreshOK'
  BY <1>2, RefreshFields, CacheFields, Constants DEF RefreshOK, PairOK
<1> QED BY <1>3, Same, PartsPrime DEF RefreshReadExpires

LEMMA RefreshPersistStep == ASSUME LeaseInv, RefreshPersist PROVE LeaseInv'
<1>1. RefreshOK'
  BY OffOK DEF RefreshPersist, RefreshOK
<1>2. rf.left <= rf.lease.left + D
  BY RefreshFields DEF RefreshPersist, PairOK
<1>3. row' \in Entry /\ EntryOK(row')
  BY <1>2, RefreshFields, CacheFields, StoredOK DEF RefreshPersist
<1>4. LeasesOK'
  BY <1>3, CacheFields DEF LeasesOK, RefreshPersist
<1> QED BY <1>1, <1>4, Same, PartsPrime DEF RefreshPersist

-----------------------------------------------------------------------------
(* The rest of the world: a revocation changes no expiry, a restart keeps  *)
(* the row, and time takes from a lease what it takes from its clocks.     *)

LEMMA StaleEntry ==
    ASSUME NEW e \in Entry, EntryOK(e)
    PROVE  LET s == [e EXCEPT !.lease = Stale(@)] IN s \in Entry /\ EntryOK(s)
<1>1. e.lease \in Lease
  BY DEF Entry
<1>2. Stale(e.lease) \in Lease /\ Stale(e.lease).left = e.lease.left
  BY <1>1, StaleType
<1> QED BY <1>2 DEF Entry, EntryOK

LEMMA StaleRefresh ==
    ASSUME NEW g \in RefreshCall, PairOK(g)
    PROVE  LET s == [g EXCEPT !.lease = Stale(@), !.old = FALSE]
           IN  s \in RefreshCall /\ PairOK(s)
<1> DEFINE s == [g EXCEPT !.lease = Stale(@), !.old = FALSE]
<1>1. g.lease \in Lease
  BY DEF RefreshCall
<1>2. Stale(g.lease) \in Lease /\ Stale(g.lease).left = g.lease.left
  BY <1>1, StaleType
<1>3. /\ s \in RefreshCall /\ s.pc = g.pc /\ s.left = g.left /\ s.clock = g.clock
      /\ s.lease = Stale(g.lease)
  BY <1>2 DEF RefreshCall
<1> HIDE DEF s
<1>4. PairOK(s)
  BY <1>2, <1>3 DEF PairOK
<1> QED BY <1>3, <1>4 DEF s

LEMMA StaleConn ==
    ASSUME NEW g \in ConnCall, PairOK(g), EnoughLeft(g)
    PROVE  LET s == [g EXCEPT !.lease = Stale(@)]
           IN  s \in ConnCall /\ PairOK(s) /\ EnoughLeft(s)
<1> DEFINE s == [g EXCEPT !.lease = Stale(@)]
<1>1. g.lease \in Lease
  BY DEF ConnCall
<1>2. Stale(g.lease) \in Lease /\ Stale(g.lease).left = g.lease.left
  BY <1>1, StaleType
<1>3. /\ s \in ConnCall /\ s.pc = g.pc /\ s.left = g.left /\ s.clock = g.clock
      /\ s.lease = Stale(g.lease)
  BY <1>2 DEF ConnCall
<1> HIDE DEF s
<1>4. PairOK(s) /\ EnoughLeft(s)
  BY <1>2, <1>3 DEF PairOK, EnoughLeft
<1> QED BY <1>3, <1>4 DEF s

LEMMA RevokeStep == ASSUME LeaseInv, Revoke PROVE LeaseInv'
<1>1. /\ cache' \in Entry /\ EntryOK(cache')
      /\ row' \in Entry /\ EntryOK(row')
  BY CacheFields, StaleEntry, Zenon DEF Revoke
<1>2. LeasesOK'
  BY <1>1 DEF LeasesOK
<1>3. rf' \in RefreshCall /\ PairOK(rf')
  BY RefreshFields, StaleRefresh, Zenon DEF Revoke
<1>4. RefreshOK'
  BY <1>3 DEF RefreshOK
<1>5. ASSUME NEW c \in Conns
      PROVE  LET s == [conn[c] EXCEPT !.lease = Stale(@)]
             IN  s \in ConnCall /\ PairOK(s) /\ EnoughLeft(s)
  BY ConnFields, StaleConn, Zenon
<1>6. ConnsOK'
  BY <1>5, Zenon DEF Revoke, ConnsOK
<1>7. RecordsOK'
  BY RecordFields, Constants DEF Revoke, RecordsOK, resolver
<1> QED BY <1>2, <1>4, <1>6, <1>7, PartsPrime

LEMMA RestartStep == ASSUME LeaseInv, Restart PROVE LeaseInv'
<1>1. LeasesOK'
  BY CacheFields DEF Restart, LeasesOK
<1>2. RefreshOK'
  BY OffOK DEF Restart, RefreshOK
<1>3. ConnsOK'
  BY IdleOK, Zenon DEF Restart, ConnsOK
<1>4. RecordsOK'
  BY RecordFields, Constants DEF Restart, RecordsOK
<1> QED BY <1>1, <1>2, <1>3, <1>4, PartsPrime

LEMMA TickStep == ASSUME LeaseInv, Tick PROVE LeaseInv'
<1>1. /\ cache' \in Entry /\ EntryOK(cache')
      /\ row' \in Entry /\ EntryOK(row')
  BY CacheFields, AgedEntryOK, Zenon DEF Tick
<1>2. LeasesOK'
  BY <1>1 DEF LeasesOK
<1>3. rf' \in RefreshCall /\ PairOK(rf')
  BY RefreshFields, AgedRefresh, Zenon DEF Tick
<1>4. RefreshOK'
  BY <1>3 DEF RefreshOK
<1>5. ASSUME NEW c \in Conns
      PROVE  LET a == AgedCall(conn[c])
             IN  a \in ConnCall /\ PairOK(a) /\ EnoughLeft(a)
  BY ConnFields, AgedConn, Zenon DEF Tick
<1>6. ConnsOK'
  BY <1>5, Zenon DEF Tick, ConnsOK
<1>7. RecordsOK'
  BY RecordFields, Constants DEF Tick, RecordsOK, Less
<1> QED BY <1>2, <1>4, <1>6, <1>7, PartsPrime

-----------------------------------------------------------------------------
LEMMA InitLeaseInv == Init => LeaseInv
<1> SUFFICES ASSUME Init PROVE LeaseInv
  OBVIOUS
<1>1. ConnsOK
  BY IdleOK, Zenon DEF Init, ConnsOK
<1>2. RefreshOK
  BY OffOK DEF Init, RefreshOK
<1>3. LeasesOK
  BY NoLeaseType DEF Init, LeasesOK
<1>4. RecordsOK
  BY Constants DEF Init, RecordsOK
<1> QED BY <1>1, <1>2, <1>3, <1>4, Parts

LEMMA StepLeaseInv == LeaseInv /\ [Next]_vars => LeaseInv'
<1> SUFFICES ASSUME LeaseInv, [Next]_vars PROVE LeaseInv'
  OBVIOUS
<1>1. CASE UNCHANGED vars
  BY <1>1, Same, PartsPrime DEF vars, resolver
<1>2. ASSUME NEW c \in Conns, Accept(c) \/ Setups(c) \/ Recover(c) \/ End(c)
      PROVE  LeaseInv'
  BY <1>2, AcceptStep, RequestStep, SetStep, ReadExpiresStep, PersistStep, DialStep,
     HandshakeStep, FetchStep, RecoverStep, EndStep, Zenon DEF Setups
<1>3. CASE RefreshTick \/ Refresh
  BY <1>3, RefreshTickStep, ExchangeStep, MintStep, RefreshSetStep,
     RefreshReadExpiresStep, RefreshPersistStep, Zenon DEF Refresh
<1> QED BY <1>1, <1>2, <1>3, ResolveStep, MoveStep, RevokeStep, RestartStep, TickStep,
           Zenon DEF Next

LEMMA LeaseInvHolds == Spec => []LeaseInv
BY InitLeaseInv, StepLeaseInv, PTL DEF Spec

(* However the cache, the row and the expiry kept with a lease drift       *)
(* apart, no connection of a local Pipe presents an expired lease within   *)
(* its time: the minute that localLeaseCache.current asks for covers three *)
(* setup timeouts.                                                         *)
THEOREM LeasesLive == Spec => []PresentedLeaseLives
<1>1. LeaseInv => PresentedLeaseLives
  <2> SUFFICES ASSUME LeaseInv, NEW c \in Conns, conn[c].pc = "hello", conn[c].clock > 0
               PROVE  conn[c].lease.left > 0
    BY DEF PresentedLeaseLives, LeaseInv
  <2> QED BY ConnFields, Constants DEF EnoughLeft
<1> QED BY <1>1, LeaseInvHolds, PTL

-----------------------------------------------------------------------------
(* What a refresh that survives a revocation has left of its time is       *)
(* covered by what has passed since.                                       *)
SurvivorInv ==
    rf.pc \in {"mint", "set"} /\ rf.clock > 0 /\ ~rf.old => calm + rf.clock <= Setup

LEMMA SurvivorStep == LeaseInv /\ SurvivorInv /\ [Next]_vars => SurvivorInv'
<1> SUFFICES ASSUME LeaseInv, SurvivorInv, [Next]_vars PROVE SurvivorInv'
  OBVIOUS
<1>0. rf \in RefreshCall /\ rf.clock \in 0..Setup /\ calm \in 0..Setup /\ Setup \in Nat
  BY RefreshFields, RecordFields, Constants
<1>1. CASE UNCHANGED <<rf, calm>>
  BY <1>1 DEF SurvivorInv
<1>2. ASSUME NEW c \in Conns, Accept(c) \/ Setups(c) \/ Recover(c) \/ End(c)
      PROVE  SurvivorInv'
  <2>1. CASE Dial(c)
    <3>1. calm' = calm /\ (rf' = rf \/ rf' = [rf EXCEPT !.pc = "wait"])
      BY Zenon, <2>1 DEF Dial
    <3>2. rf' = [rf EXCEPT !.pc = "wait"] => rf'.pc = "wait"
      BY <1>0 DEF RefreshCall
    <3> QED BY <1>1, <3>1, <3>2 DEF SurvivorInv
  <2> QED
    BY Zenon, <1>1, <1>2, <2>1 DEF Accept, Setups, Request, Set, ReadExpires, Persist,
       Handshake, Fetch, Recover, End
<1>3. CASE rf' = Waiting \/ rf' = Off
  BY <1>3 DEF SurvivorInv, Waiting, Off
<1>4. CASE RefreshTick
  <2>1. rf'.pc = "request"
    BY <1>0, <1>4 DEF RefreshTick, RefreshCall
  <2> QED BY <2>1 DEF SurvivorInv
<1>5. CASE Exchange
  <2>1. CASE rf' = [rf EXCEPT !.pc = "mint", !.lease = NoLease, !.old = TRUE]
    <3>1. rf'.old
      BY Zenon, <1>0, <2>1 DEF RefreshCall
    <3> QED BY <3>1 DEF SurvivorInv
  <2> QED BY Zenon, <1>3, <1>5, <2>1 DEF Exchange
<1>6. CASE Mint
  <2>1. CASE rf' = [rf EXCEPT !.pc = "set", !.lease = Issued]
    <3>1. rf'.old = rf.old /\ rf'.clock = rf.clock /\ rf.pc = "mint" /\ calm' = calm
      BY Zenon, <1>0, <1>6, <2>1 DEF Mint, RefreshCall
    <3> QED BY <3>1 DEF SurvivorInv
  <2> QED BY Zenon, <1>3, <1>6, <2>1 DEF Mint
<1>7. CASE RefreshSet
  <2>1. CASE rf' = [rf EXCEPT !.pc = "expires", !.old = FALSE]
    <3>1. rf'.pc = "expires"
      BY <1>0, <2>1 DEF RefreshCall
    <3> QED BY <3>1 DEF SurvivorInv
  <2> QED BY Zenon, <1>3, <1>7, <2>1 DEF RefreshSet
<1>8. CASE RefreshReadExpires
  <2>1. rf'.pc = "persist"
    BY <1>0, <1>8 DEF RefreshReadExpires, RefreshCall
  <2> QED BY <2>1 DEF SurvivorInv
<1>9. CASE Revoke
  <2>1. rf'.clock = rf.clock /\ calm' = 0
    BY <1>0, <1>9 DEF Revoke, RefreshCall
  <2> QED BY <1>0, <2>1 DEF SurvivorInv
<1>10. CASE Tick
  <2> DEFINE a == [rf EXCEPT !.lease = Aged(@), !.left = Less(@), !.clock = Less(@)]
             z == [a EXCEPT !.lease = NoLease, !.left = 0]
  <2>1. rf' = a \/ rf' = z
    BY Zenon, <1>10 DEF Tick, AgedCall
  <2>2. a.pc = rf.pc /\ a.old = rf.old /\ a.clock = Less(rf.clock)
    BY Zenon, <1>0 DEF RefreshCall
  <2>3. z.pc = rf.pc /\ z.old = rf.old /\ z.clock = Less(rf.clock)
    BY Zenon, <1>0 DEF RefreshCall
  <2>4. calm' <= calm + 1
    BY <1>0, <1>10 DEF Tick
  <2>5. rf'.pc = rf.pc /\ rf'.old = rf.old /\ rf'.clock = Less(rf.clock)
    BY Zenon, <2>1, <2>2, <2>3
  <2>6. calm' \in Nat
    BY <1>0, <1>10 DEF Tick
  <2> SUFFICES ASSUME rf'.pc \in {"mint", "set"}, rf'.clock > 0, ~rf'.old
               PROVE  calm' + rf'.clock <= Setup
    BY DEF SurvivorInv
  <2>7. rf.pc \in {"mint", "set"} /\ ~rf.old
    BY Zenon, <2>5
  <2>8. rf.clock > 0 /\ rf'.clock = rf.clock - 1
    BY <1>0, <2>5 DEF Less
  <2>9. calm + rf.clock <= Setup
    BY Zenon, <2>7, <2>8 DEF SurvivorInv
  <2> QED BY <1>0, <2>4, <2>6, <2>8, <2>9
<1> QED
  BY Zenon, <1>1, <1>2, <1>3, <1>4, <1>5, <1>6, <1>7, <1>8, <1>9, <1>10
     DEF Next, vars, Refresh, RefreshPersist, Resolve, Resolved, Move, Restart

(* The refresh goroutine gets a successor of a revoked pair only from an   *)
(* exchange that was checked before the revocation, and uses it less than  *)
(* a timeout after it.                                                     *)
THEOREM RevokedPairsHaveNoSuccessor == Spec => []RevokedPairsEnd
<1>1. Init => SurvivorInv
  BY DEF Init, Off, SurvivorInv
<1>2. LeaseInv /\ SurvivorInv => RevokedPairsEnd
  <2> SUFFICES ASSUME LeaseInv, SurvivorInv PROVE RevokedPairsEnd
    OBVIOUS
  <2>1. rf.clock \in 0..Setup /\ calm \in 0..Setup /\ Setup \in Nat
    BY RefreshFields, RecordFields, Constants
  <2> QED BY <2>1 DEF SurvivorInv, RevokedPairsEnd
<1> QED BY <1>1, <1>2, SurvivorStep, LeaseInvHolds, PTL DEF Spec

-----------------------------------------------------------------------------
(* Only the holder of refreshMu fetches, and a connection that holds it is *)
(* in its fetch, which a timeout ends.                                     *)
LockIsFetching ==
    /\ \A c \in Conns : mu = c <=> conn[c].pc = "fetch"
    /\ \A c, d \in Conns : conn[c].pc = "fetch" /\ conn[d].pc = "fetch" => c = d

LockInv == LeaseInv /\ \A c \in Conns : mu = c <=> conn[c].pc = "fetch"

(* A step of connection c that leaves the lock alone.                      *)
LEMMA LockKept ==
    ASSUME LockInv, LeaseInv', NEW c \in Conns, NEW g, conn' = [conn EXCEPT ![c] = g],
           mu' = mu, g.pc # "fetch", conn[c].pc # "fetch"
    PROVE  LockInv'
BY Zenon, ConnFields DEF LockInv

LEMMA OpeningNotFetch ==
    ASSUME LeaseInv, NEW c \in Conns, NEW r, NEW b
    PROVE  Opening(c, r, b).pc # "fetch"
BY ConnFields DEF Opening, ConnCall

LEMMA RetryNotFetch ==
    ASSUME NEW q
    PROVE  /\ Idle.pc = "idle" /\ [Idle EXCEPT !.pc = "recover", !.seq = q].pc = "recover"
           /\ [Idle EXCEPT !.pc = "serving"].pc = "serving"
BY DEF Idle

LEMMA ConnKeepsLock ==
    ASSUME LockInv, LeaseInv', NEW c \in Conns,
           \/ Accept(c) \/ Request(c) \/ Set(c) \/ ReadExpires(c) \/ Persist(c)
           \/ Dial(c) \/ Handshake(c) \/ End(c)
    PROVE  LockInv'
<1>1. LeaseInv /\ conn[c] \in ConnCall /\ conn \in [Conns -> ConnCall]
  BY ConnFields DEF LockInv
<1>2. mu' = mu /\ conn[c].pc # "fetch"
  BY DEF Accept, Request, Set, ReadExpires, Persist, Dial, Handshake, End, resolver
<1>m. ASSUME NEW g, conn' = [conn EXCEPT ![c] = g], g.pc # "fetch" PROVE LockInv'
  BY Zenon, <1>2, <1>m, LockKept
<1>c. ASSUME Close(c) \/ Transient(c) PROVE LockInv'
  <2> DEFINE q == [Idle EXCEPT !.pc = "recover", !.seq = conn[c].seq]
  <2>1. Idle.pc # "fetch" /\ q.pc # "fetch"
    BY RetryNotFetch
  <2>2. conn' = [conn EXCEPT ![c] = Idle] \/ conn' = [conn EXCEPT ![c] = q]
    BY <1>c DEF Close, Transient
  <2> HIDE DEF q
  <2> QED BY Zenon, <1>m, <2>1, <2>2
<1>3. CASE Accept(c)
  BY Zenon, <1>1, <1>3, <1>m, OpeningNotFetch DEF Accept
<1>4. CASE Request(c)
  <2> DEFINE g == [conn[c] EXCEPT !.pc = "set", !.lease = Issued]
  <2>1. g.pc # "fetch"
    BY <1>1 DEF ConnCall
  <2>2. Close(c) \/ conn' = [conn EXCEPT ![c] = g]
    BY <1>1, <1>4 DEF Request
  <2> HIDE DEF g
  <2> QED BY Zenon, <1>c, <1>m, <2>1, <2>2
<1>5. CASE Set(c)
  <2> DEFINE g == [conn[c] EXCEPT !.pc = "expires"]
  <2>1. g.pc # "fetch"
    BY <1>1 DEF ConnCall
  <2>2. Close(c) \/ conn' = [conn EXCEPT ![c] = g]
    BY <1>1, <1>5 DEF Set
  <2> HIDE DEF g
  <2> QED BY Zenon, <1>c, <1>m, <2>1, <2>2
<1>6. CASE ReadExpires(c)
  <2> DEFINE g == [conn[c] EXCEPT !.pc = "persist", !.left = cache.left]
  <2>1. g.pc # "fetch"
    BY <1>1 DEF ConnCall
  <2>2. conn' = [conn EXCEPT ![c] = g]
    BY <1>1, <1>6 DEF ReadExpires
  <2> HIDE DEF g
  <2> QED BY Zenon, <1>m, <2>1, <2>2
<1>7. CASE Persist(c)
  <2> DEFINE g == [conn[c] EXCEPT !.pc = "dial", !.left = 0]
  <2>1. g.pc # "fetch"
    BY <1>1 DEF ConnCall
  <2>2. Close(c) \/ conn' = [conn EXCEPT ![c] = g]
    BY <1>1, <1>7 DEF Persist
  <2> HIDE DEF g
  <2> QED BY Zenon, <1>c, <1>m, <2>1, <2>2
<1>8. CASE Dial(c)
  <2> DEFINE g == [conn[c] EXCEPT !.pc = "hello", !.clock = Setup]
  <2>1. g.pc # "fetch"
    BY <1>1 DEF ConnCall
  <2>2. Transient(c) \/ conn' = [conn EXCEPT ![c] = g]
    BY <1>1, <1>8 DEF Dial
  <2> HIDE DEF g
  <2> QED BY Zenon, <1>c, <1>m, <2>1, <2>2
<1>9. CASE Handshake(c)
  <2> DEFINE g == [Idle EXCEPT !.pc = "serving"]
  <2>1. g.pc # "fetch"
    BY RetryNotFetch
  <2>2. Close(c) \/ Transient(c) \/ conn' = [conn EXCEPT ![c] = g]
    BY <1>9 DEF Handshake
  <2> HIDE DEF g
  <2> QED BY Zenon, <1>c, <1>m, <2>1, <2>2
<1>10. CASE End(c)
  BY Zenon, <1>10, <1>c DEF End
<1> QED BY Zenon, <1>3, <1>4, <1>5, <1>6, <1>7, <1>8, <1>9, <1>10

(* The lock is taken for a fetch and given back with its result.           *)
LEMMA FetchLocks ==
    ASSUME LockInv, LeaseInv', NEW c \in Conns, Recover(c) \/ Fetch(c)
    PROVE  LockInv'
<1>1. LeaseInv /\ conn[c] \in ConnCall /\ conn \in [Conns -> ConnCall]
  BY ConnFields DEF LockInv
<1>2. Idle.pc # "fetch" /\ Free \notin Conns
  BY RetryNotFetch, Timing
<1>3. CASE Recover(c) /\ cool > 0
  <2>1. conn' = [conn EXCEPT ![c] = Idle] /\ mu' = mu /\ conn[c].pc = "recover"
    BY <1>3 DEF Recover, Close
  <2> QED BY Zenon, <1>2, <2>1, LockKept
<1>4. CASE Recover(c) /\ ~(cool > 0)
  <2> DEFINE g == [conn[c] EXCEPT !.pc = "fetch"]
  <2>1. g.pc = "fetch"
    BY <1>1 DEF ConnCall
  <2>2. conn' = [conn EXCEPT ![c] = g] /\ mu = Free /\ mu' = c
    BY <1>1, <1>4 DEF Recover
  <2> HIDE DEF g
  <2>3. \A d \in Conns : conn'[d].pc = "fetch" <=> d = c
    BY Zenon, <1>1, <1>2, <2>1, <2>2 DEF LockInv
  <2> QED BY Zenon, <2>2, <2>3 DEF LockInv
<1>5. CASE Fetch(c)
  <2>1. mu = c /\ mu' = Free
    BY Zenon, <1>5 DEF Fetch, LockInv
  <2>2. PICK g : conn' = [conn EXCEPT ![c] = g] /\ g.pc # "fetch"
    BY ZenonT(60), <1>1, <1>2, <1>5, OpeningNotFetch DEF Fetch, Close
  <2>3. \A d \in Conns : conn'[d].pc # "fetch"
    BY Zenon, <1>1, <2>1, <2>2 DEF LockInv
  <2> QED BY Zenon, <1>2, <2>1, <2>3 DEF LockInv
<1> QED BY <1>3, <1>4, <1>5

LEMMA LockStep == LockInv /\ [Next]_vars => LockInv'
<1> SUFFICES ASSUME LockInv, [Next]_vars PROVE LockInv'
  OBVIOUS
<1>0. LeaseInv /\ LeaseInv'
  BY StepLeaseInv DEF LockInv
<1>1. CASE UNCHANGED <<mu, conn>>
  BY <1>0, <1>1 DEF LockInv
<1>2. ASSUME NEW c \in Conns, Accept(c) \/ Setups(c) \/ Recover(c) \/ End(c)
      PROVE  LockInv'
  BY Zenon, <1>0, <1>2, ConnKeepsLock, FetchLocks DEF Setups
<1>3. CASE Resolve \/ Resolved
  <2>1. conn' = conn /\ mu \notin Conns /\ mu' \notin Conns
    BY <1>3, Timing DEF Resolve, Resolved
  <2> QED BY Zenon, <1>0, <2>1 DEF LockInv
<1>4. CASE Revoke
  <2>1. ASSUME NEW c \in Conns PROVE conn'[c].pc = conn[c].pc
    BY <1>0, <1>4, ConnFields DEF Revoke, ConnCall
  <2>2. mu' = mu
    BY <1>4 DEF Revoke, resolver
  <2> QED BY Zenon, <1>0, <2>1, <2>2 DEF LockInv
<1>5. CASE Tick
  <2>1. ASSUME NEW c \in Conns PROVE conn'[c].pc = conn[c].pc
    <3> DEFINE g == conn[c]
               a == [g EXCEPT !.lease = Aged(@), !.left = Less(@), !.clock = Less(@)]
               z == [a EXCEPT !.lease = NoLease, !.left = 0]
    <3>1. g \in ConnCall /\ conn'[c] = AgedCall(g)
      BY <1>0, <1>5, ConnFields DEF Tick
    <3>2. a.pc = g.pc /\ z.pc = g.pc
      BY <3>1 DEF ConnCall
    <3>3. AgedCall(g) = a \/ AgedCall(g) = z
      BY Zenon DEF AgedCall
    <3> QED BY Zenon, <3>1, <3>2, <3>3
  <2>2. mu' = mu
    BY <1>5 DEF Tick
  <2> QED BY Zenon, <1>0, <2>1, <2>2 DEF LockInv
<1>6. CASE Restart
  <2>1. \A c \in Conns : conn'[c].pc # "fetch"
    BY <1>6, RetryNotFetch DEF Restart
  <2>2. mu' \notin Conns
    BY <1>6, Timing DEF Restart
  <2> QED BY Zenon, <1>0, <2>1, <2>2 DEF LockInv
<1>7. CASE RefreshTick \/ Refresh \/ Move \/ UNCHANGED vars
  <2>1. UNCHANGED <<mu, conn>>
    BY Zenon, <1>7 DEF RefreshTick, Refresh, Exchange, Mint, RefreshSet, RefreshReadExpires,
       RefreshPersist, Move, vars, resolver
  <2> QED BY <1>1, <2>1
<1> QED BY <1>2, <1>3, <1>4, <1>5, <1>6, <1>7 DEF Next

(* refreshMu is never left locked: whichever way localPipeRecordResolver's *)
(* resolve returns, a held lock belongs to the goroutine that is fetching, *)
(* and no two connections fetch a record at once, so that one recovery     *)
(* pays for all within the cool-down.                                      *)
THEOREM LockIsHeldToFetch == Spec => []LockIsFetching
<1>1. Init => LockInv
  <2> SUFFICES ASSUME Init PROVE LockInv
    OBVIOUS
  <2>1. \A c \in Conns : conn[c].pc # "fetch"
    BY RetryNotFetch DEF Init
  <2>2. mu \notin Conns
    BY Timing DEF Init
  <2> QED BY Zenon, <2>1, <2>2, InitLeaseInv DEF LockInv
<1>2. LockInv => LockIsFetching
  BY Zenon DEF LockInv, LockIsFetching
<1> QED BY <1>1, <1>2, LockStep, PTL DEF Spec

=============================================================================
