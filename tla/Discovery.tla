------------------------------- MODULE Discovery -------------------------------
(***************************************************************************)
(* Discovery in one scope: publishers announce the records of their Pipes  *)
(* to the scope's authority, and the fetches of one member's home          *)
(* reconcile its cache with the authority's snapshots.                     *)
(*                                                                         *)
(* The authority's rows (discovered=0 in its home) and the generation in   *)
(* authority_snapshots are read and written in one transaction.            *)
(* high_water is set and advanced together with generation, so one number  *)
(* stands for both.  Signatures, grants and scopes are assumed to verify;  *)
(* what can go wrong with an honest record is its lifetime.  A record that *)
(* was announced may reach the authority at any later time, several times  *)
(* or never: the client repeats a request whose answer is lost, and may    *)
(* have given up before the authority gets to it.                          *)
(***************************************************************************)
EXTENDS StoreTime, FiniteSets

CONSTANTS
    Pipes,
    Own,          \* the Pipes that this home publishes itself
    Fetchers,     \* concurrent fetches: the sync owner's and foreground ones
    RecordTTL,    \* lifetime of a record, in ticks
    Limit,        \* MaxSnapshotRecords
    None,
    MaxTime,      \* the clock's bound
    MaxSeq,       \* bound on publications, of all Pipes together
    MaxGen        \* bound on the generation, for announcements

ASSUME DiscoveryAssumption ==
    /\ Own \subseteq Pipes
    /\ RecordTTL \in Nat \ {0} /\ Limit \in Nat \ {0}
    /\ MaxTime \in Nat /\ MaxSeq \in Nat /\ MaxGen \in Nat
    /\ LET record == [seq : Nat, exp : Nat, listed : BOOLEAN]
       IN  None \notin record \cup [rec : record, local : BOOLEAN]

VARIABLES
    now,
    seq,          \* the last sequence number of each Pipe's publisher
    sent,         \* the records announced so far
    rows,         \* the authority's records
    gen,          \* the authority's snapshot generation
    cache,        \* this home's records
    fresh,        \* the accepted generation and snapshot (scope_freshness)
    fetch

authority == <<rows, gen>>
home == <<cache, fresh>>
vars == <<now, seq, sent, rows, gen, cache, fresh, fetch>>

-----------------------------------------------------------------------------
Record == [seq : Nat, exp : Nat, listed : BOOLEAN]
Records == [Pipes -> Record \cup {None}]
NoRecords == [p \in Pipes |-> None]

(* A cached row: a publication of this home, or a discovered record.       *)
Row == [rec : Record, local : BOOLEAN]

Snapshot == [gen : Nat, snap : Records]
NoSnapshot == [gen |-> 0, snap |-> NoRecords]

(* A fetch is named by what happens to it next.                            *)
Idle == [pc |-> "idle", reply |-> NoSnapshot]

Init ==
    /\ now = 0
    /\ seq = [p \in Pipes |-> 0]
    /\ sent = [p \in Pipes |-> {}]
    /\ rows = NoRecords
    /\ gen = 1                        \* EnsureAuthoritySnapshot
    /\ cache = NoRecords
    /\ fresh = NoSnapshot
    /\ fetch = [x \in Fetchers |-> Idle]

-----------------------------------------------------------------------------
(* Verify and validateStoredRecord: parsed times.                          *)
Alive(r) == now < r.exp

(* The same moment as the DELETE statements see it.                        *)
Prunable(r) == Text(r.exp) <= Text(now)

(* The rows left by a DELETE ... WHERE expires_at<=now.                    *)
Pruned(rs) == [p \in Pipes |-> IF rs[p] # None /\ Prunable(rs[p]) THEN None ELSE rs[p]]

(* putRecordTx: what becomes of a row, and when it refuses.                *)
Replays(old, r) == r.seq < old.seq \/ (r.seq = old.seq /\ r # old)

(* The publications so far.                                                *)
Publications == Cardinality({s \in Pipes \X (1..MaxSeq) : s[2] <= seq[s[1]]})

(* publish: a new record with a later sequence number (the clock's         *)
(* nanoseconds, or one more than the last).  A publisher that is a member  *)
(* stores it in its own home first, then announces it.  (A publish grant   *)
(* about to expire cuts the lifetime short: see RelayReservation.)         *)
Publish(p) ==
    /\ Publications < MaxSeq
    /\ \E listed \in BOOLEAN :
         LET r == [seq |-> seq[p] + 1, exp |-> now + RecordTTL, listed |-> listed]
         IN  /\ sent' = [sent EXCEPT ![p] = @ \cup {r}]
             /\ cache' = IF p \in Own
                           THEN [cache EXCEPT ![p] = [rec |-> r, local |-> TRUE]]
                           ELSE cache
    /\ seq' = [seq EXCEPT ![p] = @ + 1]
    /\ UNCHANGED <<now, authority, fresh, fetch>>

(* Mutant: the record is stored without a new generation.                  *)
Announce_SameGeneration(p) ==
    /\ gen < MaxGen
    /\ \E r \in sent[p] :
         /\ Alive(r)
         /\ rows[p] # None => ~Replays(rows[p], r)
         /\ rows' = [rows EXCEPT ![p] = r]
    /\ UNCHANGED <<now, seq, sent, gen, home, fetch>>

(* records.announce and PutAuthoritativeRecord.  An announcement stored    *)
(* before is accepted again and advances the generation again.             *)
Announce(p) ==
    /\ gen < MaxGen
    /\ \E r \in sent[p] :
         /\ Alive(r)
         /\ rows[p] # None => ~Replays(rows[p], r)
         /\ rows' = [rows EXCEPT ![p] = r]
         /\ gen' = gen + 1
    /\ UNCHANGED <<now, seq, sent, home, fetch>>

-----------------------------------------------------------------------------
(* What a snapshot lists: only discoverable Pipes.                         *)
Listed(rs) == [p \in Pipes |-> IF rs[p] # None /\ rs[p].listed THEN rs[p] ELSE None]

(* Not complete when there are more rows, listed or not, than the limit; a *)
(* row that no longer verifies fails the whole answer.                     *)
Complete(rs) ==
    LET kept == {p \in Pipes : rs[p] # None}
    IN  Cardinality(kept) <= Limit /\ \A p \in kept : Alive(rs[p])

(* Mutant: the rows are not pruned first.                                  *)
ServeSnapshot_NoPrune(x) ==
    /\ fetch[x].pc = "idle"
    /\ \/ /\ Complete(rows)
          /\ fetch' = [fetch EXCEPT ![x] = [pc |-> "reply",
                                            reply |-> [gen |-> gen, snap |-> Listed(rows)]]]
       \/ UNCHANGED fetch
    /\ UNCHANGED <<now, seq, sent, authority, home>>

(* A fetch's request reaches processSnapshot: prune, advance, read.  The   *)
(* answer is on its way to the client, or it is an error or gets lost and  *)
(* the client asks again.  (The cool-down of fetches and the lease that    *)
(* fences the periodic one are modelled in ScopeSync.)                     *)
ServeSnapshot(x) ==
    /\ fetch[x].pc = "idle"
    /\ rows' = Pruned(rows)
    /\ gen' = IF rows' = rows THEN gen ELSE gen + 1
    /\ \/ /\ Complete(rows')
          /\ fetch' = [fetch EXCEPT ![x] = [pc |-> "reply",
                                            reply |-> [gen |-> gen', snap |-> Listed(rows')]]]
       \/ UNCHANGED fetch
    /\ UNCHANGED <<now, seq, sent, home>>

Discovered(p) == cache[p] # None /\ ~cache[p].local

(* The checks of reconcileAuthoritativeSnapshotOnce, in its order: every   *)
(* record is alive, no rollback, no second content for a generation, no    *)
(* replayed record.                                                        *)
Acceptable_AnyGeneration(s) ==        \* Mutant: no rollback check
    /\ \A p \in Pipes : s.snap[p] # None => Alive(s.snap[p])
    /\ \A p \in Pipes : Discovered(p) /\ s.snap[p] # None
                          => ~Replays(cache[p].rec, s.snap[p])

Acceptable(s) ==
    /\ \A p \in Pipes : s.snap[p] # None => Alive(s.snap[p])
    /\ s.gen >= fresh.gen
    /\ s.gen = fresh.gen => s.snap = fresh.snap
    /\ \A p \in Pipes : Discovered(p) /\ s.snap[p] # None
                          => ~Replays(cache[p].rec, s.snap[p])

(* The cache after a snapshot: rows of this home stay, every other row is  *)
(* the snapshot's or deleted.                                              *)
Reconciled_KeepsAbsent(s) ==          \* Mutant: absent rows are not deleted
    [p \in Pipes |->
        IF s.snap[p] = None \/ (cache[p] # None /\ cache[p].local) THEN cache[p]
        ELSE [rec |-> s.snap[p], local |-> FALSE]]

Reconciled_TakesOwn(s) ==             \* Mutant: rows of this home are replaced
    [p \in Pipes |->
        IF s.snap[p] = None \/ Prunable(s.snap[p]) THEN None
        ELSE [rec |-> s.snap[p], local |-> FALSE]]

Reconciled(s) ==
    [p \in Pipes |->
        IF cache[p] # None /\ cache[p].local THEN cache[p]
        ELSE IF s.snap[p] = None \/ Prunable(s.snap[p]) THEN None
        ELSE [rec |-> s.snap[p], local |-> FALSE]]

Reconcile(x) ==
    /\ fetch[x].pc = "reply"
    /\ Acceptable(fetch[x].reply)
    /\ cache' = Reconciled(fetch[x].reply)
    /\ fresh' = fetch[x].reply
    /\ fetch' = [fetch EXCEPT ![x] = Idle]
    /\ UNCHANGED <<now, seq, sent, authority>>

(* A fetch ends without a commit: a lost answer, a refused snapshot, a     *)
(* lost lease.  The failure record leaves cache, generation and digest     *)
(* alone.                                                                  *)
FetchFails(x) ==
    /\ fetch[x].pc = "reply"
    /\ fetch' = [fetch EXCEPT ![x] = Idle]
    /\ UNCHANGED <<now, seq, sent, authority, home>>

(* PruneExpiredRecords, before every listing.                              *)
Prune ==
    /\ cache' = [p \in Pipes |->
                    IF Discovered(p) /\ Prunable(cache[p].rec) THEN None ELSE cache[p]]
    /\ cache' # cache
    /\ UNCHANGED <<now, seq, sent, authority, fresh, fetch>>

Tick ==
    /\ now < MaxTime
    /\ now' = now + 1
    /\ UNCHANGED <<seq, sent, authority, home, fetch>>

Next ==
    \/ \E p \in Pipes : Publish(p) \/ Announce(p)
    \/ \E x \in Fetchers :
         ServeSnapshot(x) \/ Reconcile(x) \/ FetchFails(x)
    \/ Prune
    \/ Tick

Spec == Init /\ [][Next]_vars

(* A runtime keeps fetching, and a fetch that is repeated again and again  *)
(* is answered and committed at some time; one whose answer is refused     *)
(* ends; the clock runs.                                                   *)
Fairness ==
    /\ WF_vars(Tick)
    /\ \A x \in Fetchers :
         /\ SF_vars(ServeSnapshot(x) /\ fetch'[x].pc = "reply")
         /\ SF_vars(Reconcile(x))
         /\ WF_vars(fetch[x].pc = "reply" /\ ~Acceptable(fetch[x].reply) /\ FetchFails(x))

FairSpec == Spec /\ Fairness

-----------------------------------------------------------------------------
(* Types, and what fetch records carry.                                    *)
TypeOK ==
    /\ now \in Nat
    /\ seq \in [Pipes -> Nat]
    /\ sent \in [Pipes -> SUBSET Record]
    /\ rows \in Records
    /\ gen \in Nat \ {0}
    /\ cache \in [Pipes -> Row \cup {None}]
    /\ fresh \in Snapshot
    /\ fetch \in [Fetchers -> [pc : {"idle", "reply"}, reply : Snapshot]]

(* A generation names one content.  Whatever announcements, expiries and   *)
(* lost answers happen between two requests, an answer that is not older   *)
(* than the accepted one is never refused as ambiguous, and a record in it *)
(* is refused as replayed only if the cached one is in its last second.    *)
(* So the cache never blocks itself for longer than that second.           *)
HonestSnapshotsApply ==
    \A x \in Fetchers :
        LET s == fetch[x].reply
        IN  fetch[x].pc = "reply" /\ s.gen >= fresh.gen =>
              /\ s.gen = fresh.gen => s.snap = fresh.snap
              /\ \A p \in Pipes :
                    /\ Discovered(p) /\ s.snap[p] # None
                    /\ Replays(cache[p].rec, s.snap[p])
                    => cache[p].rec.exp < now + Res

(* The cache is the last accepted snapshot: nothing else is in it but this *)
(* home's own rows, and nothing is missing before its last second (the     *)
(* DELETE compares RFC3339Nano texts and may come up to a second early).   *)
CacheIsSnapshot ==
    \A p \in Pipes :
        /\ Discovered(p) => cache[p].rec = fresh.snap[p]
        /\ fresh.snap[p] # None /\ now + Res <= fresh.snap[p].exp => cache[p] # None

(* A Pipe that the authority has withdrawn or replaced never comes back in *)
(* an older form: whatever order answers arrive in, the record that a step *)
(* puts into the cache is no older than the one the accepted snapshot had, *)
(* and the accepted generation never falls.                                *)
NoOldNews ==
    [][/\ fresh'.gen >= fresh.gen
       /\ \A p \in Pipes :
            /\ fresh.snap[p] # None /\ now + Res <= fresh.snap[p].exp
            /\ fresh'.snap[p] # None
            => fresh'.snap[p].seq >= fresh.snap[p].seq]_vars

(* "A remote cache snapshot must neither replace nor later make them       *)
(* deletion candidates": the row of a Pipe published here stays, and only  *)
(* a later publication replaces it.                                        *)
OwnRowsStay ==
    [][\A p \in Pipes :
          cache[p] # None /\ cache[p].local /\ cache'[p] # cache[p] =>
            /\ cache'[p] # None /\ cache'[p].local
            /\ cache'[p].rec.seq > cache[p].rec.seq]_vars

-----------------------------------------------------------------------------
(* The inductive invariant behind these properties.                        *)

(* The snapshots that matter: the accepted one and the answers under way.  *)
InPlay == {fresh} \cup {fetch[x].reply : x \in Fetchers}

(* The records of a Pipe that may still be stored somewhere.               *)
Known(p) == (sent[p] \cup {rows[p]} \cup {s.snap[p] : s \in InPlay}) \ {None}

(* A sequence number names one record, and later records live longer.      *)
RecordsInOrder ==
    \A p \in Pipes : \A r, q \in Known(p) :
        /\ r.seq <= seq[p] /\ r.exp <= now + RecordTTL
        /\ r.seq = q.seq => r = q
        /\ r.seq < q.seq => r.exp <= q.exp

(* r is succeeded by a record (or by none) that is not older, unless r is  *)
(* in its last second.                                                     *)
Succeeds(q, r) == now + Res <= r.exp => q # None /\ r.seq <= q.seq

(* A generation names one content, and later ones do not go back.          *)
SnapshotsInOrder ==
    \A s \in InPlay :
        /\ s.gen <= gen
        /\ s.gen = 0 => s.snap = NoRecords
        /\ s.gen = gen => s.snap = Listed(rows)
        /\ \A p \in Pipes : s.snap[p] # None => Succeeds(rows[p], s.snap[p])
        /\ \A t \in InPlay :
             /\ s.gen = t.gen => s.snap = t.snap
             /\ s.gen <= t.gen =>
                  \A p \in Pipes : s.snap[p] # None /\ t.snap[p] # None
                                     => Succeeds(t.snap[p], s.snap[p])

(* Inductive.                                                              *)
IInv ==
    /\ TypeOK
    /\ RecordsInOrder
    /\ SnapshotsInOrder
    /\ CacheIsSnapshot
    /\ \A p \in Pipes : cache[p] # None /\ cache[p].local => cache[p].rec.seq <= seq[p]

-----------------------------------------------------------------------------
(* An answer of the authority would be refused as replayed: it lists a     *)
(* record older than the cached one, which is in its last second (the      *)
(* authority deleted that one early and then took the older one again).    *)
Blocked(s) ==
    \E p \in Pipes :
        /\ Discovered(p) /\ s[p] # None
        /\ Replays(cache[p].rec, s[p])
        /\ cache[p].rec.exp < now + Res

(* Once publications stop and fetches get through, the home has accepted   *)
(* what the authority lists, unless that is more than one snapshot holds:  *)
(* neither an expired row at the authority nor a fetch that was refused or *)
(* overtaken keeps it from catching up.  (The clock of the model stops, in *)
(* the worst case in the second in which the home is blocked.)             *)
Converges ==
    <>[](LET listed == Listed(Pruned(rows))
         IN  Complete(Pruned(rows)) /\ ~Blocked(listed) => fresh.snap = listed)

=============================================================================
