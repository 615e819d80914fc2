----------------------------- MODULE ScopedClient -----------------------------
(***************************************************************************)
(* A local Pipe whose target is a remote Pipe found through discovery      *)
(* (runLocalPipe in internal/runtime/pipe.go).  Every accepted connection  *)
(* has a goroutine that takes a lease from the shared cache or asks the    *)
(* scope's authority for one, dials the endpoint of the selected record    *)
(* and presents the lease.  One more goroutine refreshes the cached lease  *)
(* and one resolves the record again, as does a connection that failed     *)
(* before it was opened.                                                   *)
(*                                                                         *)
(* Time is relative: left and clock count down to an expiry or a timeout.  *)
(* All homes share one clock.  An access lease and the refresh lease that  *)
(* comes with it are one pair with one epoch; the refresh lease outlives   *)
(* the horizon.  The peer that answers an open is external.                *)
(***************************************************************************)
EXTENDS Naturals

CONSTANTS
    Conns,        \* goroutines for accepted connections
    Periodic,     \* the goroutine of periodicallyResolve
    Free,         \* no goroutine holds refreshMu
    AccessTTL,    \* authority.AccessLeaseTTL: 10 minutes
    Margin,       \* localLeaseCache.current asks for more than a minute
    Setup,        \* timeout of a setup and of a stream: 10 seconds
    Cooldown,     \* localPipeRecoveryCooldown: 30 seconds
    MaxSeq        \* bound on the remote Pipe's changes of endpoint

(* What is left after Setup - 1 units is still inside the timeout.  A lease *)
(* is presented at most two timeouts after it was read, and the expiry     *)
(* kept with it is at most one timeout late.                               *)
ASSUME Timing ==
    /\ {AccessTTL, Margin, Setup, Cooldown, MaxSeq} \subseteq Nat
    /\ Setup > 0 /\ MaxSeq > 0 /\ Margin >= 3 * (Setup - 1) /\ AccessTTL > Margin
    /\ Periodic \notin Conns /\ Free \notin Conns \cup {Periodic}

VARIABLES
    pub,          \* the record the authority lists
    calm,         \* time since the last revocation, up to Setup
    seen,         \* localPipeRecordResolver.record
    mu,           \* who holds refreshMu
    cool,         \* what is left of the cool-down after lastRecovery
    cache,        \* localLeaseCache
    row,          \* connect_leases
    rf,           \* the goroutine of startRefresh
    conn          \* the goroutines of serveLocalConnection

resolver == <<seen, mu, cool>>
vars == <<pub, calm, seen, mu, cool, cache, row, rf, conn>>

-----------------------------------------------------------------------------
(* Records are named by their sequence numbers.  A lease is what is left   *)
(* of it, and whether its epoch is still the authority's.  An entry keeps  *)
(* a lease with the expiry the code keeps with it.                         *)
Lease == [left : 0..AccessTTL, fresh : BOOLEAN]
NoLease == [left |-> 0, fresh |-> FALSE]
Entry == [lease : Lease, left : 0..AccessTTL]
Empty == [lease |-> NoLease, left |-> 0]

Off == [pc |-> "off", lease |-> NoLease, left |-> 0, clock |-> 0, old |-> FALSE]
Idle == [pc |-> "idle", retry |-> FALSE, seq |-> 0,
         lease |-> NoLease, left |-> 0, clock |-> 0]

Init ==
    /\ pub = 1 /\ calm = Setup /\ seen = 1 /\ mu = Free /\ cool = 0
    /\ cache = Empty /\ row = Empty
    /\ rf = Off
    /\ conn = [c \in Conns |-> Idle]

-----------------------------------------------------------------------------
(* The cache.                                                              *)

Usable_NoMargin(e) == e.left > 0      \* Mutant: any unexpired lease will do

(* localLeaseCache.current.                                                *)
Usable(e) == e.left > Margin

(* localLeaseCache.set.                                                    *)
Cached(lease) == [lease |-> lease, left |-> lease.left]

(* An entry that is too old to be used is as good as none.                 *)
Kept(e) == IF Usable(e) THEN e ELSE Empty

(* connect_access.issue: the epoch is read and a pair is signed.           *)
Issued == [left |-> AccessTTL, fresh |-> TRUE]

(* connect_refresh.exchange: what the authority wants of the old pair.     *)
Exchangeable(old) == old.left > 0 /\ old.fresh

-----------------------------------------------------------------------------
(* A connection.                                                           *)

(* One pass of serveLocalConnectionWithOpener: the record and the lease    *)
(* that openLocalConnection starts with.                                   *)
Opening(c, record, retry) ==
    [conn[c] EXCEPT !.pc = IF Usable(cache) THEN "dial" ELSE "request",
                    !.retry = retry, !.seq = record,
                    !.lease = IF Usable(cache) THEN cache.lease ELSE NoLease,
                    !.left = 0, !.clock = Setup]

Close(c) == conn' = [conn EXCEPT ![c] = Idle]

(* A failure that may be retried once, before OpenOK.                      *)
Transient(c) ==
    conn' = [conn EXCEPT ![c] = IF @.retry THEN Idle
                                ELSE [Idle EXCEPT !.pc = "recover", !.seq = conn[c].seq]]

Accept(c) ==
    /\ conn[c].pc = "idle"
    /\ conn' = [conn EXCEPT ![c] = Opening(c, seen, FALSE)]
    /\ UNCHANGED <<pub, calm, resolver, cache, row, rf>>

(* RequestLeasePair: the authority answers in time, or it does not answer  *)
(* or refuses.                                                             *)
Request(c) ==
    /\ conn[c].pc = "request"
    /\ \/ /\ conn[c].clock > 0
          /\ conn' = [conn EXCEPT ![c].pc = "set", ![c].lease = Issued]
       \/ Close(c)
    /\ UNCHANGED <<pub, calm, resolver, cache, row, rf>>

(* A reply is used before the timeout of its setup.                        *)
Set(c) ==
    /\ conn[c].pc = "set"
    /\ \/ /\ conn[c].clock > 0
          /\ cache' = Cached(conn[c].lease)
          /\ conn' = [conn EXCEPT ![c].pc = "expires"]
       \/ /\ conn[c].clock = 0
          /\ Close(c)
          /\ UNCHANGED cache
    /\ UNCHANGED <<pub, calm, resolver, row, rf>>

(* The expiry is read back in a critical section of its own.               *)
ReadExpires(c) ==
    /\ conn[c].pc = "expires"
    /\ conn' = [conn EXCEPT ![c].pc = "persist", ![c].left = cache.left]
    /\ UNCHANGED <<pub, calm, resolver, cache, row, rf>>

(* PutConnectLease, on the background context; it may fail.                *)
Persist(c) ==
    /\ conn[c].pc = "persist"
    /\ \/ /\ row' = Kept([lease |-> conn[c].lease, left |-> conn[c].left])
          /\ conn' = [conn EXCEPT ![c].pc = "dial", ![c].left = 0]
       \/ Close(c) /\ UNCHANGED row
    /\ UNCHANGED <<pub, calm, resolver, cache, rf>>

(* startRefresh, then the dial and the stream.  A stream has a deadline of *)
(* its own.                                                                *)
Dial(c) ==
    /\ conn[c].pc = "dial"
    /\ rf' = IF rf.pc = "off" THEN [rf EXCEPT !.pc = "wait"] ELSE rf
    /\ \/ /\ conn[c].clock > 0 /\ conn[c].seq = pub
          /\ conn' = [conn EXCEPT ![c].pc = "hello", ![c].clock = Setup]
       \/ Transient(c)
    /\ UNCHANGED <<pub, calm, resolver, cache, row>>

(* The handshake: OpenOK, a refusal, or a frame that does not come.        *)
Handshake(c) ==
    /\ conn[c].pc = "hello"
    /\ \/ /\ conn[c].clock > 0 /\ conn[c].seq = pub
          /\ conn[c].lease.left > 0 /\ conn[c].lease.fresh
          /\ conn' = [conn EXCEPT ![c] = [Idle EXCEPT !.pc = "serving"]]
       \/ conn[c].clock > 0 /\ conn[c].seq = pub /\ Close(c)
       \/ Transient(c)
    /\ UNCHANGED <<pub, calm, resolver, cache, row, rf>>

End(c) ==
    /\ conn[c].pc = "serving"
    /\ Close(c)
    /\ UNCHANGED <<pub, calm, resolver, cache, row, rf>>

-----------------------------------------------------------------------------
(* The record.                                                             *)

(* Mutant: the early return leaves refreshMu locked.                       *)
Recover_KeepsLock(c) ==
    /\ conn[c].pc = "recover" /\ mu = Free
    /\ mu' = c
    /\ IF cool > 0
         THEN Close(c) /\ UNCHANGED cool
         ELSE conn' = [conn EXCEPT ![c].pc = "fetch"] /\ cool' = Cooldown
    /\ UNCHANGED <<pub, calm, seen, cache, row, rf>>

(* resolve(recovery) up to the fetch: within the cool-down nothing is      *)
(* fetched and the connection is given up.                                 *)
Recover(c) ==
    /\ conn[c].pc = "recover" /\ mu = Free
    /\ IF cool > 0
         THEN Close(c) /\ UNCHANGED <<mu, cool>>
         ELSE /\ conn' = [conn EXCEPT ![c].pc = "fetch"]
              /\ mu' = c /\ cool' = Cooldown
    /\ UNCHANGED <<pub, calm, seen, cache, row, rf>>

(* The rest of resolve, and the second pass if the record has changed.  No *)
(* answer, no record in it or an older one is an error.  The answer may be *)
(* older than what the authority lists by now.                             *)
Fetch(c) ==
    /\ conn[c].pc = "fetch"
    /\ mu' = Free
    /\ \/ \E r \in (seen + 1)..pub :
             /\ seen' = r
             /\ conn' = [conn EXCEPT ![c] = Opening(c, r, TRUE)]
       \/ Close(c) /\ UNCHANGED seen
    /\ UNCHANGED <<pub, calm, cool, cache, row, rf>>

(* periodicallyResolve: resolve without a cool-down.                       *)
Resolve ==
    /\ mu = Free
    /\ mu' = Periodic
    /\ UNCHANGED <<pub, calm, seen, cool, cache, row, rf, conn>>

Resolved ==
    /\ mu = Periodic
    /\ mu' = Free
    /\ seen' \in seen..pub
    /\ UNCHANGED <<pub, calm, cool, cache, row, rf, conn>>

-----------------------------------------------------------------------------
(* The refresh goroutine: at a tick of its ticker it offers a cached pair  *)
(* with enough time left, and uses the answer as a connection does.        *)

RefreshTick ==
    /\ rf.pc = "wait" /\ Usable(cache)
    /\ rf' = [rf EXCEPT !.pc = "request", !.lease = cache.lease, !.clock = Setup]
    /\ UNCHANGED <<pub, calm, resolver, cache, row, conn>>

Waiting == [Off EXCEPT !.pc = "wait"]

(* Mutant: the epoch of the pair is not checked.                           *)
Exchange_AnyEpoch ==
    /\ rf.pc = "request"
    /\ \/ /\ rf.clock > 0 /\ rf.lease.left > 0
          /\ rf' = [rf EXCEPT !.pc = "mint", !.lease = NoLease, !.old = rf.lease.fresh]
       \/ rf' = Waiting
    /\ UNCHANGED <<pub, calm, resolver, cache, row, conn>>

(* connect_refresh.exchange checks the old pair, or the request is refused *)
(* or lost.  old: the epoch of the old pair is still the authority's.      *)
Exchange ==
    /\ rf.pc = "request"
    /\ \/ /\ rf.clock > 0 /\ Exchangeable(rf.lease)
          /\ rf' = [rf EXCEPT !.pc = "mint", !.lease = NoLease, !.old = TRUE]
       \/ rf' = Waiting
    /\ UNCHANGED <<pub, calm, resolver, cache, row, conn>>

(* It then reads the epoch again and signs the new pair; the answer may be *)
(* lost.                                                                   *)
Mint ==
    /\ rf.pc = "mint"
    /\ \/ rf.clock > 0 /\ rf' = [rf EXCEPT !.pc = "set", !.lease = Issued]
       \/ rf' = Waiting
    /\ UNCHANGED <<pub, calm, resolver, cache, row, conn>>

RefreshSet ==
    /\ rf.pc = "set"
    /\ \/ /\ rf.clock > 0
          /\ cache' = Cached(rf.lease)
          /\ rf' = [rf EXCEPT !.pc = "expires", !.old = FALSE]
       \/ rf.clock = 0 /\ rf' = Waiting /\ UNCHANGED cache
    /\ UNCHANGED <<pub, calm, resolver, row, conn>>

RefreshReadExpires ==
    /\ rf.pc = "expires"
    /\ rf' = [rf EXCEPT !.pc = "persist", !.left = cache.left, !.clock = 0]
    /\ UNCHANGED <<pub, calm, resolver, cache, row, conn>>

RefreshPersist ==
    /\ rf.pc = "persist"
    /\ rf' = Waiting
    /\ row' = Kept([lease |-> rf.lease, left |-> rf.left]) \/ UNCHANGED row
    /\ UNCHANGED <<pub, calm, resolver, cache, conn>>

-----------------------------------------------------------------------------
(* The rest of the world.                                                  *)

Stale(lease) == [lease EXCEPT !.fresh = FALSE]

(* pipe-access is revoked at the authority: its epoch advances.            *)
Revoke ==
    /\ cache' = [cache EXCEPT !.lease = Stale(@)]
    /\ row' = [row EXCEPT !.lease = Stale(@)]
    /\ rf' = [rf EXCEPT !.lease = Stale(@), !.old = FALSE]
    /\ conn' = [c \in Conns |-> [conn[c] EXCEPT !.lease = Stale(@)]]
    /\ calm' = 0
    /\ UNCHANGED <<pub, resolver>>

(* The remote Pipe starts elsewhere and announces it.  Until it has, a     *)
(* connection fails as it may at any time.                                 *)
Move ==
    /\ pub < MaxSeq
    /\ pub' = pub + 1
    /\ UNCHANGED <<calm, resolver, cache, row, rf, conn>>

(* The process ends and starts again with the stored lease and the stored  *)
(* record, which is at least the one its last fetch accepted.              *)
Restart ==
    /\ conn' = [c \in Conns |-> Idle]
    /\ rf' = Off
    /\ mu' = Free /\ cool' = 0
    /\ seen' \in seen..pub
    /\ cache' = row
    /\ UNCHANGED <<pub, calm, row>>

Less(n) == IF n = 0 THEN 0 ELSE n - 1
Aged(lease) == IF lease.left <= 1 THEN NoLease ELSE [lease EXCEPT !.left = @ - 1]

AgedEntry(e) == Kept([lease |-> Aged(e.lease), left |-> Less(e.left)])

(* A goroutine that is out of time has no use for its lease, unless it is  *)
(* about to store one that can still be used.                              *)
AgedCall(g) ==
    LET aged == [g EXCEPT !.lease = Aged(@), !.left = Less(@), !.clock = Less(@)]
    IN  IF aged.clock > 0 \/ (g.pc = "persist" /\ Usable(aged)) THEN aged
        ELSE [aged EXCEPT !.lease = NoLease, !.left = 0]

(* Time passes, but not between set and the next critical section.         *)
Tick ==
    /\ rf.pc # "expires" /\ \A c \in Conns : conn[c].pc # "expires"
    /\ calm' = IF calm < Setup THEN calm + 1 ELSE Setup
    /\ cool' = Less(cool)
    /\ cache' = AgedEntry(cache)
    /\ row' = AgedEntry(row)
    /\ rf' = AgedCall(rf)
    /\ conn' = [c \in Conns |-> AgedCall(conn[c])]
    /\ UNCHANGED <<pub, seen, mu>>

Setups(c) ==
    \/ Request(c) \/ Set(c) \/ ReadExpires(c) \/ Persist(c)
    \/ Dial(c) \/ Handshake(c) \/ Fetch(c)

Refresh == Exchange \/ Mint \/ RefreshSet \/ RefreshReadExpires \/ RefreshPersist

Next ==
    \/ \E c \in Conns : Accept(c) \/ Setups(c) \/ Recover(c) \/ End(c)
    \/ Resolve \/ Resolved
    \/ RefreshTick \/ Refresh
    \/ Revoke \/ Move
    \/ Restart
    \/ Tick

Spec == Init /\ [][Next]_vars

(* Every call returns, since each has a timeout, refreshMu does not starve *)
(* a waiter, and time passes.  A process that stays up for five minutes    *)
(* again and again resolves again and again, and not always without an     *)
(* answer.                                                                 *)
Fairness ==
    /\ SF_vars(Tick)
    /\ WF_vars(Refresh)
    /\ \A c \in Conns : WF_vars(Setups(c)) /\ SF_vars(Recover(c))
    /\ SF_vars(Resolve)
    /\ WF_vars(Resolved) /\ SF_vars(Resolved /\ seen' = pub)

FairSpec == Spec /\ Fairness

-----------------------------------------------------------------------------
RefreshCall ==
    [pc : {"off", "wait", "request", "mint", "set", "expires", "persist"},
     lease : Lease, left : 0..AccessTTL, clock : 0..Setup, old : BOOLEAN]

ConnCall ==
    [pc : {"idle", "request", "set", "expires", "persist", "dial", "hello",
           "recover", "fetch", "serving"},
     retry : BOOLEAN, seq : 0..MaxSeq,
     lease : Lease, left : 0..AccessTTL, clock : 0..Setup]

TypeOK ==
    /\ pub \in 1..MaxSeq /\ calm \in 0..Setup /\ seen \in 1..MaxSeq
    /\ mu \in Conns \cup {Periodic, Free}
    /\ cool \in 0..Cooldown
    /\ cache \in Entry /\ row \in Entry
    /\ rf \in RefreshCall
    /\ conn \in [Conns -> ConnCall]

(* A lease that is presented has not expired, although the cache, the      *)
(* stored row and the connections are not updated together: the row can    *)
(* hold one lease with the expiry of another, and it is loaded again after *)
(* a restart.                                                              *)
PresentedLeaseLives ==
    /\ TypeOK
    /\ \A c \in Conns :
          conn[c].pc = "hello" /\ conn[c].clock > 0 => conn[c].lease.left > 0

(* The selected endpoint follows the remote Pipe, however often it has     *)
(* moved and whoever fails to fetch meanwhile.                             *)
EndpointFollows == <>[](seen = pub)

(* Every accepted connection is opened or closed: nobody waits for         *)
(* refreshMu or for an answer forever.                                     *)
ConnectionsSettle ==
    \A c \in Conns :
        (conn[c].pc \notin {"idle", "serving"}) ~> (conn[c].pc \in {"idle", "serving"})

(* A revoked pair has no successor, except from an exchange that was       *)
(* checked before the revocation: the authority reads the epoch once more  *)
(* to sign, so that a refresh under way survives the revocation, but the   *)
(* client uses its answer only less than a timeout after it.               *)
RevokedPairsEnd == rf.pc = "set" /\ rf.clock > 0 /\ ~rf.old => calm < Setup

=============================================================================
