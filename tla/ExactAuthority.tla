---------------------------- MODULE ExactAuthority ----------------------------
(***************************************************************************)
(* The owner side of exact-Pipe access for ONE scope-less published Pipe:  *)
(* minting invites (ShareExact), redeeming them (RedeemExactInvite),       *)
(* renewing access from the accepted relationship (RenewAcceptedAccess),   *)
(* authorizing opens (ExactOpenAuthorizer inside tunnelServer.serve), and  *)
(* the owner's `tubo revoke`.                                              *)
(*                                                                         *)
(* Every stream handler is a goroutine that makes several separate store   *)
(* reads before it acts, so each read and each transaction is a step of    *)
(* its own.  A handler's time stamp is captured before its first read.     *)
(* Cryptographic checks (signature, key possession, binding) are           *)
(* abstracted: a handler runs only for requests that pass them.            *)
(***************************************************************************)
EXTENDS Integers, FiniteSets

CONSTANTS
    Recipients,  \* recipient identities (accepted Ed25519 keys)
    Invites,     \* exact invite JTIs the owner may mint
    Handlers,    \* concurrent owner-side stream handlers
    Revokers,    \* concurrent `tubo revoke pipe-access` commands
    None,        \* "no row": no invite, no recipient
    LeaseTTL,    \* lease lifetime, exactLeaseTTL() <= accesslease.MaxTTL
    InviteTTL,   \* DefaultInviteTTL
    MaxTime,     \* bound: the clock stops here
    MaxEpoch,    \* bound: revocations of the access stop here
    MaxRevoked   \* bound: revocations of invites stop here

ASSUME ConstantsAssumption ==
    /\ LeaseTTL \in Nat \ {0}
    /\ InviteTTL \in Nat \ {0}
    /\ MaxTime \in Nat
    /\ MaxEpoch \in Nat
    /\ MaxRevoked \in Nat
    /\ None \notin Recipients
    /\ None \notin Invites

VARIABLES
    now,         \* the owner's wall clock
    epoch,       \* revocations row (pipe, pipe-access); 0 when there is none
    revoked,     \* revocations rows of type exact.invite
    invites,     \* the minted credentials
    redeemedBy,  \* invite_redemptions: the winning client_public
    relation,    \* accepted_exact_relationships
    issued,      \* every lease minted so far
    h,           \* the stream handlers
    seen,        \* the epoch a running `revoke pipe-access` has read
    staleAt,     \* history: when the epoch moved past each value
    revokedAt    \* history: when each invite was revoked

credentials == <<invites, redeemedBy, relation, issued>>
revocation == <<epoch, revoked, seen, staleAt, revokedAt>>
vars == <<now, epoch, revoked, invites, redeemedBy, relation, issued, h,
          seen, staleAt, revokedAt>>

-----------------------------------------------------------------------------
(* An AccessLease.  `via`, the invite whose acceptance it rests on, is not *)
(* a field of the token: it is kept to state the properties.               *)
Lease == [to : Recipients, via : Invites \cup {None}, epoch : Nat,
          iat : Nat, exp : Nat]

(* A share command first reads the epoch ("minting"), then signs the       *)
(* invite with it.                                                         *)
Invite == [st : {"none", "minting", "minted"}, epoch : Nat, exp : Nat]

NoRelation == [via |-> None, epoch |-> 0]
Relation == [via : Invites \cup {None}, epoch : Nat]

(* A handler is named by what it does NEXT, and carries the lease it is    *)
(* about to mint (redeem, renew) or was presented with (open).             *)
RedeemOps == {"redeem_revoked", "redeem_epoch", "redeem_commit"}
RenewOps == {"renew_accepted", "renew_revoked", "renew_epoch"}
OpenOps == {"open_epoch", "open_dial", "session"}
BusyOps == RedeemOps \cup RenewOps \cup OpenOps \cup {"replied"}
IdleHandler == [op |-> "idle"]
Handler == {IdleHandler} \cup [op : BusyOps, lease : Lease]

NotReading == -1

Init ==
    /\ now = 0
    /\ epoch = 0
    /\ revoked = {}
    /\ invites = [i \in Invites |-> [st |-> "none", epoch |-> 0, exp |-> 0]]
    /\ redeemedBy = [i \in Invites |-> None]
    /\ relation = [r \in Recipients |-> NoRelation]
    /\ issued = {}
    /\ h = [x \in Handlers |-> IdleHandler]
    /\ seen = [k \in Revokers |-> NotReading]
    /\ staleAt = [e \in 0..MaxEpoch |-> 0]
    /\ revokedAt = [i \in Invites |-> 0]

-----------------------------------------------------------------------------
(* Handler helpers.                                                        *)
Becomes(x, op, l) == h' = [h EXCEPT ![x] = [op |-> op, lease |-> l]]
Deny(x) == h' = [h EXCEPT ![x] = IdleHandler]

(* ExactInvite.Verify and AccessLease.Verify: of all they test, only the   *)
(* expiry can fail for a credential the owner made.                        *)
ValidInvite(i) == invites[i].st = "minted" /\ now < invites[i].exp
ValidLease(l) == now < l.exp

(* Time passes.                                                            *)
Tick ==
    /\ now < MaxTime
    /\ now' = now + 1
    /\ UNCHANGED <<h, credentials, revocation>>

-----------------------------------------------------------------------------
(* ShareExact: read the epoch, then mint a one-time invite carrying it.    *)
ShareEpoch(i) ==
    /\ invites[i].st = "none"
    /\ invites' = [invites EXCEPT
                     ![i] = [st |-> "minting", epoch |-> epoch, exp |-> 0]]
    /\ UNCHANGED <<now, redeemedBy, relation, issued, h, revocation>>

ShareMint(i) ==
    /\ invites[i].st = "minting"
    /\ invites' = [invites EXCEPT
                     ![i] = [st |-> "minted", epoch |-> invites[i].epoch,
                             exp |-> now + InviteTTL]]
    /\ UNCHANGED <<now, redeemedBy, relation, issued, h, revocation>>

-----------------------------------------------------------------------------
(* `tubo revoke pipe-access`: the command reads the epoch and then asks    *)
(* the store to write its successor; Store.Revoke refuses only a LOWER     *)
(* epoch than the stored one.                                              *)
RevokeRead(k) ==
    /\ seen[k] = NotReading
    /\ epoch < MaxEpoch
    /\ seen' = [seen EXCEPT ![k] = epoch]
    /\ UNCHANGED <<now, h, credentials, epoch, revoked, staleAt, revokedAt>>

Revoke(target) ==
    /\ target >= epoch
    /\ epoch' = target
    /\ staleAt' = IF target > epoch THEN [staleAt EXCEPT ![epoch] = now]
                                    ELSE staleAt

RevokeWrite(k) ==
    /\ seen[k] # NotReading
    /\ \/ Revoke(seen[k] + 1)
       \/ /\ seen[k] + 1 < epoch            \* "revocation epoch rollback"
          /\ UNCHANGED <<epoch, staleAt>>
    /\ seen' = [seen EXCEPT ![k] = NotReading]
    /\ UNCHANGED <<now, h, credentials, revoked, revokedAt>>

(* `tubo revoke invite`, by token or by the JTI of a redeemed invite.      *)
RevokeInvite(i) ==
    /\ invites[i].st = "minted"
    /\ i \notin revoked
    /\ Cardinality(revoked) < MaxRevoked
    /\ revoked' = revoked \cup {i}
    /\ revokedAt' = [revokedAt EXCEPT ![i] = now]
    /\ UNCHANGED <<now, h, credentials, epoch, seen, staleAt>>

-----------------------------------------------------------------------------
(* Redemption.  The lease is capped by the remaining invite lifetime.      *)
StartRedeem(x, r, i) ==
    /\ h[x] = IdleHandler
    /\ ValidInvite(i)
    /\ Becomes(x, "redeem_revoked",
               [to |-> r, via |-> i, epoch |-> invites[i].epoch, iat |-> now,
                exp |-> IF invites[i].exp < now + LeaseTTL
                          THEN invites[i].exp ELSE now + LeaseTTL])
    /\ UNCHANGED <<now, credentials, revocation>>

RedeemRevoked(x) ==
    /\ h[x].op = "redeem_revoked"
    /\ IF h[x].lease.via \in revoked
         THEN Deny(x)
         ELSE Becomes(x, "redeem_epoch", h[x].lease)
    /\ UNCHANGED <<now, credentials, revocation>>

RedeemEpoch(x) ==
    /\ h[x].op = "redeem_epoch"
    /\ IF h[x].lease.epoch # epoch
         THEN Deny(x)
         ELSE Becomes(x, "redeem_commit", h[x].lease)
    /\ UNCHANGED <<now, credentials, revocation>>

(* Mutant: the relationship is stamped with the epoch read at commit.      *)
FirstRedemption_CurrentEpoch(l) ==
    /\ redeemedBy[l.via] = None
    /\ redeemedBy' = [redeemedBy EXCEPT ![l.via] = l.to]
    /\ relation' = [relation EXCEPT ![l.to] = [via |-> l.via, epoch |-> epoch]]

(* The first redemption wins and (re-)accepts the relationship.            *)
FirstRedemption(l) ==
    /\ redeemedBy[l.via] = None
    /\ redeemedBy' = [redeemedBy EXCEPT ![l.via] = l.to]
    /\ relation' = [relation EXCEPT ![l.to] = [via |-> l.via,
                                               epoch |-> l.epoch]]

(* Mutants: a retry by anyone; a retry that accepts again.                 *)
RepeatRedemption_Anyone(l) ==
    /\ redeemedBy[l.via] # None
    /\ UNCHANGED <<redeemedBy, relation>>

RepeatRedemption_Reaccept(l) ==
    /\ redeemedBy[l.via] = l.to
    /\ relation' = [relation EXCEPT ![l.to] = [via |-> l.via,
                                               epoch |-> l.epoch]]
    /\ UNCHANGED redeemedBy

(* A retry by the winner changes nothing in the store.                     *)
RepeatRedemption(l) ==
    /\ redeemedBy[l.via] = l.to
    /\ UNCHANGED <<redeemedBy, relation>>

(* Mutant: the winner's own retry is refused.                              *)
RedeemCommit_NoRetry(x) ==
    /\ h[x].op = "redeem_commit"
    /\ LET l == h[x].lease IN
       \/ /\ FirstRedemption(l)
          /\ issued' = issued \cup {l}
          /\ Becomes(x, "replied", l)
       \/ /\ redeemedBy[l.via] # None
          /\ Deny(x)
          /\ UNCHANGED <<redeemedBy, relation, issued>>
    /\ UNCHANGED <<now, invites, revocation>>

(* RedeemInviteAndAccept in one transaction; then the lease is minted.     *)
RedeemCommit(x) ==
    /\ h[x].op = "redeem_commit"
    /\ LET l == h[x].lease IN
       \/ /\ FirstRedemption(l) \/ RepeatRedemption(l)
          /\ issued' = issued \cup {l}
          /\ Becomes(x, "replied", l)
       \/ /\ redeemedBy[l.via] \notin {None, l.to}   \* ErrInviteRedeemed
          /\ Deny(x)
          /\ UNCHANGED <<redeemedBy, relation, issued>>
    /\ UNCHANGED <<now, invites, revocation>>

-----------------------------------------------------------------------------
(* Renewal through the accepted relationship.                              *)
StartRenew(x, r) ==
    /\ h[x] = IdleHandler
    /\ Becomes(x, "renew_accepted",
               [to |-> r, via |-> None, epoch |-> 0, iat |-> now,
                exp |-> now + LeaseTTL])
    /\ UNCHANGED <<now, credentials, revocation>>

RenewAccepted(x) ==
    /\ h[x].op = "renew_accepted"
    /\ LET l == h[x].lease
           rel == relation[l.to] IN
       IF rel = NoRelation
         THEN Deny(x)
         ELSE Becomes(x, "renew_revoked",
                      [to |-> l.to, via |-> rel.via, epoch |-> rel.epoch,
                       iat |-> l.iat, exp |-> l.exp])
    /\ UNCHANGED <<now, credentials, revocation>>

(* Mutant: the accepted invite's revocation is not looked up.              *)
RenewRevoked_Unchecked(x) ==
    /\ h[x].op = "renew_revoked"
    /\ Becomes(x, "renew_epoch", h[x].lease)
    /\ UNCHANGED <<now, credentials, revocation>>

RenewRevoked(x) ==
    /\ h[x].op = "renew_revoked"
    /\ IF h[x].lease.via \in revoked
         THEN Deny(x)
         ELSE Becomes(x, "renew_epoch", h[x].lease)
    /\ UNCHANGED <<now, credentials, revocation>>

(* Mutant: the relationship's epoch is not compared with the stored one.   *)
RenewEpoch_Unchecked(x) ==
    /\ h[x].op = "renew_epoch"
    /\ Becomes(x, "replied", h[x].lease)
    /\ issued' = issued \cup {h[x].lease}
    /\ UNCHANGED <<now, invites, redeemedBy, relation, revocation>>

RenewEpoch(x) ==
    /\ h[x].op = "renew_epoch"
    /\ IF h[x].lease.epoch # epoch
         THEN /\ Deny(x)
              /\ UNCHANGED issued
         ELSE /\ Becomes(x, "replied", h[x].lease)
              /\ issued' = issued \cup {h[x].lease}
    /\ UNCHANGED <<now, invites, redeemedBy, relation, revocation>>

(* The reply leaves (or is lost with the stream): the handler is done.     *)
Finish(x) ==
    /\ h[x].op = "replied"
    /\ Deny(x)
    /\ UNCHANGED <<now, credentials, revocation>>

-----------------------------------------------------------------------------
(* tunnelServer.serve: the lease is verified against the captured clock,   *)
(* then the epoch is read, then the target is dialled and the session      *)
(* runs until a timer set to the lease's expiry stops it.  The lease-JTI   *)
(* revocation check never fires: no command writes an access-lease row.    *)
StartOpen(x, l) ==
    /\ h[x] = IdleHandler
    /\ ValidLease(l)
    /\ Becomes(x, "open_epoch", l)
    /\ UNCHANGED <<now, credentials, revocation>>

(* Mutant: an open one epoch behind still passes.                          *)
OpenEpoch_OffByOne(x) ==
    /\ h[x].op = "open_epoch"
    /\ IF epoch > h[x].lease.epoch + 1
         THEN Deny(x)
         ELSE Becomes(x, "open_dial", h[x].lease)
    /\ UNCHANGED <<now, credentials, revocation>>

OpenEpoch(x) ==
    /\ h[x].op = "open_epoch"
    /\ IF epoch > h[x].lease.epoch
         THEN Deny(x)
         ELSE Becomes(x, "open_dial", h[x].lease)
    /\ UNCHANGED <<now, credentials, revocation>>

OpenSession(x) ==
    /\ h[x].op = "open_dial"
    /\ Becomes(x, "session", h[x].lease)
    /\ UNCHANGED <<now, credentials, revocation>>

(* Mutant: the timer counts a full lease lifetime from the lease's expiry. *)
ExpireSession_Late(x) ==
    /\ h[x].op = "session"
    /\ h[x].lease.exp + LeaseTTL <= now
    /\ Deny(x)
    /\ UNCHANGED <<now, credentials, revocation>>

ExpireSession(x) ==
    /\ h[x].op = "session"
    /\ h[x].lease.exp <= now
    /\ Deny(x)
    /\ UNCHANGED <<now, credentials, revocation>>

(* A handler stops at any point: stream error or deadline, a store error   *)
(* (all checks fail closed), an unreachable target, a session closed by    *)
(* either end, the owner process stopping.  Committed rows stay.           *)
Abort(x) ==
    /\ h[x].op \in BusyOps \ {"replied"}
    /\ Deny(x)
    /\ UNCHANGED <<now, credentials, revocation>>

-----------------------------------------------------------------------------
(* What a handler does once a request has reached it.                      *)
Step(x) ==
    \/ RedeemRevoked(x) \/ RedeemEpoch(x) \/ RedeemCommit(x)
    \/ RenewAccepted(x) \/ RenewRevoked(x) \/ RenewEpoch(x)
    \/ OpenEpoch(x) \/ OpenSession(x) \/ ExpireSession(x)

Owner ==
    \/ \E i \in Invites : ShareEpoch(i) \/ ShareMint(i) \/ RevokeInvite(i)
    \/ \E k \in Revokers : RevokeRead(k) \/ RevokeWrite(k)

(* Any recipient may send any request it holds a credential for.           *)
Requests(x) ==
    \/ \E r \in Recipients, i \in Invites : StartRedeem(x, r, i)
    \/ \E r \in Recipients : StartRenew(x, r)
    \/ \E l \in issued : StartOpen(x, l)

Next ==
    \/ Tick
    \/ Owner
    \/ \E x \in Handlers : Requests(x) \/ Step(x) \/ Finish(x) \/ Abort(x)

Spec == Init /\ [][Next]_vars

-----------------------------------------------------------------------------
TypeOK ==
    /\ now \in Nat
    /\ epoch \in 0..MaxEpoch
    /\ revoked \subseteq Invites
    /\ invites \in [Invites -> Invite]
    /\ redeemedBy \in [Invites -> Recipients \cup {None}]
    /\ relation \in [Recipients -> Relation]
    /\ issued \subseteq Lease
    /\ h \in [Handlers -> Handler]
    /\ seen \in [Revokers -> {NotReading} \cup 0..(MaxEpoch - 1)]
    /\ staleAt \in [0..MaxEpoch -> Nat]
    /\ revokedAt \in [Invites -> Nat]

(* One invite, one recipient: whatever retries, replays and races of two   *)
(* recipients there are, every lease ever minted (by redemption or by      *)
(* renewal) is for the recipient who redeemed the invite it rests on, and  *)
(* carries the epoch that invite was minted at.                            *)
LeaseBacked ==
    \A l \in issued :
        /\ l.via \in Invites
        /\ redeemedBy[l.via] = l.to
        /\ l.epoch = invites[l.via].epoch

(* The accepted relationship of a recipient always names an invite that    *)
(* recipient redeemed, at that invite's epoch (RedeemInviteAndAccept       *)
(* writes both tables in one transaction).                                 *)
RelationBacked ==
    \A r \in Recipients : relation[r] # NoRelation =>
        /\ relation[r].via \in Invites
        /\ redeemedBy[relation[r].via] = r
        /\ relation[r].epoch = invites[relation[r].via].epoch

(* Both: what rests on an invite belongs to the one who redeemed it.       *)
OneRecipient == LeaseBacked /\ RelationBacked

(* No credential is ever ahead of the authoritative epoch, which is why    *)
(* the `currentEpoch > lease.AccessEpoch` test of the open authorizer is   *)
(* as strong as an equality test.                                          *)
NothingAheadOfEpoch ==
    /\ \A l \in issued : l.epoch <= epoch
    /\ \A r \in Recipients : relation[r].epoch <= epoch
    /\ \A i \in Invites : invites[i].epoch <= epoch

(* Bounded revocation: although redeem and renew check the epoch and mint  *)
(* in separate steps, no lease of a revoked epoch outlives the revocation  *)
(* by more than the lease lifetime.                                        *)
RevocationWindow ==
    \A l \in issued : l.epoch < epoch => l.exp <= staleAt[l.epoch] + LeaseTTL

(* The same for `revoke invite`: no lease resting on a revoked invite      *)
(* outlives that revocation by more than the lease lifetime, even though   *)
(* the open authorizer never looks at the invite.                          *)
InviteRevocationWindow ==
    \A l \in issued :
        l.via \in revoked => l.exp <= revokedAt[l.via] + LeaseTTL

(* Both: every revocation takes effect within one lease lifetime.          *)
RevocationBound == RevocationWindow /\ InviteRevocationWindow

(* The receiving boundary: an open passes authorization only with a lease  *)
(* of exactly the epoch in force at that moment.                           *)
OpenFence ==
    [][\A x \in Handlers :
         h[x].op = "open_epoch" /\ h'[x].op = "open_dial"
           => h[x].lease.epoch = epoch]_vars

(* Only a first redemption by the recipient itself re-authorizes it, and   *)
(* a redeemed invite never changes hands: an idempotent retry regresses    *)
(* nothing.                                                                *)
ReacceptOnlyByFirstRedemption ==
    [][/\ \A i \in Invites : redeemedBy[i] # None
                               => redeemedBy'[i] = redeemedBy[i]
       /\ \A r \in Recipients : relation'[r] # relation[r] =>
            \E i \in Invites : /\ redeemedBy[i] = None
                               /\ redeemedBy'[i] = r
                               /\ relation'[r].via = i]_vars

(* The epoch never moves backwards and never skips a value, whatever       *)
(* number of revoke commands run at once.                                  *)
EpochAdvancesByOne == [][epoch' \in {epoch, epoch + 1}]_vars

(* cli/app.go: a pipe-access revocation "advances the authoritative epoch  *)
(* by one so the current accepted relationship becomes stale".  Stated of  *)
(* every `revoke` command that reports success.                            *)
RevocationMakesStale ==
    [][\A k \in Revokers :
         seen[k] # NotReading /\ seen'[k] = NotReading /\ seen[k] + 1 >= epoch
           => \A r \in Recipients :
                relation[r] # NoRelation => relation[r].epoch < epoch']_vars

-----------------------------------------------------------------------------
(* Liveness.  Handlers run: their I/O has deadlines, the store answers or  *)
(* fails, and time.AfterFunc fires.  Recipients and the owner need do      *)
(* nothing.                                                                *)
Fairness ==
    /\ WF_vars(Tick)
    /\ \A x \in Handlers : WF_vars(Step(x)) /\ WF_vars(Finish(x))

FairSpec == Spec /\ Fairness

SessionAtOrBelow(e) ==
    \E x \in Handlers : h[x].op = "session" /\ h[x].lease.epoch <= e

(* A pipe-access revocation ends all access of the revoked epoch for good: *)
(* from some moment on no session of that epoch exists, although sessions  *)
(* are not told of the revocation and an authorization that raced with it  *)
(* may still open one.  (The antecedent keeps the lease lifetime inside    *)
(* the bounded clock.)                                                     *)
RevokedSessionsEnd ==
    \A e \in 0..(MaxEpoch - 1) :
        (epoch > e /\ staleAt[e] + LeaseTTL <= MaxTime)
            ~> [](~SessionAtOrBelow(e))

-----------------------------------------------------------------------------
(* The inductive strengthening.                                            *)

(* Leases live no longer than LeaseTTL from a past moment.                 *)
LeaseLifetime ==
    \A l \in issued : l.iat <= now /\ l.exp <= l.iat + LeaseTTL

(* Only a minted invite is redeemed.                                       *)
RedeemedIsMinted ==
    \A i \in Invites : redeemedBy[i] # None => invites[i].st = "minted"

(* A running revoke command read an epoch no greater than the current one. *)
SeenIsPast == \A k \in Revokers : seen[k] <= epoch

(* What a handler knows at each stage.  The two stamps are the point: a    *)
(* handler past the check of an invite (of an epoch) took its time stamp   *)
(* before that invite was revoked (that epoch ended).                      *)
CheckedRevoked(l) == l.via \in revoked => l.iat <= revokedAt[l.via]
CheckedEpoch(l) == l.epoch < epoch => l.iat <= staleAt[l.epoch]

Knows(v) ==
    LET op == v.op
        l == v.lease IN
    v # IdleHandler =>
        /\ l.iat <= now
        /\ l.exp <= l.iat + LeaseTTL
        /\ op \in RedeemOps =>
             /\ l.via \in Invites
             /\ invites[l.via].st = "minted"
             /\ l.epoch = invites[l.via].epoch
        /\ op \in {"renew_revoked", "renew_epoch"} =>
             /\ l.via \in Invites
             /\ redeemedBy[l.via] = l.to
             /\ l.epoch = invites[l.via].epoch
        /\ op \in {"redeem_epoch", "redeem_commit", "renew_epoch"} =>
             CheckedRevoked(l)
        /\ op = "redeem_commit" => CheckedEpoch(l)
        /\ op \in OpenOps \cup {"replied"} => l \in issued

IInv ==
    /\ TypeOK
    /\ LeaseBacked
    /\ RelationBacked
    /\ NothingAheadOfEpoch
    /\ RevocationWindow
    /\ InviteRevocationWindow
    /\ LeaseLifetime
    /\ RedeemedIsMinted
    /\ SeenIsPast
    /\ \A x \in Handlers : Knows(h[x])

=============================================================================
