-------------------------- MODULE ExactAccess_proofs --------------------------
(***************************************************************************)
(* TLAPS proofs about ExactAuthority, for any number of recipients,        *)
(* invites, handlers and concurrent revoke commands, and about             *)
(* ExactAccess, where the recipients have clients with durable bindings    *)
(* and lease caches.  Every step of ExactAccess is a step of the authority *)
(* or leaves it alone, so what is proved of the authority carries over;    *)
(* the invariant AccessInv then follows a lease from the store of the      *)
(* owner to the cache of the client.                                       *)
(***************************************************************************)
EXTENDS ExactAccess, TLAPS

(* Every initial state satisfies the inductive invariant.                  *)
LEMMA InitIInv == Init => IInv
  <1> SUFFICES ASSUME Init PROVE IInv
    OBVIOUS
  <1> USE ConstantsAssumption DEF Init
  <1>1. TypeOK
    BY DEF TypeOK, Invite, Relation, NoRelation, Handler, NotReading
  <1>2. LeaseBacked /\ RevocationWindow /\ InviteRevocationWindow /\ LeaseLifetime
    BY Zenon DEF LeaseBacked, RevocationWindow, InviteRevocationWindow, LeaseLifetime
  <1>3. RelationBacked /\ NothingAheadOfEpoch
    BY DEF RelationBacked, NothingAheadOfEpoch, NoRelation
  <1>4. RedeemedIsMinted /\ SeenIsPast
    BY DEF RedeemedIsMinted, SeenIsPast, NotReading
  <1>5. \A x \in Handlers : Knows(h[x])
    BY Zenon DEF Knows
  <1> QED
    BY Zenon, <1>1, <1>2, <1>3, <1>4, <1>5 DEF IInv

(* The stage names are distinct.                                           *)
LEMMA IdleIsNotBusy == IdleHandler.op = "idle" /\ "idle" \notin BusyOps
  BY Zenon DEF IdleHandler, BusyOps, RedeemOps, RenewOps, OpenOps

(* A handler whose stage is not "idle" carries a lease.                    *)
LEMMA BusyHandler ==
  ASSUME TypeOK, NEW x \in Handlers, h[x].op # "idle"
  PROVE  /\ h[x] # IdleHandler
         /\ h[x].op \in BusyOps
         /\ h[x].lease \in Lease
         /\ h[x].lease.to \in Recipients
         /\ h[x].lease.via \in Invites \cup {None}
         /\ h[x].lease.epoch \in Nat
         /\ h[x].lease.iat \in Nat
         /\ h[x].lease.exp \in Nat
  BY SMTT(60) DEF TypeOK, Handler, Lease, IdleHandler

(* What a handler knows is a matter of the state of the store alone, and   *)
(* neither another lease nor the redemption of an unredeemed invite        *)
(* changes it.                                                             *)
LEMMA KnowsFrame ==
  ASSUME NEW y, NEW w, Knows(w), h'[y] = w,
         UNCHANGED <<now, invites, epoch, revoked, staleAt, revokedAt>>,
         issued \subseteq issued',
         w # IdleHandler /\ w.lease.via \in Invites
           /\ redeemedBy[w.lease.via] = w.lease.to
           => redeemedBy'[w.lease.via] = w.lease.to
  PROVE  Knows(h[y])'
  BY Zenon DEF Knows, CheckedRevoked, CheckedEpoch

(* What a redemption must have established to be at a given stage.         *)
LEMMA KnowsRedeem ==
  ASSUME NEW o \in RedeemOps, NEW l,
         l.iat <= now, l.exp <= l.iat + LeaseTTL,
         l.via \in Invites, invites[l.via].st = "minted",
         l.epoch = invites[l.via].epoch,
         o # "redeem_revoked" => CheckedRevoked(l),
         o = "redeem_commit" => CheckedEpoch(l)
  PROVE  Knows([op |-> o, lease |-> l])
  BY Zenon DEF Knows, RedeemOps, OpenOps

(* A step that only moves one handler to a stage it is entitled to         *)
(* preserves the invariant.                                                *)
LEMMA HandlerMoves ==
  ASSUME IInv, NEW x \in Handlers, NEW v \in Handler, Knows(v),
         h' = [h EXCEPT ![x] = v],
         UNCHANGED <<now, credentials, revocation>>
  PROVE  IInv'
  <1>u. UNCHANGED <<now, invites, redeemedBy, relation, issued, epoch, revoked, seen,
                    staleAt, revokedAt>>
    BY ZenonT(60) DEF credentials, revocation
  <1>1. TypeOK'
    BY ZenonT(60), <1>u DEF IInv, TypeOK
  <1>2. \A y \in Handlers : Knows(h[y])'
    <2> SUFFICES ASSUME NEW y \in Handlers PROVE Knows(h[y])'
      OBVIOUS
    <2>1. h'[y] = v \/ h'[y] = h[y]
      BY Zenon DEF IInv, TypeOK
    <2>2. Knows(v) /\ Knows(h[y])
      BY Zenon DEF IInv
    <2>3. issued \subseteq issued' /\ redeemedBy' = redeemedBy
      BY ZenonT(60), <1>u
    <2>4. CASE h'[y] = v
      BY Zenon, <1>u, <2>2, <2>3, <2>4, KnowsFrame
    <2>5. CASE h'[y] = h[y]
      BY Zenon, <1>u, <2>2, <2>3, <2>5, KnowsFrame
    <2> QED
      BY ZenonT(60), <2>1, <2>4, <2>5
  <1>3. LeaseBacked' /\ RelationBacked' /\ NothingAheadOfEpoch'
    BY Zenon, <1>u DEF IInv, LeaseBacked, RelationBacked, NothingAheadOfEpoch
  <1>4. RevocationWindow' /\ InviteRevocationWindow' /\ LeaseLifetime'
    BY Zenon, <1>u DEF IInv, RevocationWindow, InviteRevocationWindow, LeaseLifetime
  <1>5. RedeemedIsMinted' /\ SeenIsPast'
    BY Zenon, <1>u DEF IInv, RedeemedIsMinted, SeenIsPast
  <1> QED
    BY Zenon, <1>1, <1>2, <1>3, <1>4, <1>5 DEF IInv

(* In particular a handler may always stop.                                *)
LEMMA HandlerStops ==
  ASSUME IInv, NEW x \in Handlers, Deny(x),
         UNCHANGED <<now, credentials, revocation>>
  PROVE  IInv'
  BY ZenonT(60), HandlerMoves DEF Deny, Handler, Knows

-----------------------------------------------------------------------------
(* A handler that starts knows only its time stamp.                        *)
LEMMA StartsPreserve ==
  ASSUME IInv, NEW x \in Handlers, Requests(x)
  PROVE  IInv'
  <1>1. CASE \E r \in Recipients, i \in Invites : StartRedeem(x, r, i)
    <2> PICK r \in Recipients, i \in Invites : StartRedeem(x, r, i)
      BY Zenon, <1>1
    <2> DEFINE l == [to |-> r, via |-> i, epoch |-> invites[i].epoch,
                     iat |-> now,
                     exp |-> IF invites[i].exp < now + LeaseTTL
                               THEN invites[i].exp ELSE now + LeaseTTL]
               v == [op |-> "redeem_revoked", lease |-> l]
    <2>1. l \in Lease /\ l.exp <= l.iat + LeaseTTL
      BY SMTT(60), ConstantsAssumption DEF IInv, TypeOK, Invite, Lease
    <2>2. v \in Handler
      BY Zenon, <2>1 DEF Handler, BusyOps, RedeemOps
    <2>3. Knows(v)
      <3>1. invites[i].st = "minted"
        BY ZenonT(60) DEF StartRedeem, ValidInvite
      <3>2. now \in Nat
        BY ZenonT(60) DEF IInv, TypeOK
      <3>3. l.iat = now /\ l.via = i /\ l.epoch = invites[i].epoch
        BY Zenon
      <3>4. l.iat <= now
        BY SMTT(60), <3>2, <3>3
      <3>5. "redeem_revoked" \in RedeemOps /\ "redeem_revoked" # "redeem_commit"
        BY ZenonT(60) DEF RedeemOps
      <3> HIDE DEF l
      <3> QED
        BY ZenonT(60), <2>1, <3>1, <3>3, <3>4, <3>5, KnowsRedeem
    <2> QED
      BY ZenonT(60), <2>2, <2>3, HandlerMoves DEF StartRedeem, Becomes
  <1>2. CASE \E r \in Recipients : StartRenew(x, r)
    <2> PICK r \in Recipients : StartRenew(x, r)
      BY Zenon, <1>2
    <2> DEFINE l == [to |-> r, via |-> None, epoch |-> 0, iat |-> now,
                     exp |-> now + LeaseTTL]
               v == [op |-> "renew_accepted", lease |-> l]
    <2>1. l \in Lease /\ l.exp <= l.iat + LeaseTTL
      BY ConstantsAssumption DEF IInv, TypeOK, Lease
    <2>2. v \in Handler
      BY Zenon, <2>1 DEF Handler, BusyOps, RenewOps
    <2>3. Knows(v)
      <3>1. now \in Nat
        BY ZenonT(60) DEF IInv, TypeOK
      <3> QED
        BY SMTT(60), <2>1, <3>1 DEF Knows, RedeemOps, OpenOps
    <2> QED
      BY ZenonT(60), <2>2, <2>3, HandlerMoves DEF StartRenew, Becomes
  <1>3. CASE \E l \in issued : StartOpen(x, l)
    <2> PICK l \in issued : StartOpen(x, l)
      BY Zenon, <1>3
    <2> DEFINE v == [op |-> "open_epoch", lease |-> l]
    <2>1. v \in Handler
      BY Zenon DEF IInv, TypeOK, Handler, BusyOps, OpenOps
    <2>2. Knows(v)
      BY Zenon DEF Knows, RedeemOps, RenewOps, OpenOps, IInv, LeaseLifetime
    <2> QED
      BY ZenonT(60), <2>1, <2>2, HandlerMoves DEF StartOpen, Becomes
  <1> QED
    BY Zenon, <1>1, <1>2, <1>3 DEF Requests

(* The reads of a handler: the check of an invite and the check of an      *)
(* epoch establish that the time stamp precedes any later revocation.      *)
LEMMA ReadsPreserve ==
  ASSUME IInv, NEW x \in Handlers,
         RedeemRevoked(x) \/ RedeemEpoch(x) \/ RenewAccepted(x)
           \/ RenewRevoked(x) \/ OpenEpoch(x) \/ OpenSession(x)
  PROVE  IInv'
  <1> DEFINE l == h[x].lease
  <1>0. TypeOK /\ Knows(h[x])
    BY Zenon DEF IInv
  <1>b. h[x].op # "idle"
    BY Zenon DEF RedeemRevoked, RedeemEpoch, RenewAccepted, RenewRevoked, OpenEpoch,
           OpenSession
  <1>t. /\ h[x] # IdleHandler
        /\ l \in Lease
        /\ l.to \in Recipients
        /\ l.epoch \in Nat /\ l.iat \in Nat /\ l.exp \in Nat
    BY Zenon, <1>0, <1>b, BusyHandler
  <1>1. CASE RedeemRevoked(x)
    <2>1. CASE l.via \in revoked
      BY ZenonT(60), <1>1, <2>1, HandlerStops DEF RedeemRevoked
    <2>2. CASE l.via \notin revoked
      <3> DEFINE v == [op |-> "redeem_epoch", lease |-> l]
      <3>1. v \in Handler
        BY ZenonT(60), <1>t DEF Handler, BusyOps, RedeemOps
      <3>2. Knows(v)
        <4>1. h[x].op = "redeem_revoked"
          BY ZenonT(60), <1>1 DEF RedeemRevoked
        <4>2. "redeem_epoch" \in RedeemOps /\ "redeem_epoch" # "redeem_commit"
          BY ZenonT(60) DEF RedeemOps
        <4> QED
          BY ZenonT(60), <1>0, <1>t, <2>2, <4>1, <4>2, KnowsRedeem
             DEF Knows, CheckedRevoked, RedeemOps
      <3> QED
        BY ZenonT(60), <1>1, <2>2, <3>1, <3>2, HandlerMoves DEF RedeemRevoked, Becomes
    <2> QED
      BY ZenonT(60), <2>1, <2>2
  <1>2. CASE RedeemEpoch(x)
    <2>1. CASE l.epoch # epoch
      BY ZenonT(60), <1>2, <2>1, HandlerStops DEF RedeemEpoch
    <2>2. CASE l.epoch = epoch
      <3> DEFINE v == [op |-> "redeem_commit", lease |-> l]
      <3>1. v \in Handler
        BY ZenonT(60), <1>t DEF Handler, BusyOps, RedeemOps
      <3>2. Knows(v)
        <4>1. h[x].op = "redeem_epoch"
          BY ZenonT(60), <1>2 DEF RedeemEpoch
        <4>2. CheckedEpoch(l)
          BY SMTT(60), <1>t, <2>2 DEF CheckedEpoch
        <4>3. "redeem_commit" \in RedeemOps
          BY ZenonT(60) DEF RedeemOps
        <4> QED
          BY ZenonT(60), <1>0, <1>t, <4>1, <4>2, <4>3, KnowsRedeem DEF Knows, RedeemOps
      <3> QED
        BY ZenonT(60), <1>2, <2>2, <3>1, <3>2, HandlerMoves DEF RedeemEpoch, Becomes
    <2> QED
      BY ZenonT(60), <2>1, <2>2
  <1>3. CASE RenewAccepted(x)
    <2>1. CASE relation[l.to] = NoRelation
      BY ZenonT(60), <1>3, <2>1, HandlerStops DEF RenewAccepted
    <2>2. CASE relation[l.to] # NoRelation
      <3> DEFINE m == [to |-> l.to, via |-> relation[l.to].via,
                       epoch |-> relation[l.to].epoch,
                       iat |-> l.iat, exp |-> l.exp]
                 v == [op |-> "renew_revoked", lease |-> m]
      <3>1. m \in Lease
        BY ZenonT(60), <1>t, <1>0 DEF TypeOK, Relation, Lease
      <3>2. v \in Handler
        BY ZenonT(60), <3>1 DEF Handler, BusyOps, RenewOps
      <3>3. /\ relation[l.to].via \in Invites
            /\ redeemedBy[relation[l.to].via] = l.to
            /\ relation[l.to].epoch = invites[relation[l.to].via].epoch
        BY ZenonT(60), <1>t, <2>2 DEF IInv, RelationBacked
      <3>4. Knows(v)
        BY ZenonT(60), <1>0, <1>3, <1>t, <3>3 DEF RenewAccepted, Knows, CheckedRevoked,
             CheckedEpoch, RedeemOps, RenewOps, OpenOps
      <3> QED
        BY ZenonT(60), <1>3, <2>2, <3>2, <3>4, HandlerMoves DEF RenewAccepted, Becomes
    <2> QED
      BY ZenonT(60), <2>1, <2>2
  <1>4. CASE RenewRevoked(x)
    <2>1. CASE l.via \in revoked
      BY ZenonT(60), <1>4, <2>1, HandlerStops DEF RenewRevoked
    <2>2. CASE l.via \notin revoked
      <3> DEFINE v == [op |-> "renew_epoch", lease |-> l]
      <3>1. v \in Handler
        BY ZenonT(60), <1>t DEF Handler, BusyOps, RenewOps
      <3>2. Knows(v)
        BY ZenonT(60), <1>0, <1>4, <1>t, <2>2 DEF RenewRevoked, Knows, CheckedRevoked,
             CheckedEpoch, RedeemOps, RenewOps, OpenOps
      <3> QED
        BY Zenon, <1>4, <2>2, <3>1, <3>2, HandlerMoves DEF RenewRevoked, Becomes
    <2> QED
      BY ZenonT(60), <2>1, <2>2
  <1>5. CASE OpenEpoch(x)
    <2>1. CASE epoch > l.epoch
      BY ZenonT(60), <1>5, <2>1, HandlerStops DEF OpenEpoch
    <2>2. CASE ~(epoch > l.epoch)
      <3> DEFINE v == [op |-> "open_dial", lease |-> l]
      <3>1. v \in Handler
        BY ZenonT(60), <1>t DEF Handler, BusyOps, OpenOps
      <3>2. Knows(v)
        BY ZenonT(60), <1>0, <1>5, <1>t DEF OpenEpoch, Knows, CheckedRevoked,
             CheckedEpoch, RedeemOps, RenewOps, OpenOps
      <3> QED
        BY Zenon, <1>5, <2>2, <3>1, <3>2, HandlerMoves DEF OpenEpoch, Becomes
    <2> QED
      BY ZenonT(60), <2>1, <2>2
  <1>6. CASE OpenSession(x)
    <2> DEFINE v == [op |-> "session", lease |-> l]
    <2>1. v \in Handler
      BY Zenon, <1>t DEF Handler, BusyOps, OpenOps
    <2>2. Knows(v)
      BY ZenonT(60), <1>0, <1>6, <1>t DEF OpenSession, Knows, CheckedRevoked,
             CheckedEpoch, RedeemOps, RenewOps, OpenOps
    <2> QED
      BY ZenonT(60), <1>6, <2>1, <2>2, HandlerMoves DEF OpenSession, Becomes
  <1> QED
    BY Zenon, <1>1, <1>2, <1>3, <1>4, <1>5, <1>6

-----------------------------------------------------------------------------
(* Minting.  A lease l may be issued when it is backed, not ahead of the   *)
(* epoch, and stamped before any revocation that concerns it.              *)
Mintable(l) ==
    /\ l \in Lease
    /\ l.via \in Invites
    /\ l.epoch = invites[l.via].epoch
    /\ l.iat <= now
    /\ l.exp <= l.iat + LeaseTTL
    /\ CheckedRevoked(l)
    /\ CheckedEpoch(l)

(* Issuing one mintable lease to the recipient that holds its invite, the  *)
(* handler then replying, preserves the invariant.  The two tables may     *)
(* change as a redemption changes them.                                    *)
LEMMA MintPreserves ==
  ASSUME IInv, NEW x \in Handlers, NEW l, Mintable(l),
         FirstRedemption(l) \/ RepeatRedemption(l),
         invites[l.via].st = "minted",
         issued' = issued \cup {l},
         Becomes(x, "replied", l),
         UNCHANGED <<now, invites, revocation>>
  PROVE  IInv'
  <1>m. /\ l \in Lease /\ l.via \in Invites /\ l.epoch = invites[l.via].epoch
        /\ l.iat <= now /\ l.exp <= l.iat + LeaseTTL
        /\ CheckedRevoked(l) /\ CheckedEpoch(l)
    BY ZenonT(60) DEF Mintable
  <1>u. UNCHANGED <<now, invites, epoch, revoked, seen, staleAt, revokedAt>>
    BY ZenonT(60) DEF revocation
  <1>t. /\ l.to \in Recipients /\ l.via \in Invites
        /\ l.epoch \in Nat /\ l.iat \in Nat /\ l.exp \in Nat
    BY ZenonT(60), <1>m, <1>u DEF Lease
  <1>r. /\ redeemedBy'[l.via] = l.to
        /\ \A i \in Invites : redeemedBy[i] # None => redeemedBy'[i] = redeemedBy[i]
        /\ \A i \in Invites : redeemedBy'[i] # None =>
                                 redeemedBy[i] # None \/ i = l.via
        /\ \A r \in Recipients : \/ relation'[r] = relation[r]
                                 \/ /\ r = l.to
                                    /\ relation'[r] = [via |-> l.via, epoch |-> l.epoch]
    BY ZenonT(60), <1>t DEF IInv, TypeOK, FirstRedemption, RepeatRedemption
  <1>1. TypeOK'
    <2>0. [via |-> l.via, epoch |-> l.epoch] \in Relation
      BY ZenonT(60), <1>t DEF Relation
    <2>1. /\ redeemedBy' \in [Invites -> Recipients \cup {None}]
          /\ relation' \in [Recipients -> Relation]
      <3>1. /\ redeemedBy \in [Invites -> Recipients \cup {None}]
            /\ relation \in [Recipients -> Relation]
        BY ZenonT(60) DEF IInv, TypeOK
      <3>2. CASE FirstRedemption(l)
        BY ZenonT(60), <1>t, <2>0, <3>1, <3>2 DEF FirstRedemption
      <3>3. CASE RepeatRedemption(l)
        BY ZenonT(60), <3>1, <3>3 DEF RepeatRedemption
      <3> QED
        BY ZenonT(60), <3>2, <3>3
    <2>2. h' \in [Handlers -> Handler]
      BY ZenonT(60), <1>m, <1>u DEF IInv, TypeOK, Becomes, Handler, BusyOps
    <2> QED
      BY ZenonT(60), <1>m, <1>u, <2>1, <2>2 DEF IInv, TypeOK
  <1>2. LeaseBacked'
    <2> SUFFICES ASSUME NEW m \in issued'
                 PROVE  /\ m.via \in Invites
                        /\ redeemedBy'[m.via] = m.to
                        /\ m.epoch = invites[m.via].epoch
      BY ZenonT(60) DEF LeaseBacked
    <2>1. CASE m = l
      BY ZenonT(60), <1>m, <1>u, <1>r, <2>1
    <2>2. CASE m \in issued
      <3>1. m.to \in Recipients
        BY ZenonT(60), <2>2 DEF IInv, TypeOK, Lease
      <3> QED
        BY ZenonT(60), ConstantsAssumption, <1>m, <1>u, <1>r, <2>2, <3>1 DEF IInv, LeaseBacked
    <2> QED
      BY ZenonT(60), <2>1, <2>2
  <1>3. RelationBacked'
    <2> SUFFICES ASSUME NEW r \in Recipients, relation'[r] # NoRelation
                 PROVE  /\ relation'[r].via \in Invites
                        /\ redeemedBy'[relation'[r].via] = r
                        /\ relation'[r].epoch = invites[relation'[r].via].epoch
      BY ZenonT(60) DEF RelationBacked
    <2>1. CASE relation'[r] = relation[r]
      <3>1. /\ relation[r].via \in Invites
            /\ redeemedBy[relation[r].via] = r
            /\ relation[r].epoch = invites[relation[r].via].epoch
        BY ZenonT(60), <2>1 DEF IInv, RelationBacked
      <3>2. redeemedBy[relation[r].via] # None
        BY ZenonT(60), <3>1, ConstantsAssumption
      <3> QED
        BY ZenonT(60), <1>r, <2>1, <3>1, <3>2
    <2>2. CASE r = l.to /\ relation'[r] = [via |-> l.via, epoch |-> l.epoch]
      <3>1. relation'[r].via = l.via /\ relation'[r].epoch = l.epoch
        BY SMTT(60), <2>2
      <3> QED
        BY ZenonT(60), <1>m, <1>r, <2>2, <3>1
    <2> QED
      BY ZenonT(60), <1>r, <2>1, <2>2
  <1>4. NothingAheadOfEpoch'
    <2>1. l.epoch <= epoch
      BY ZenonT(60), <1>m, <1>u DEF IInv, NothingAheadOfEpoch
    <2>2. \A k \in issued' : k.epoch <= epoch
      BY ZenonT(60), <2>1 DEF IInv, NothingAheadOfEpoch
    <2>3. \A r \in Recipients : relation'[r].epoch <= epoch
      <3> SUFFICES ASSUME NEW r \in Recipients PROVE relation'[r].epoch <= epoch
        BY ZenonT(60)
      <3>1. relation[r].epoch <= epoch
        BY ZenonT(60) DEF IInv, NothingAheadOfEpoch
      <3>2. [via |-> l.via, epoch |-> l.epoch].epoch = l.epoch
        BY Zenon
      <3> QED
        BY ZenonT(60), <1>r, <2>1, <3>1, <3>2
    <2> QED
      BY ZenonT(60), <1>u, <2>2, <2>3 DEF IInv, NothingAheadOfEpoch
  <1>5. RevocationWindow'
    <2>1. l.epoch < epoch => l.exp <= staleAt[l.epoch] + LeaseTTL
      <3> SUFFICES ASSUME l.epoch < epoch
                   PROVE  l.exp <= staleAt[l.epoch] + LeaseTTL
        BY ZenonT(60)
      <3>1. epoch \in 0..MaxEpoch /\ staleAt \in [0..MaxEpoch -> Nat]
        BY ZenonT(60) DEF IInv, TypeOK
      <3>2. l.epoch \in 0..MaxEpoch
        BY SMTT(60), ConstantsAssumption, <1>m, <1>u, <1>t, <3>1
      <3>3. staleAt[l.epoch] \in Nat
        BY ZenonT(60), <3>1, <3>2
      <3>4. l.iat <= staleAt[l.epoch] /\ l.exp <= l.iat + LeaseTTL
        BY ZenonT(60), <1>m, <1>u DEF CheckedEpoch
      <3> QED
        BY SMTT(60), ConstantsAssumption, <1>m, <1>u, <1>t, <3>3, <3>4
    <2> QED
      BY ZenonT(60), <1>u, <2>1 DEF IInv, RevocationWindow
  <1>6. InviteRevocationWindow'
    <2>1. l.via \in revoked => l.exp <= revokedAt[l.via] + LeaseTTL
      BY SMTT(60), ConstantsAssumption, <1>m, <1>u, <1>t DEF CheckedRevoked, IInv, TypeOK
    <2> QED
      BY ZenonT(60), <1>u, <2>1 DEF IInv, InviteRevocationWindow
  <1>7. LeaseLifetime' /\ RedeemedIsMinted' /\ SeenIsPast'
    BY ZenonT(60), <1>m, <1>u, <1>r DEF IInv, LeaseLifetime, RedeemedIsMinted, SeenIsPast
  <1>8. \A y \in Handlers : Knows(h[y])'
    <2> SUFFICES ASSUME NEW y \in Handlers PROVE Knows(h[y])'
      BY ZenonT(60)
    <2>1. CASE h'[y] = [op |-> "replied", lease |-> l]
      <3>1. h'[y].op = "replied" /\ h'[y].lease = l
        BY SMTT(60), <2>1
      <3> QED
        BY ZenonT(60), <1>m, <1>u, <1>r, <3>1 DEF Knows, RedeemOps, RenewOps, OpenOps
    <2>2. CASE h'[y] = h[y]
      <3>1. Knows(h[y])
        BY ZenonT(60) DEF IInv
      <3>2. issued \subseteq issued'
        BY ZenonT(60)
      <3>3. ASSUME h[y] # IdleHandler, h[y].lease.via \in Invites,
                   redeemedBy[h[y].lease.via] = h[y].lease.to
            PROVE  redeemedBy'[h[y].lease.via] = h[y].lease.to
        <4>1. h[y].lease.to \in Recipients
          <5>1. h[y] \in [op : BusyOps, lease : Lease]
            BY ZenonT(60), <3>3 DEF IInv, TypeOK, Handler
          <5> QED
            BY ZenonT(60), <5>1 DEF Lease
        <4> QED
          BY ZenonT(60), ConstantsAssumption, <1>r, <3>3, <4>1
      <3> QED
        BY ZenonT(60), <1>u, <2>2, <3>1, <3>2, <3>3, KnowsFrame
    <2> QED
      BY ZenonT(60), <2>1, <2>2 DEF IInv, TypeOK, Becomes
  <1> QED
    BY Zenon, <1>1, <1>2, <1>3, <1>4, <1>5, <1>6, <1>7, <1>8 DEF IInv

(* The redemption transaction.                                             *)
LEMMA RedeemCommitPreserves ==
  ASSUME IInv, NEW x \in Handlers, RedeemCommit(x)
  PROVE  IInv'
  <1> DEFINE l == h[x].lease
  <1>1. h[x].op = "redeem_commit" /\ TypeOK /\ Knows(h[x])
    BY ZenonT(60) DEF IInv, RedeemCommit
  <1>2. h[x] # IdleHandler /\ l \in Lease
    BY ZenonT(60), <1>1, BusyHandler
  <1>3. Mintable(l) /\ invites[l.via].st = "minted"
    BY ZenonT(60), <1>1, <1>2 DEF Knows, Mintable, RedeemOps
  <1>4. CASE Deny(x) /\ UNCHANGED <<redeemedBy, relation, issued>>
    BY ZenonT(60), <1>4, HandlerStops DEF RedeemCommit, credentials
  <1>5. CASE /\ FirstRedemption(l) \/ RepeatRedemption(l)
             /\ issued' = issued \cup {l}
             /\ Becomes(x, "replied", l)
    BY Zenon, <1>3, <1>5, MintPreserves DEF RedeemCommit
  <1> QED
    BY ZenonT(60), <1>4, <1>5 DEF RedeemCommit

(* The last check of a renewal.                                            *)
LEMMA RenewEpochPreserves ==
  ASSUME IInv, NEW x \in Handlers, RenewEpoch(x)
  PROVE  IInv'
  <1> DEFINE l == h[x].lease
  <1>1. h[x].op = "renew_epoch" /\ TypeOK /\ Knows(h[x])
    BY ZenonT(60) DEF IInv, RenewEpoch
  <1>2. h[x] # IdleHandler /\ l \in Lease /\ l.epoch \in Nat /\ l.to \in Recipients
    BY Zenon, <1>1, BusyHandler
  <1>3. CASE l.epoch # epoch
    BY ZenonT(60), <1>3, HandlerStops DEF RenewEpoch, credentials
  <1>4. CASE l.epoch = epoch
    <2>1. l.via \in Invites /\ redeemedBy[l.via] = l.to
      BY ZenonT(60), <1>1, <1>2 DEF Knows
    <2>2. Mintable(l)
      BY SMTT(60), <1>1, <1>2, <1>4 DEF Knows, Mintable, CheckedEpoch, IInv, TypeOK
    <2>3. invites[l.via].st = "minted"
      BY Zenon, <1>2, <2>1, ConstantsAssumption DEF IInv, RedeemedIsMinted
    <2> QED
      BY ZenonT(60), <1>4, <2>1, <2>2, <2>3, MintPreserves DEF RenewEpoch, RepeatRedemption
  <1> QED
    BY ZenonT(60), <1>3, <1>4

-----------------------------------------------------------------------------
(* Time only makes stamps older.                                           *)
LEMMA TickPreserves == IInv /\ Tick => IInv'
  <1> SUFFICES ASSUME IInv, Tick PROVE IInv'
    OBVIOUS
  <1>u. /\ now' = now + 1
        /\ UNCHANGED <<h, invites, redeemedBy, relation, issued, epoch, revoked, seen,
                       staleAt, revokedAt>>
    BY ZenonT(60) DEF Tick, credentials, revocation
  <1>1. TypeOK'
    BY SMTT(60), <1>u DEF IInv, TypeOK
  <1>2. LeaseLifetime'
    BY <1>u DEF IInv, TypeOK, LeaseLifetime, Lease
  <1>3. \A x \in Handlers : Knows(h[x])'
    <2> SUFFICES ASSUME NEW x \in Handlers PROVE Knows(h[x])'
      BY ZenonT(60)
    <2>1. CASE h[x] = IdleHandler
      BY ZenonT(60), <1>u, <2>1 DEF Knows
    <2>2. CASE h[x] # IdleHandler
      <3>1. h[x].lease.iat \in Nat
        BY ZenonT(60), <2>2 DEF IInv, TypeOK, Handler, Lease
      <3> QED
        BY SMTT(60), <1>u, <3>1 DEF IInv, TypeOK, Knows, CheckedRevoked, CheckedEpoch
    <2> QED
      BY ZenonT(60), <2>1, <2>2
  <1>4. LeaseBacked' /\ RelationBacked' /\ NothingAheadOfEpoch'
    BY ZenonT(60), <1>u DEF IInv, LeaseBacked, RelationBacked, NothingAheadOfEpoch
  <1>5. RevocationWindow' /\ InviteRevocationWindow'
    BY Zenon, <1>u DEF IInv, RevocationWindow, InviteRevocationWindow
  <1>6. RedeemedIsMinted' /\ SeenIsPast'
    BY ZenonT(60), <1>u DEF IInv, RedeemedIsMinted, SeenIsPast
  <1> QED
    BY Zenon, <1>1, <1>2, <1>3, <1>4, <1>5, <1>6 DEF IInv

(* Minting an invite touches none that is already in use.                  *)
LEMMA SharePreserves ==
  ASSUME IInv, NEW i \in Invites, ShareEpoch(i) \/ ShareMint(i)
  PROVE  IInv'
  <1>1. PICK v \in Invite : /\ invites' = [invites EXCEPT ![i] = v]
                            /\ v.epoch <= epoch
                            /\ invites[i].st # "minted"
    <2>1. CASE ShareEpoch(i)
      <3>1. [st |-> "minting", epoch |-> epoch, exp |-> 0] \in Invite
        BY DEF IInv, TypeOK, Invite
      <3>2. epoch <= epoch
        BY DEF IInv, TypeOK
      <3> QED
        BY ZenonT(60), <2>1, <3>1, <3>2 DEF ShareEpoch
    <2>2. CASE ShareMint(i)
      <3>1. [st |-> "minted", epoch |-> invites[i].epoch,
             exp |-> now + InviteTTL] \in Invite
        BY SMTT(60), ConstantsAssumption DEF IInv, TypeOK, Invite
      <3>2. invites[i].epoch <= epoch
        BY Zenon DEF IInv, NothingAheadOfEpoch
      <3> QED
        BY ZenonT(60), <2>2, <3>1, <3>2 DEF ShareMint
    <2> QED
      BY ZenonT(60), <2>1, <2>2
  <1>2. UNCHANGED <<now, redeemedBy, relation, issued, h, epoch, revoked, seen,
                    staleAt, revokedAt>>
    BY Zenon DEF ShareEpoch, ShareMint, revocation
  <1>3. \A j \in Invites : /\ j # i => invites'[j] = invites[j]
                           /\ redeemedBy[j] # None => j # i
                           /\ invites[j].st = "minted" => j # i
    BY ZenonT(60), <1>1 DEF IInv, TypeOK, RedeemedIsMinted
  <1>4. TypeOK'
    BY ZenonT(60), <1>1, <1>2 DEF IInv, TypeOK
  <1>5. LeaseBacked'
    <2>1. \A l \in issued : redeemedBy[l.via] # None
      BY SMTT(60), ConstantsAssumption, <1>2 DEF IInv, TypeOK, LeaseBacked, Lease
    <2> QED
      BY Zenon, <1>2, <1>3, <2>1 DEF IInv, LeaseBacked
  <1>6. RelationBacked'
    BY SMTT(60), ConstantsAssumption, <1>2, <1>3 DEF IInv, RelationBacked
  <1>7. NothingAheadOfEpoch'
    BY ZenonT(60), <1>1, <1>2, <1>3 DEF IInv, TypeOK, NothingAheadOfEpoch
  <1>8. RevocationWindow' /\ InviteRevocationWindow' /\ LeaseLifetime' /\ SeenIsPast'
    BY ZenonT(60), <1>2 DEF IInv, RevocationWindow, InviteRevocationWindow, LeaseLifetime,
                SeenIsPast
  <1>9. RedeemedIsMinted'
    BY ZenonT(60), <1>2, <1>3 DEF IInv, RedeemedIsMinted
  <1>10. \A x \in Handlers : Knows(h[x])'
    <2> SUFFICES ASSUME NEW x \in Handlers PROVE Knows(h[x])'
      BY ZenonT(60)
    <2>1. Knows(h[x]) /\ (h[x].op # "idle" => h[x].lease.to \in Recipients)
      BY Zenon, BusyHandler DEF IInv
    <2> QED
      BY Zenon, ConstantsAssumption, <1>2, <1>3, <2>1
         DEF Knows, CheckedRevoked, CheckedEpoch, RedeemOps, RenewOps, OpenOps
  <1> QED
    BY Zenon, <1>4, <1>5, <1>6, <1>7, <1>8, <1>9, <1>10 DEF IInv

(* A revoke command that writes what it computed from its earlier read     *)
(* leaves the epoch alone or advances it by one, and stamps the end of the *)
(* epoch with the present, which no lease or handler is younger than.      *)
LEMMA RevokeStep ==
  ASSUME IInv, NEW k \in Revokers, RevokeWrite(k)
  PROVE  \/ epoch' = epoch /\ staleAt' = staleAt
         \/ epoch' = epoch + 1 /\ staleAt' = [staleAt EXCEPT ![epoch] = now]
  <1>1. seen[k] \in Nat /\ seen[k] <= epoch /\ epoch \in Nat
    BY SMTT(60) DEF IInv, TypeOK, SeenIsPast, RevokeWrite, NotReading
  <1> QED
    BY SMTT(60), <1>1 DEF RevokeWrite, Revoke

(* A revoke command raises the epoch from what it read, and touches no     *)
(* credential.                                                             *)
LEMMA RevokePreserves ==
  ASSUME IInv, NEW k \in Revokers, RevokeRead(k) \/ RevokeWrite(k)
  PROVE  IInv'
  <1>u. UNCHANGED <<now, h, invites, redeemedBy, relation, issued, revoked, revokedAt>>
    BY Zenon DEF RevokeRead, RevokeWrite, credentials
  <1>e. \/ epoch' = epoch /\ staleAt' = staleAt
        \/ epoch' = epoch + 1 /\ staleAt' = [staleAt EXCEPT ![epoch] = now]
    BY Zenon, RevokeStep DEF RevokeRead
  <1>t. /\ now \in Nat /\ epoch \in 0..MaxEpoch
        /\ staleAt \in [0..MaxEpoch -> Nat]
    BY ZenonT(60) DEF IInv, TypeOK
  <1>1. TypeOK'
    <2>1. epoch' \in 0..MaxEpoch
      BY SMTT(60), ConstantsAssumption, <1>u, <1>t DEF IInv, TypeOK,
             RevokeRead, RevokeWrite, Revoke, NotReading
    <2>2. staleAt' \in [0..MaxEpoch -> Nat]
      BY ZenonT(60), <1>e, <1>t
    <2>3. seen' \in [Revokers -> {NotReading} \cup 0..(MaxEpoch - 1)]
      BY SMTT(60), ConstantsAssumption, <1>u, <1>t DEF IInv, TypeOK, RevokeRead, RevokeWrite
    <2> QED
      BY ZenonT(60), <1>u, <2>1, <2>2, <2>3 DEF IInv, TypeOK
  <1>2. LeaseBacked' /\ RelationBacked' /\ InviteRevocationWindow'
          /\ LeaseLifetime' /\ RedeemedIsMinted'
    BY Zenon, <1>u DEF IInv, LeaseBacked, RelationBacked, InviteRevocationWindow,
                LeaseLifetime, RedeemedIsMinted
  <1>3. NothingAheadOfEpoch'
    BY SMTT(60), <1>u, <1>e, <1>t DEF IInv, TypeOK, NothingAheadOfEpoch,
           Lease, Relation, Invite
  <1>4. SeenIsPast'
    <2> SUFFICES ASSUME NEW j \in Revokers PROVE seen'[j] <= epoch'
      BY Zenon DEF SeenIsPast
    <2>1. seen'[j] \in {seen[j], epoch, NotReading}
      BY Zenon DEF IInv, TypeOK, RevokeRead, RevokeWrite
    <2>2. seen[j] \in {NotReading} \cup 0..(MaxEpoch - 1) /\ seen[j] <= epoch
      BY Zenon DEF IInv, TypeOK, SeenIsPast
    <2>3. epoch' \in Nat /\ epoch <= epoch'
      BY <1>e, <1>t
    <2> QED
      BY SMTT(60), <1>t, <2>1, <2>2, <2>3 DEF NotReading
  <1>5. RevocationWindow'
    <2> SUFFICES ASSUME NEW l \in issued, l.epoch < epoch'
                 PROVE  l.exp <= staleAt'[l.epoch] + LeaseTTL
      BY Zenon, <1>u DEF RevocationWindow
    <2>1. l.epoch \in Nat /\ l.iat \in Nat /\ l.exp \in Nat
      BY Zenon DEF IInv, TypeOK, Lease
    <2>2. CASE l.epoch < epoch
      <3>1. staleAt'[l.epoch] = staleAt[l.epoch]
        BY SMTT(60), ConstantsAssumption, <1>u, <1>e, <1>t, <2>1, <2>2
      <3> QED
        BY Zenon, <2>2, <3>1 DEF IInv, RevocationWindow
    <2>3. CASE ~(l.epoch < epoch)
      <3>1. l.epoch = epoch /\ staleAt'[l.epoch] = now
        BY SMTT(60), ConstantsAssumption, <1>u, <1>e, <1>t, <2>1, <2>3
      <3> QED
        BY SMTT(60), ConstantsAssumption, <1>u, <1>t, <2>1, <3>1 DEF IInv, LeaseLifetime
    <2> QED
      BY ZenonT(60), <2>2, <2>3
  <1>6. \A x \in Handlers : Knows(h[x])'
    <2> SUFFICES ASSUME NEW x \in Handlers PROVE Knows(h[x])'
      BY ZenonT(60)
    <2>1. CASE h[x] = IdleHandler
      BY ZenonT(60), <1>u, <2>1 DEF Knows
    <2>2. CASE h[x] # IdleHandler
      <3> DEFINE l == h[x].lease
      <3>0. Knows(h[x])
        BY ZenonT(60) DEF IInv
      <3>1. l.epoch \in Nat /\ l.iat \in Nat /\ l.iat <= now
        BY ZenonT(60), <2>2, <3>0 DEF IInv, TypeOK, Handler, Lease, Knows
      <3>2. CheckedEpoch(l) => CheckedEpoch(l)'
        <4> SUFFICES ASSUME CheckedEpoch(l), l.epoch < epoch'
                     PROVE  l.iat <= staleAt'[l.epoch]
          BY ZenonT(60), <1>u DEF CheckedEpoch
        <4>1. CASE l.epoch < epoch
          <5>1. staleAt'[l.epoch] = staleAt[l.epoch]
            BY SMTT(60), ConstantsAssumption, <1>u, <1>e, <1>t, <3>1, <4>1
          <5> QED
            BY ZenonT(60), <4>1, <5>1 DEF CheckedEpoch
        <4>2. CASE ~(l.epoch < epoch)
          <5>1. staleAt'[l.epoch] = now
            BY SMTT(60), ConstantsAssumption, <1>u, <1>e, <1>t, <3>1, <4>2
          <5> QED
            BY Zenon, <3>1, <5>1
        <4> QED
          BY ZenonT(60), <4>1, <4>2
      <3> QED
        BY Zenon, <1>u, <3>0, <3>2 DEF Knows, CheckedRevoked
    <2> QED
      BY ZenonT(60), <2>1, <2>2
  <1> QED
    BY Zenon, <1>1, <1>2, <1>3, <1>4, <1>5, <1>6 DEF IInv

(* Likewise for the revocation of one invite.                              *)
LEMMA RevokeInvitePreserves ==
  ASSUME IInv, NEW i \in Invites, RevokeInvite(i)
  PROVE  IInv'
  <1>u. /\ revoked' = revoked \cup {i}
        /\ revokedAt' = [revokedAt EXCEPT ![i] = now]
        /\ UNCHANGED <<now, h, invites, redeemedBy, relation, issued, epoch, seen, staleAt>>
    BY Zenon DEF RevokeInvite, credentials
  <1>t. now \in Nat /\ revokedAt \in [Invites -> Nat]
    BY ZenonT(60) DEF IInv, TypeOK
  <1>1. TypeOK'
    BY ZenonT(60), <1>u DEF IInv, TypeOK
  <1>2. LeaseBacked' /\ RelationBacked' /\ NothingAheadOfEpoch'
          /\ RevocationWindow' /\ LeaseLifetime' /\ RedeemedIsMinted' /\ SeenIsPast'
    BY ZenonT(60), <1>u DEF IInv, LeaseBacked, RelationBacked, NothingAheadOfEpoch,
           RevocationWindow, LeaseLifetime, RedeemedIsMinted, SeenIsPast
  <1>3. InviteRevocationWindow'
    <2> SUFFICES ASSUME NEW l \in issued, l.via \in revoked'
                 PROVE  l.exp <= revokedAt'[l.via] + LeaseTTL
      BY ZenonT(60), <1>u DEF InviteRevocationWindow
    <2>1. l.iat \in Nat /\ l.exp \in Nat /\ l.via \in Invites
      BY ZenonT(60) DEF IInv, TypeOK, Lease, LeaseBacked
    <2>2. CASE l.via = i
      BY SMTT(60), ConstantsAssumption, <1>u, <1>t, <2>1, <2>2 DEF IInv, LeaseLifetime
    <2>3. CASE l.via # i
      BY ZenonT(60), <1>u, <1>t, <2>1, <2>3 DEF IInv, InviteRevocationWindow
    <2> QED
      BY ZenonT(60), <2>2, <2>3
  <1>4. \A x \in Handlers : Knows(h[x])'
    <2> SUFFICES ASSUME NEW x \in Handlers PROVE Knows(h[x])'
      BY ZenonT(60)
    <2>1. CASE h[x] = IdleHandler
      BY ZenonT(60), <1>u, <2>1 DEF Knows
    <2>2. CASE h[x] # IdleHandler
      <3> DEFINE l == h[x].lease
      <3>0. Knows(h[x])
        BY ZenonT(60) DEF IInv
      <3>1. l.via \in Invites \cup {None} /\ l.iat \in Nat /\ l.iat <= now
        BY ZenonT(60), <2>2, <3>0 DEF IInv, TypeOK, Handler, Lease, Knows
      <3>2. CheckedRevoked(l) => CheckedRevoked(l)'
        BY <1>u, <1>t, <3>1 DEF CheckedRevoked
      <3> QED
        BY ZenonT(60), <1>u, <3>0, <3>2 DEF Knows, CheckedEpoch
    <2> QED
      BY ZenonT(60), <2>1, <2>2
  <1> QED
    BY ZenonT(60), <1>1, <1>2, <1>3, <1>4 DEF IInv

-----------------------------------------------------------------------------
(* IInv is inductive.                                                      *)
LEMMA NextPreserves == IInv /\ [Next]_vars => IInv'
  <1> SUFFICES ASSUME IInv, [Next]_vars PROVE IInv'
    OBVIOUS
  <1>1. CASE Tick
    BY Zenon, <1>1, TickPreserves
  <1>2. CASE Owner
    BY Zenon, <1>2, SharePreserves, RevokePreserves, RevokeInvitePreserves DEF Owner
  <1>3. ASSUME NEW x \in Handlers, Requests(x) PROVE IInv'
    BY ZenonT(60), <1>3, StartsPreserve
  <1>4. ASSUME NEW x \in Handlers, Step(x) PROVE IInv'
    BY Zenon, <1>4, ReadsPreserve, RedeemCommitPreserves, RenewEpochPreserves,
       HandlerStops DEF Step, ExpireSession
  <1>5. ASSUME NEW x \in Handlers, Finish(x) \/ Abort(x) PROVE IInv'
    BY ZenonT(60), <1>5, HandlerStops DEF Finish, Abort
  <1>6. CASE UNCHANGED vars
    BY ZenonT(60), <1>6 DEF vars, IInv, TypeOK, LeaseBacked, RelationBacked,
       NothingAheadOfEpoch, RevocationWindow, InviteRevocationWindow,
       LeaseLifetime, RedeemedIsMinted, SeenIsPast, Knows, CheckedRevoked,
       CheckedEpoch
  <1> QED
    BY Zenon, <1>1, <1>2, <1>3, <1>4, <1>5, <1>6 DEF Next

(* The invariant on which all the results below rest.                      *)
THEOREM Inductive == Spec => []IInv
  BY InitIInv, NextPreserves, PTL DEF Spec

(* Type correctness of the owner side.                                     *)
THEOREM TypeCorrect == Spec => []TypeOK
  <1>1. IInv => TypeOK
    BY Zenon DEF IInv
  <1> QED
    BY <1>1, Inductive, PTL

(* One invite, one recipient: redemptions (RedeemInviteAndAccept) and      *)
(* renewals only ever mint leases for the recipient that won the invite,   *)
(* and the accepted relationship names such an invite.                     *)
THEOREM OneInviteOneRecipient == Spec => []OneRecipient
  <1>1. IInv => OneRecipient
    BY Zenon DEF IInv, OneRecipient
  <1> QED
    BY <1>1, Inductive, PTL

(* Bounded revocation: after `revoke pipe-access` (`revoke invite`) takes  *)
(* effect, every lease of the revoked epoch (resting on the revoked        *)
(* invite) is expired within one lease lifetime, although the handlers     *)
(* that mint check and act in separate steps.                              *)
THEOREM BoundedRevocation == Spec => []RevocationBound
  <1>1. IInv => RevocationBound
    BY Zenon DEF IInv, RevocationBound
  <1> QED
    BY <1>1, Inductive, PTL

(* No invite, relationship or lease is ahead of the stored epoch.          *)
THEOREM NeverAhead == Spec => []NothingAheadOfEpoch
  <1>1. IInv => NothingAheadOfEpoch
    BY Zenon DEF IInv
  <1> QED
    BY <1>1, Inductive, PTL

-----------------------------------------------------------------------------
(* The epoch written by the revoke command never rolls back or skips.      *)
THEOREM EpochMonotone == Spec => EpochAdvancesByOne
  <1>1. IInv /\ [Next]_vars => [epoch' \in {epoch, epoch + 1}]_vars
    <2> SUFFICES ASSUME IInv, Next PROVE epoch' \in {epoch, epoch + 1}
      OBVIOUS
    <2>1. ASSUME NEW k \in Revokers, RevokeWrite(k)
          PROVE  epoch' \in {epoch, epoch + 1}
      BY Zenon, <2>1, RevokeStep
    <2>2. CASE ~ \E k \in Revokers : RevokeWrite(k)
      BY ZenonT(60), <2>2 DEF Next, Tick, Owner, ShareEpoch, ShareMint, RevokeInvite,
             RevokeRead,
         Requests, StartRedeem, StartRenew, StartOpen, Step, RedeemRevoked,
         RedeemEpoch, RedeemCommit, RenewAccepted, RenewRevoked, RenewEpoch,
         OpenEpoch, OpenSession, ExpireSession, Finish, Abort, revocation
    <2> QED
      BY ZenonT(60), <2>1, <2>2
  <1> QED
    BY <1>1, Inductive, PTL DEF EpochAdvancesByOne, Spec

(* AuthorizeOpen admits a lease only at its own epoch, although it only    *)
(* tests `currentEpoch > lease.AccessEpoch`.                               *)
THEOREM OpensAreFenced == Spec => OpenFence
  <1> DEFINE Fenced == \A x \in Handlers :
               h[x].op = "open_epoch" /\ h'[x].op = "open_dial"
                 => h[x].lease.epoch = epoch
  <1>1. IInv /\ [Next]_vars => [Fenced]_vars
    <2> SUFFICES ASSUME IInv, Next, NEW x \in Handlers,
                        h[x].op = "open_epoch", h'[x].op = "open_dial"
                 PROVE  h[x].lease.epoch = epoch
      BY ZenonT(60)
    <2>1. h[x].lease \in issued /\ h[x].lease.epoch \in Nat /\ epoch \in Nat
      <3>1. TypeOK /\ Knows(h[x])
        BY ZenonT(60) DEF IInv
      <3>2. /\ h[x] # IdleHandler
            /\ h[x].lease \in Lease
        BY ZenonT(60), <3>1, BusyHandler DEF BusyOps, OpenOps
      <3>3. h[x].lease \in issued
        BY Zenon, <3>1, <3>2 DEF Knows, OpenOps
      <3> QED
        BY SMTT(60), <3>1, <3>2, <3>3 DEF TypeOK, Lease
    <2>2. h[x].lease.epoch <= epoch
      BY ZenonT(60), <2>1 DEF IInv, NothingAheadOfEpoch
    <2>3. OpenEpoch(x)
      <3>1. h \in [Handlers -> Handler] /\ h'[x] # h[x]
        BY ZenonT(60) DEF IInv, TypeOK
      <3>2. PICK y \in Handlers : Requests(y) \/ Step(y) \/ Finish(y) \/ Abort(y)
        BY ZenonT(60), <3>1 DEF Next, Tick, Owner, ShareEpoch, ShareMint, RevokeInvite,
           RevokeRead, RevokeWrite
      <3>3. \E w : h' = [h EXCEPT ![y] = w]
        BY Zenon, <3>2 DEF Requests, StartRedeem, StartRenew, StartOpen, Step,
           RedeemRevoked, RedeemEpoch, RedeemCommit, RenewAccepted, RenewRevoked,
           RenewEpoch, OpenEpoch, OpenSession, ExpireSession, Finish, Abort,
           Becomes, Deny
      <3>4. y = x
        BY Zenon, <3>1, <3>3
      <3>5. ~Deny(x)
        BY ZenonT(60), <3>1, IdleIsNotBusy DEF Deny
      <3> QED
        BY ZenonT(60), <3>2, <3>4, <3>5, IdleIsNotBusy DEF Requests, StartRedeem, StartRenew,
           StartOpen, Step, RedeemRevoked, RedeemEpoch, RedeemCommit, RenewAccepted,
           RenewRevoked, RenewEpoch, OpenSession, ExpireSession, Finish, Abort
    <2>4. ~(epoch > h[x].lease.epoch)
      BY Zenon, <2>3, IdleIsNotBusy DEF OpenEpoch, Deny, IInv, TypeOK
    <2> QED
      BY SMTT(60), <2>1, <2>2, <2>4
  <1> QED
    BY <1>1, Inductive, PTL DEF OpenFence, Spec

(* Only a first redemption by the recipient itself changes its accepted    *)
(* relationship, and the winner of an invite never changes.                *)
THEOREM Reacceptance == Spec => ReacceptOnlyByFirstRedemption
  <1> DEFINE Only ==
        /\ \A i \in Invites : redeemedBy[i] # None
                                => redeemedBy'[i] = redeemedBy[i]
        /\ \A r \in Recipients : relation'[r] # relation[r] =>
             \E i \in Invites : /\ redeemedBy[i] = None
                                /\ redeemedBy'[i] = r
                                /\ relation'[r].via = i
  <1>1. IInv /\ [Next]_vars => [Only]_vars
    <2> SUFFICES ASSUME IInv, Next PROVE Only
      OBVIOUS
    <2>1. CASE UNCHANGED <<redeemedBy, relation>>
      BY ZenonT(60), <2>1
    <2>2. ASSUME NEW x \in Handlers, RedeemCommit(x), FirstRedemption(h[x].lease)
          PROVE  Only
      <3>1. h[x].lease.via \in Invites /\ h[x].lease.to \in Recipients
        BY ZenonT(60), <2>2, BusyHandler DEF RedeemCommit, IInv, Knows, RedeemOps
      <3> QED
        BY ZenonT(60), <2>2, <3>1 DEF FirstRedemption, IInv, TypeOK
    <2>3. CASE ~ UNCHANGED <<redeemedBy, relation>>
      <3>1. PICK x \in Handlers : RedeemCommit(x)
        BY ZenonT(60), <2>3 DEF Next, Tick, Owner, ShareEpoch, ShareMint, RevokeInvite,
           RevokeRead, RevokeWrite, Requests, StartRedeem, StartRenew, StartOpen,
           Step, RedeemRevoked, RedeemEpoch, RenewAccepted, RenewRevoked,
           RenewEpoch, OpenEpoch, OpenSession, ExpireSession, Finish, Abort,
           credentials
      <3> QED
        BY ZenonT(60), <2>2, <2>3, <3>1 DEF RedeemCommit, RepeatRedemption
    <2> QED
      BY Zenon, <2>1, <2>3
  <1> QED
    BY <1>1, Inductive, PTL DEF ReacceptOnlyByFirstRedemption, Spec

-----------------------------------------------------------------------------
(* The clients.                                                            *)
(* Whoever redeemed an invite has an accepted relationship.                *)
RedeemedIsRelated ==
    \A i \in Invites : redeemedBy[i] # None => relation[redeemedBy[i]] # NoRelation

(* What a client at a stage can rely on: past the binding write, a durable *)
(* binding; while it holds a lease, one that the owner issued to it.       *)
Entitled(v, bound, leases) ==
    v # IdleClient =>
      /\ v.pc \notin {"redeeming", "bind"} => bound[v.r]
      /\ v.pc \in {"bind", "cache", "recache", "open"} =>
           v.lease \in leases /\ v.lease.to = v.r

(* The handler a client waits for works for the client's recipient.        *)
Attended(v, w) ==
    v.pc \in Waiting /\ w # IdleHandler => w.lease.to = v.r

AccessInv ==
    /\ IInv
    /\ RedeemedIsRelated
    /\ BindingIsAccepted
    /\ CacheUnderBinding
    /\ \A c \in Handlers : Entitled(cl[c], binding, issued) /\ Attended(cl[c], h[c])

(* No client has a binding or a lease to begin with.                       *)
LEMMA AccessStarts == AccessInit => AccessInv
  <1> SUFFICES ASSUME AccessInit PROVE AccessInv
    OBVIOUS
  <1>1. IInv
    BY Zenon, InitIInv DEF AccessInit
  <1>2. RedeemedIsRelated /\ BindingIsAccepted
    BY Zenon DEF AccessInit, Init, RedeemedIsRelated, BindingIsAccepted
  <1>3. CacheUnderBinding
    BY AccessAssumption DEF AccessInit, CacheUnderBinding, AccessTypeOK
  <1>4. \A c \in Handlers : cl[c] = IdleClient /\ h[c] = IdleHandler
    BY Zenon DEF AccessInit, Init
  <1> QED
    BY Zenon, <1>1, <1>2, <1>3, <1>4 DEF AccessInv, Entitled, Attended

-----------------------------------------------------------------------------
(* The owner's steps, as its consumers rely on them.                       *)

(* A relationship, once accepted, may be renewed but never goes away, and  *)
(* neither does a lease.                                                   *)
LEMMA OwnerKeeps ==
  ASSUME IInv, RedeemedIsRelated, [Next]_vars
  PROVE  /\ issued \subseteq issued'
         /\ RedeemedIsRelated'
         /\ \A r \in Recipients : relation[r] # NoRelation => relation'[r] # NoRelation
  <1>1. CASE UNCHANGED <<redeemedBy, relation, issued>>
    BY Zenon, <1>1 DEF RedeemedIsRelated
  <1>2. ASSUME NEW x \in Handlers, RenewEpoch(x)
        PROVE  UNCHANGED <<redeemedBy, relation>> /\ issued \subseteq issued'
    BY Zenon, <1>2 DEF RenewEpoch
  <1>3. ASSUME NEW x \in Handlers, RedeemCommit(x)
        PROVE  /\ issued \subseteq issued'
               /\ \/ UNCHANGED <<redeemedBy, relation>>
                  \/ FirstRedemption(h[x].lease)
    BY Zenon, <1>3 DEF RedeemCommit, RepeatRedemption
  <1>4. ASSUME NEW x \in Handlers, RedeemCommit(x), FirstRedemption(h[x].lease)
        PROVE  /\ RedeemedIsRelated'
               /\ \A r \in Recipients : relation[r] # NoRelation => relation'[r] # NoRelation
    <2> DEFINE l == h[x].lease
    <2>1. l.via \in Invites /\ l.to \in Recipients
      BY Zenon, <1>4, BusyHandler DEF RedeemCommit, IInv, Knows, RedeemOps
    <2>2. [via |-> l.via, epoch |-> l.epoch] # NoRelation
      <3>1. [via |-> l.via, epoch |-> l.epoch].via # NoRelation.via
        BY Zenon, <2>1, ConstantsAssumption DEF NoRelation
      <3> QED
        BY ONLY <3>1
    <2>3. /\ redeemedBy \in [Invites -> Recipients \cup {None}]
          /\ relation \in [Recipients -> Relation]
      BY Zenon DEF IInv, TypeOK
    <2>4. /\ redeemedBy' = [redeemedBy EXCEPT ![l.via] = l.to]
          /\ relation' = [relation EXCEPT ![l.to] = [via |-> l.via, epoch |-> l.epoch]]
      BY Zenon, <1>4 DEF FirstRedemption
    <2> HIDE DEF l
    <2>5. \A r \in Recipients : r = l.to \/ relation'[r] = relation[r]
      BY Zenon, <2>3, <2>4
    <2>6. relation'[l.to] # NoRelation
      BY Zenon, <2>1, <2>2, <2>3, <2>4
    <2>7. \A i \in Invites : i = l.via \/ redeemedBy'[i] = redeemedBy[i]
      BY Zenon, <2>3, <2>4
    <2>8. redeemedBy'[l.via] = l.to
      BY Zenon, <2>1, <2>3, <2>4
    <2> QED
      BY Zenon, <2>1, <2>3, <2>5, <2>6, <2>7, <2>8 DEF RedeemedIsRelated
  <1>5. \/ UNCHANGED <<redeemedBy, relation, issued>>
        \/ \E x \in Handlers : RenewEpoch(x) \/ RedeemCommit(x)
    BY ZenonT(60) DEF Next, Tick, Owner, ShareEpoch, ShareMint, RevokeInvite,
           RevokeRead, RevokeWrite, Requests, StartRedeem, StartRenew, StartOpen,
           Step, RedeemRevoked, RedeemEpoch, RenewAccepted, RenewRevoked,
           OpenEpoch, OpenSession, ExpireSession, Finish, Abort, credentials, vars
  <1> QED
    BY Zenon, <1>1, <1>2, <1>3, <1>4, <1>5 DEF RedeemedIsRelated

(* A handler works for one recipient until it is idle again, and its steps *)
(* leave the other handlers alone.                                         *)
LEMMA StepKeepsRecipient ==
  ASSUME IInv, NEW x \in Handlers, Step(x)
  PROVE  /\ h'[x] = IdleHandler \/ h'[x].lease.to = h[x].lease.to
         /\ h[x] # IdleHandler
         /\ \A y \in Handlers \ {x} : h'[y] = h[y]
  <1>1. h \in [Handlers -> Handler] /\ h[x].op # "idle"
    BY ZenonT(60) DEF IInv, TypeOK, Step, RedeemRevoked, RedeemEpoch, RedeemCommit, RenewAccepted,
           RenewRevoked, RenewEpoch, OpenEpoch, OpenSession, ExpireSession
  <1>2. \/ h' = [h EXCEPT ![x] = IdleHandler]
        \/ \E op, l : h' = [h EXCEPT ![x] = [op |-> op, lease |-> l]] /\ l.to = h[x].lease.to
    <2>1. CASE RedeemRevoked(x) \/ RedeemEpoch(x)
      BY ZenonT(60), <2>1 DEF RedeemRevoked, RedeemEpoch, Becomes, Deny
    <2>2. CASE RedeemCommit(x)
      BY ZenonT(60), <2>2 DEF RedeemCommit, Becomes, Deny
    <2>3. CASE RenewAccepted(x)
      BY <2>3 DEF RenewAccepted, Becomes, Deny
    <2>4. CASE RenewRevoked(x) \/ RenewEpoch(x)
      BY ZenonT(60), <2>4 DEF RenewRevoked, RenewEpoch, Becomes, Deny
    <2>5. CASE OpenEpoch(x) \/ OpenSession(x) \/ ExpireSession(x)
      BY ZenonT(60), <2>5 DEF OpenEpoch, OpenSession, ExpireSession, Becomes, Deny
    <2> QED
      BY Zenon, <2>1, <2>2, <2>3, <2>4, <2>5 DEF Step
  <1> QED
    BY <1>1, <1>2, IdleIsNotBusy

-----------------------------------------------------------------------------
(* Every step of the composed system is a step of the owner's              *)
(* specification, or invisible to the owner.  It takes the invariant: an   *)
(* open presents a lease from the cache or from a reply, and the owner's   *)
(* specification allows only issued leases.                                *)
LEMMA AccessStepsAreOwners ==
  ASSUME AccessInv, [AccessNext]_accessVars
  PROVE  [Next]_vars
  <1>1. CASE UNCHANGED accessVars
    BY Zenon, <1>1 DEF accessVars
  <1>2. CASE (Tick \/ Owner) /\ UNCHANGED consumer
    BY Zenon, <1>2 DEF Next
  <1>3. ASSUME NEW c \in Handlers, Step(c) PROVE Next
    BY Zenon, <1>3 DEF Next
  <1>4. ASSUME NEW c \in Handlers, NEW r \in Recipients, Connect(c, r) PROVE UNCHANGED vars
    BY Zenon, <1>4 DEF Connect
  <1>5. ASSUME NEW c \in Handlers, NEW r \in Recipients, NEW i \in Invites, StartAccept(c, r, i)
        PROVE  Next
    BY Zenon, <1>5 DEF StartAccept, Next, Requests
  <1>6. ASSUME NEW c \in Handlers, ClientStep(c) PROVE [Next]_vars
    <2>1. ASSUME NEW pc, Receives(c, pc) PROVE Next
      BY Zenon, <2>1 DEF Receives, Next
    <2>2. CASE SendRenew(c)
      <3>1. cl[c].r \in Recipients
        <4>1. cl[c] \in Client \cup {IdleClient} /\ cl[c].pc = "renew"
          BY Zenon, <2>2 DEF SendRenew, AccessInv, CacheUnderBinding, AccessTypeOK
        <4> QED
          BY <4>1 DEF Client, IdleClient
      <3> QED
        BY Zenon, <2>2, <3>1 DEF SendRenew, Next, Requests
    <2>3. CASE SendOpen(c)
      <3>1. cl[c].lease \in issued
        <4>1. cl[c].pc = "open" /\ Entitled(cl[c], binding, issued)
          BY Zenon, <2>3 DEF SendOpen, AccessInv
        <4>2. cl[c] # IdleClient
          BY <4>1 DEF IdleClient
        <4> QED
          BY Zenon, <4>1, <4>2 DEF Entitled
      <3> QED
        BY ZenonT(60), <2>3, <3>1 DEF SendOpen, Next, Requests
    <2> QED
      BY Zenon, <1>6, <2>1, <2>2, <2>3 DEF ClientStep, AcceptReply, PutBinding, PutCache,
         DropExpired, RenewReply, PutRenewed, Refused
  <1>7. ASSUME NEW c \in Handlers, CloseSession(c) \/ Abandon(c) \/ HangUp(c) \/ Break(c)
        PROVE  [Next]_vars
    BY Zenon, <1>7 DEF CloseSession, Abandon, HangUp, Break, Next
  <1> QED
    BY Zenon, <1>1, <1>2, <1>3, <1>4, <1>5, <1>6, <1>7 DEF AccessNext

(* The owner's side of the invariant.                                      *)
LEMMA OwnerSide ==
  ASSUME AccessInv, [AccessNext]_accessVars
  PROVE  /\ IInv' /\ RedeemedIsRelated'
         /\ issued \subseteq issued'
         /\ \A r \in Recipients : relation[r] # NoRelation => relation'[r] # NoRelation
  BY Zenon, AccessStepsAreOwners, NextPreserves, OwnerKeeps DEF AccessInv

-----------------------------------------------------------------------------
(* A client that is entitled to what it does, and attended to, stays so    *)
(* while only others move.                                                 *)
LEMMA ClientMoves ==
  ASSUME AccessInv, [AccessNext]_accessVars,
         NEW c \in Handlers, NEW v \in Client \cup {IdleClient},
         cl' = [cl EXCEPT ![c] = v],
         Entitled(v, binding', issued'), Attended(v, h'[c]),
         \A d \in Handlers \ {c} : h'[d] = h[d],
         binding' \in [Recipients -> BOOLEAN],
         \A r \in Recipients : binding[r] => binding'[r]
  PROVE  /\ cl' \in [Handlers -> Client \cup {IdleClient}]
         /\ \A d \in Handlers : (Entitled(cl[d], binding, issued) /\ Attended(cl[d], h[d]))'
  <1>1. cl \in [Handlers -> Client \cup {IdleClient}]
    BY Zenon DEF AccessInv, CacheUnderBinding, AccessTypeOK
  <1>2. cl' \in [Handlers -> Client \cup {IdleClient}]
    BY Zenon, <1>1
  <1>3. cl'[c] = v /\ \A d \in Handlers \ {c} : cl'[d] = cl[d]
    BY Zenon, <1>1
  <1>4. ASSUME NEW d \in Handlers \ {c}
        PROVE  Entitled(cl[d], binding, issued)' /\ Attended(cl[d], h[d])'
    <2>1. Entitled(cl[d], binding, issued) /\ Attended(cl[d], h[d])
      BY Zenon DEF AccessInv
    <2>2. cl[d] # IdleClient => cl[d].r \in Recipients
      BY Zenon, <1>1 DEF Client
    <2>3. issued \subseteq issued'
      BY Zenon, OwnerSide
    <2>4. cl'[d] = cl[d] /\ h'[d] = h[d]
      BY Zenon, <1>3
    <2> QED
      BY Zenon, <2>1, <2>2, <2>3, <2>4 DEF Entitled, Attended
  <1>5. Entitled(cl[c], binding, issued)' /\ Attended(cl[c], h[c])'
    BY Zenon, <1>3 DEF Entitled, Attended
  <1> QED
    BY Zenon, <1>2, <1>4, <1>5

(* It is enough to look at the consumer's own rows.                        *)
LEMMA ConsumerSide ==
  ASSUME AccessInv, [AccessNext]_accessVars,
         cl' \in [Handlers -> Client \cup {IdleClient}],
         \A d \in Handlers : (Entitled(cl[d], binding, issued) /\ Attended(cl[d], h[d]))',
         binding' \in [Recipients -> BOOLEAN],
         cache' \in [Recipients -> Lease \cup {NoLease}],
         faults' \in 0..MaxFaults,
         \A r \in Recipients : binding'[r] => binding[r] \/ relation'[r] # NoRelation,
         \A r \in Recipients : cache'[r] # NoLease =>
            binding'[r] /\ cache'[r] \in issued' /\ cache'[r].to = r
  PROVE  AccessInv'
  <1>1. CacheUnderBinding'
    BY Zenon DEF CacheUnderBinding, AccessTypeOK
  <1>2. BindingIsAccepted'
    BY Zenon, OwnerSide DEF AccessInv, BindingIsAccepted
  <1> QED
    BY Zenon, OwnerSide, <1>1, <1>2 DEF AccessInv

(* A client's step that leaves the rows alone.                             *)
LEMMA RowsStay ==
  ASSUME AccessInv, [AccessNext]_accessVars,
         cl' \in [Handlers -> Client \cup {IdleClient}],
         \A d \in Handlers : (Entitled(cl[d], binding, issued) /\ Attended(cl[d], h[d]))',
         UNCHANGED <<binding, cache>>, faults' \in 0..MaxFaults
  PROVE  AccessInv'
  <1>1. /\ binding \in [Recipients -> BOOLEAN]
        /\ cache \in [Recipients -> Lease \cup {NoLease}]
        /\ \A r \in Recipients : cache[r] # NoLease =>
             binding[r] /\ cache[r] \in issued /\ cache[r].to = r
    BY Zenon DEF AccessInv, CacheUnderBinding, AccessTypeOK
  <1>2. issued \subseteq issued'
    BY Zenon, OwnerSide
  <1> QED
    BY Zenon, <1>1, <1>2, ConsumerSide

(* A client that returns, and whose handler does anything.                 *)
LEMMA ClientReturns ==
  ASSUME AccessInv, [AccessNext]_accessVars, NEW c \in Handlers, Returns(c),
         \A d \in Handlers \ {c} : h'[d] = h[d],
         UNCHANGED <<binding, cache>>, faults' \in 0..MaxFaults
  PROVE  AccessInv'
  <1>1. binding' \in [Recipients -> BOOLEAN] /\ \A r \in Recipients : binding[r] => binding'[r]
    BY Zenon DEF AccessInv, CacheUnderBinding, AccessTypeOK
  <1>2. Entitled(IdleClient, binding', issued') /\ Attended(IdleClient, h'[c])
    BY Zenon DEF Entitled, Attended, IdleClient, Waiting
  <1>3. cl' = [cl EXCEPT ![c] = IdleClient]
    BY Zenon DEF Returns
  <1> QED
    BY ZenonT(60), <1>1, <1>2, <1>3, ClientMoves, RowsStay

(* What is known of a client that is at work.                              *)
LEMMA AtWork ==
  ASSUME AccessInv, NEW c \in Handlers, cl[c].pc # "idle"
  PROVE  /\ cl[c] \in Client /\ cl[c] # IdleClient
         /\ cl[c].r \in Recipients /\ cl[c].lease \in Lease \cup {NoLease}
         /\ cl[c].again \in BOOLEAN
         /\ Entitled(cl[c], binding, issued) /\ Attended(cl[c], h[c])
  BY DEF AccessInv, CacheUnderBinding, AccessTypeOK, Client, IdleClient

(* The other handlers stay, and failures are counted.                      *)
LEMMA Others ==
  ASSUME AccessInv, NEW c \in Handlers
  PROVE  /\ UNCHANGED vars => \A d \in Handlers : h'[d] = h[d]
         /\ Finish(c) \/ Abort(c) =>
              h'[c] = IdleHandler /\ \A d \in Handlers \ {c} : h'[d] = h[d]
         /\ faults \in 0..MaxFaults
         /\ NoFault \/ Fault \/ UNCHANGED faults => faults' \in 0..MaxFaults
  <1>1. h \in [Handlers -> Handler] /\ faults \in 0..MaxFaults
    BY Zenon DEF AccessInv, IInv, TypeOK, CacheUnderBinding, AccessTypeOK
  <1>2. NoFault \/ Fault \/ UNCHANGED faults => faults' \in 0..MaxFaults
    BY <1>1, AccessAssumption DEF NoFault, Fault
  <1>3. Finish(c) \/ Abort(c) =>
           h'[c] = IdleHandler /\ \A d \in Handlers \ {c} : h'[d] = h[d]
    BY Zenon, <1>1 DEF Finish, Abort, Deny
  <1> QED
    BY Zenon, <1>1, <1>2, <1>3 DEF vars

-----------------------------------------------------------------------------
(* The steps of the clients, one by one.                                   *)

(* The answer to a redemption or a renewal: the lease is the one the       *)
(* handler issued to this recipient.                                       *)
LEMMA ReceivesPreserve ==
  ASSUME AccessInv, [AccessNext]_accessVars, NEW c \in Handlers,
         \/ cl[c].pc = "redeeming" /\ Receives(c, "bind")
         \/ cl[c].pc = "renewing" /\ Receives(c, "recache")
  PROVE  AccessInv'
  <1> DEFINE l == h[c].lease
             pc == IF cl[c].pc = "redeeming" THEN "bind" ELSE "recache"
             v == [cl[c] EXCEPT !.pc = pc, !.lease = l]
  <1>1. Receives(c, pc) /\ cl[c].pc \in Waiting
    BY Zenon DEF Waiting
  <1>2. /\ Finish(c) /\ UNCHANGED <<binding, cache>> /\ NoFault
        /\ h[c].op = "replied"
        /\ Returns(c) \/ MovesWith(c, pc, l)
    BY Zenon, <1>1 DEF Receives
  <1>3. CASE Returns(c)
    BY Zenon, <1>2, <1>3, Others, ClientReturns
  <1>4. CASE MovesWith(c, pc, l)
    <2>1. /\ cl[c] \in Client /\ cl[c] # IdleClient
          /\ cl[c].r \in Recipients /\ cl[c].again \in BOOLEAN
          /\ Entitled(cl[c], binding, issued) /\ Attended(cl[c], h[c])
      BY Zenon, <1>1, AtWork DEF Waiting
    <2>2. TypeOK /\ Knows(h[c])
      BY Zenon DEF AccessInv, IInv
    <2>3. h[c] # IdleHandler /\ l \in Lease
      BY Zenon, <1>2, <2>2, BusyHandler
    <2>4. l \in issued /\ l.to = cl[c].r
      BY <1>1, <1>2, <2>1, <2>2, <2>3 DEF Knows, Attended
    <2>5. issued \subseteq issued'
      BY Zenon, OwnerSide
    <2>6. cl[c].pc = "renewing" => binding[cl[c].r]
      BY Zenon, <2>1 DEF Entitled
    <2> HIDE DEF l
    <2>7. /\ v \in Client
          /\ v.pc = pc /\ v.r = cl[c].r /\ v.lease = l
      BY ZenonT(60), <2>1, <2>3 DEF Client
    <2>8. cl' = [cl EXCEPT ![c] = v]
      BY ZenonT(60), <1>4 DEF MovesWith, AccessInv, CacheUnderBinding, AccessTypeOK
    <2> HIDE DEF v
    <2>9. Entitled(v, binding', issued') /\ Attended(v, h'[c])
      BY Zenon, <1>2, <2>4, <2>5, <2>6, <2>7 DEF Entitled, Attended, Waiting
    <2>10. binding' \in [Recipients -> BOOLEAN] /\ \A r \in Recipients : binding[r] => binding'[r]
      BY Zenon, <1>2 DEF AccessInv, CacheUnderBinding, AccessTypeOK
    <2> QED
      BY ZenonT(60), <1>2, <2>7, <2>8, <2>9, <2>10, Others, ClientMoves, RowsStay
  <1> QED
    BY Zenon, <1>2, <1>3, <1>4

(* The binding write: its recipient is the one that redeemed the invite.   *)
LEMMA PutBindingPreserves ==
  ASSUME AccessInv, [AccessNext]_accessVars, NEW c \in Handlers, PutBinding(c)
  PROVE  AccessInv'
  <1>1. /\ cl[c] \in Client /\ cl[c] # IdleClient /\ cl[c].pc = "bind"
        /\ cl[c].r \in Recipients /\ cl[c].again \in BOOLEAN
        /\ cl[c].lease \in issued /\ cl[c].lease.to = cl[c].r
    BY Zenon, AtWork DEF PutBinding, Entitled
  <1>2. /\ binding \in [Recipients -> BOOLEAN]
        /\ cache \in [Recipients -> Lease \cup {NoLease}]
        /\ \A r \in Recipients : cache[r] # NoLease =>
             binding[r] /\ cache[r] \in issued /\ cache[r].to = r
        /\ issued \subseteq issued'
        /\ UNCHANGED <<vars, cache>>
    BY Zenon, OwnerSide DEF AccessInv, CacheUnderBinding, AccessTypeOK, PutBinding
  <1>3. CASE Returns(c) /\ Fault /\ UNCHANGED binding
    BY <1>2, <1>3, Others, ClientReturns
  <1>4. CASE binding' = [binding EXCEPT ![cl[c].r] = TRUE] /\ Moves(c, "cache") /\ NoFault
    <2> DEFINE v == [cl[c] EXCEPT !.pc = "cache"]
    <2>1. relation[cl[c].r] # NoRelation
      <3>1. cl[c].lease.via \in Invites /\ redeemedBy[cl[c].lease.via] = cl[c].r
        BY ZenonT(60), <1>1 DEF AccessInv, IInv, LeaseBacked
      <3> QED
        BY Zenon, <1>1, <3>1, ConstantsAssumption DEF AccessInv, RedeemedIsRelated
    <2>2. /\ v \in Client /\ v.pc = "cache" /\ v.r = cl[c].r /\ v.lease = cl[c].lease
      BY Zenon, <1>1 DEF Client
    <2>3. cl' = [cl EXCEPT ![c] = v]
      BY Zenon, <1>4 DEF Moves, AccessInv, CacheUnderBinding, AccessTypeOK
    <2>4. /\ binding' \in [Recipients -> BOOLEAN]
          /\ \A r \in Recipients : binding[r] => binding'[r]
          /\ binding'[cl[c].r]
          /\ \A r \in Recipients : binding'[r] => binding[r] \/ r = cl[c].r
      BY Zenon, <1>1, <1>2, <1>4
    <2> HIDE DEF v
    <2>5. Entitled(v, binding', issued') /\ Attended(v, h'[c])
      BY Zenon, <1>1, <1>2, <2>2, <2>4 DEF Entitled, Attended, Waiting
    <2>6. /\ cl' \in [Handlers -> Client \cup {IdleClient}]
          /\ \A d \in Handlers : (Entitled(cl[d], binding, issued) /\ Attended(cl[d], h[d]))'
      BY ZenonT(60), <1>2, <2>2, <2>3, <2>4, <2>5, Others, ClientMoves
    <2>7. \A r \in Recipients : binding'[r] => binding[r] \/ relation'[r] # NoRelation
      BY ZenonT(60), <1>2, <2>1, <2>4 DEF vars
    <2>8. \A r \in Recipients : cache'[r] # NoLease =>
            binding'[r] /\ cache'[r] \in issued' /\ cache'[r].to = r
      BY Zenon, <1>2, <2>4
    <2> QED
      BY ZenonT(60), <1>2, <1>4, <2>4, <2>6, <2>7, <2>8, Others, ConsumerSide
  <1> QED
    BY Zenon, <1>3, <1>4 DEF PutBinding

(* A client's move to a stage it is entitled to, rows untouched.           *)
LEMMA ClientGoes ==
  ASSUME AccessInv, [AccessNext]_accessVars, NEW c \in Handlers, NEW v \in Client,
         cl' = [cl EXCEPT ![c] = v],
         Entitled(v, binding, issued), Attended(v, h'[c]),
         \A d \in Handlers \ {c} : h'[d] = h[d],
         UNCHANGED <<binding, cache, faults>>
  PROVE  AccessInv'
  <1>1. /\ binding' \in [Recipients -> BOOLEAN]
        /\ \A r \in Recipients : binding[r] => binding'[r]
        /\ faults' \in 0..MaxFaults
    BY ZenonT(60) DEF AccessInv, CacheUnderBinding, AccessTypeOK
  <1>2. Entitled(v, binding', issued')
    BY OwnerSide DEF Entitled
  <1> QED
    BY ZenonT(60), <1>1, <1>2, ClientMoves, RowsStay

(* A write or a deletion of the cache row by a client that may.            *)
LEMMA CacheWritten ==
  ASSUME AccessInv, [AccessNext]_accessVars, NEW c \in Handlers,
         NEW v \in Client \cup {IdleClient}, NEW r \in Recipients, NEW l \in Lease \cup {NoLease},
         cl' = [cl EXCEPT ![c] = v],
         Entitled(v, binding, issued), v.pc \notin Waiting,
         cache' = [cache EXCEPT ![r] = l],
         l # NoLease => binding[r] /\ l \in issued /\ l.to = r,
         UNCHANGED <<vars, binding, faults>>
  PROVE  AccessInv'
  <1>1. /\ binding' \in [Recipients -> BOOLEAN]
        /\ cache \in [Recipients -> Lease \cup {NoLease}]
        /\ \A s \in Recipients : binding[s] => binding'[s]
        /\ \A s \in Recipients : cache[s] # NoLease =>
             binding[s] /\ cache[s] \in issued /\ cache[s].to = s
        /\ faults' \in 0..MaxFaults
    BY Zenon DEF AccessInv, CacheUnderBinding, AccessTypeOK
  <1>2. Entitled(v, binding', issued') /\ Attended(v, h'[c]) /\ issued' = issued
    BY Zenon DEF Entitled, Attended, vars
  <1>3. /\ cl' \in [Handlers -> Client \cup {IdleClient}]
        /\ \A d \in Handlers : (Entitled(cl[d], binding, issued) /\ Attended(cl[d], h[d]))'
    BY ZenonT(60), <1>1, <1>2, Others, ClientMoves
  <1>4. /\ cache' \in [Recipients -> Lease \cup {NoLease}]
        /\ \A s \in Recipients : cache'[s] # NoLease =>
             binding'[s] /\ cache'[s] \in issued' /\ cache'[s].to = s
    BY Zenon, <1>1, <1>2
  <1>5. \A s \in Recipients : binding'[s] => binding[s] \/ relation'[s] # NoRelation
    OBVIOUS
  <1> QED
    BY ZenonT(60), <1>1, <1>3, <1>4, <1>5, ConsumerSide

(* The cache is written and cleared under a binding that stays.            *)
LEMMA CacheStepsPreserve ==
  ASSUME AccessInv, [AccessNext]_accessVars, NEW c \in Handlers,
         PutCache(c) \/ PutRenewed(c) \/ DropExpired(c)
  PROVE  AccessInv'
  <1> DEFINE r == cl[c].r
             l == cl[c].lease
  <1>1. cl[c].pc \in {"cache", "recache", "drop"}
    BY Zenon DEF PutCache, PutRenewed, DropExpired
  <1>2. /\ cl[c] \in Client /\ cl[c] # IdleClient
        /\ r \in Recipients /\ l \in Lease \cup {NoLease}
        /\ binding[r]
        /\ cl[c].pc # "drop" => l \in issued /\ l.to = r
    BY Zenon, <1>1, AtWork DEF Entitled
  <1>3. cl \in [Handlers -> Client \cup {IdleClient}]
    BY Zenon DEF AccessInv, CacheUnderBinding, AccessTypeOK
  <1>4. Entitled(IdleClient, binding, issued) /\ IdleClient.pc \notin Waiting
    BY Zenon DEF Entitled, IdleClient, Waiting
  <1>5. ASSUME Returns(c), Fault, UNCHANGED <<vars, binding, cache>> PROVE AccessInv'
    BY Zenon, <1>5, Others, ClientReturns
  <1>6. CASE PutCache(c)
    BY <1>2, <1>4, <1>5, <1>6, CacheWritten DEF PutCache, Returns, NoFault
  <1>7. CASE PutRenewed(c)
    <2> DEFINE v == [cl[c] EXCEPT !.pc = "open"]
    <2>1. v \in Client /\ v.pc = "open" /\ v.r = r /\ v.lease = l
      BY Zenon, <1>2 DEF Client
    <2>2. Moves(c, "open") => cl' = [cl EXCEPT ![c] = v]
      BY Zenon, <1>3 DEF Moves
    <2> HIDE DEF v
    <2>3. Entitled(v, binding, issued) /\ v.pc \notin Waiting
      BY ZenonT(60), <1>2, <1>7, <2>1 DEF Entitled, Waiting, PutRenewed
    <2> QED
      BY ZenonT(60), <1>2, <1>5, <1>7, <2>1, <2>2, <2>3, CacheWritten DEF PutRenewed, NoFault
  <1>8. CASE DropExpired(c)
    <2> DEFINE v == [cl[c] EXCEPT !.pc = "renew"]
    <2>1. v \in Client /\ v.pc = "renew" /\ v.r = r
      BY Zenon, <1>2 DEF Client
    <2>2. cl' = [cl EXCEPT ![c] = v]
      BY Zenon, <1>3, <1>8 DEF DropExpired, Moves
    <2> HIDE DEF v
    <2>3. Entitled(v, binding, issued) /\ v.pc \notin Waiting
      BY Zenon, <1>2, <2>1 DEF Entitled, Waiting
    <2> QED
      BY ZenonT(60), <1>2, <1>8, <2>1, <2>2, <2>3, CacheWritten DEF DropExpired
  <1> QED
    BY Zenon, <1>6, <1>7, <1>8

(* AcquireAcceptedPipeAccess: what it takes from the cache is issued.      *)
LEMMA AcquirePreserves ==
  ASSUME AccessInv, [AccessNext]_accessVars, NEW c \in Handlers, NEW r \in Recipients,
         NEW again \in BOOLEAN, binding[r], Acquire(c, r, again),
         UNCHANGED <<vars, binding, cache, faults>>
  PROVE  AccessInv'
  <1> DEFINE v == [pc |-> AfterCache(r), r |-> r, again |-> again,
                   lease |-> IF AfterCache(r) = "open" THEN cache[r] ELSE NoLease]
  <1>1. cache[r] \in Lease \cup {NoLease}
    BY Zenon DEF AccessInv, CacheUnderBinding, AccessTypeOK
  <1>2. AfterCache(r) \in {"renew", "drop", "open"}
    BY Zenon DEF AfterCache
  <1>3. AfterCache(r) = "open" => cache[r] \in issued /\ cache[r].to = r
    BY Zenon DEF AfterCache, AccessInv, CacheUnderBinding
  <1>4. /\ v \in Client /\ v.pc = AfterCache(r) /\ v.r = r
        /\ AfterCache(r) = "open" => v.lease = cache[r]
    BY Zenon, <1>1, <1>2 DEF Client
  <1>5. cl' = [cl EXCEPT ![c] = v]
    BY Zenon DEF Acquire
  <1> HIDE DEF v
  <1>6. Entitled(v, binding, issued) /\ Attended(v, h'[c])
    BY Zenon, <1>2, <1>3, <1>4 DEF Entitled, Attended, Waiting
  <1> QED
    BY ZenonT(60), <1>4, <1>5, <1>6, Others, ClientGoes

(* The requests: what is sent to the handler is about the client's own     *)
(* recipient.                                                              *)
LEMMA SendsPreserve ==
  ASSUME AccessInv, [AccessNext]_accessVars, NEW c \in Handlers,
         SendRenew(c) \/ SendOpen(c)
  PROVE  AccessInv'
  <1> DEFINE r == cl[c].r
  <1>1. cl[c].pc \in {"renew", "open"}
    BY ZenonT(60) DEF SendRenew, SendOpen
  <1>2. /\ cl[c] \in Client /\ cl[c] # IdleClient
        /\ r \in Recipients /\ binding[r] /\ cl[c].again \in BOOLEAN
        /\ cl[c].pc = "open" => cl[c].lease.to = r
    BY Zenon, <1>1, AtWork DEF Entitled
  <1>3. /\ cl \in [Handlers -> Client \cup {IdleClient}]
        /\ h \in [Handlers -> Handler]
    BY Zenon DEF AccessInv, CacheUnderBinding, AccessTypeOK, IInv, TypeOK
  <1>4. ASSUME NEW op, NEW l, NEW w \in {"renewing", "opening"},
               Becomes(c, op, l), l.to = r, Moves(c, w), UNCHANGED <<binding, cache, faults>>
        PROVE  AccessInv'
    <2> DEFINE v == [cl[c] EXCEPT !.pc = w]
    <2>1. v \in Client /\ v.pc = w /\ v.r = r
      BY Zenon, <1>2 DEF Client, Waiting
    <2>2. cl' = [cl EXCEPT ![c] = v]
      BY Zenon, <1>3, <1>4 DEF Moves
    <2>3. h'[c].lease.to = r /\ \A d \in Handlers \ {c} : h'[d] = h[d]
      BY Zenon, <1>3, <1>4 DEF Becomes
    <2> HIDE DEF v
    <2>4. Entitled(v, binding, issued) /\ Attended(v, h'[c])
      BY Zenon, <1>2, <2>1, <2>3 DEF Entitled, Attended
    <2> QED
      BY ZenonT(60), <1>4, <2>1, <2>2, <2>3, <2>4, ClientGoes
  <1>5. CASE SendRenew(c)
    BY Zenon, <1>4, <1>5 DEF SendRenew, StartRenew
  <1>6. CASE SendOpen(c)
    <2>1. CASE StartOpen(c, cl[c].lease) /\ Moves(c, "opening")
      BY ZenonT(60), <1>2, <1>4, <1>6, <2>1 DEF SendOpen, StartOpen
    <2>2. CASE Returns(c) /\ UNCHANGED vars
      BY ZenonT(60), <1>6, <2>2, Others, ClientReturns DEF SendOpen
    <2>3. CASE Acquire(c, r, TRUE) /\ UNCHANGED vars
      BY ZenonT(60), <1>2, <1>6, <2>3, AcquirePreserves DEF SendOpen
    <2> QED
      BY <1>6, <2>1, <2>2, <2>3 DEF SendOpen
  <1> QED
    BY Zenon, <1>5, <1>6

(* Accepting an invite starts without anything durable.                    *)
LEMMA StartAcceptPreserves ==
  ASSUME AccessInv, [AccessNext]_accessVars, NEW c \in Handlers, NEW r \in Recipients,
         NEW i \in Invites, StartAccept(c, r, i)
  PROVE  AccessInv'
  <1> DEFINE v == [pc |-> "redeeming", r |-> r, lease |-> NoLease, again |-> FALSE]
  <1>1. v \in Client /\ v.pc = "redeeming" /\ v.r = r
    BY Zenon DEF Client, Waiting
  <1>2. cl' = [cl EXCEPT ![c] = v]
    BY Zenon DEF StartAccept
  <1>3. h'[c].lease.to = r /\ \A d \in Handlers \ {c} : h'[d] = h[d]
    BY Zenon DEF AccessInv, IInv, TypeOK, StartAccept, StartRedeem, Becomes
  <1> HIDE DEF v
  <1>4. Entitled(v, binding, issued) /\ Attended(v, h'[c])
    BY Zenon, <1>1, <1>3 DEF Entitled, Attended
  <1> QED
    BY ZenonT(60), <1>1, <1>2, <1>3, <1>4, ClientGoes DEF StartAccept

(* The owner's own steps.                                                  *)
LEMMA OwnersPreserve ==
  ASSUME AccessInv, [AccessNext]_accessVars, UNCHANGED <<binding, cache, cl>>,
         NoFault \/ Fault,
         \A c \in Handlers : \/ h'[c] = h[c]
                             \/ h'[c] = IdleHandler
                             \/ h[c] # IdleHandler /\ h'[c].lease.to = h[c].lease.to
  PROVE  AccessInv'
  <1>1. cl' \in [Handlers -> Client \cup {IdleClient}]
    BY Zenon DEF AccessInv, CacheUnderBinding, AccessTypeOK
  <1>2. ASSUME NEW d \in Handlers
        PROVE  (Entitled(cl[d], binding, issued) /\ Attended(cl[d], h[d]))'
    <2>1. Entitled(cl[d], binding, issued) /\ Attended(cl[d], h[d])
      BY Zenon DEF AccessInv
    <2>2. Entitled(cl[d], binding, issued)'
      BY Zenon, <2>1, OwnerSide DEF Entitled
    <2>3. Attended(cl[d], h[d])'
      BY Zenon, <2>1 DEF Attended
    <2> QED
      BY Zenon, <2>2, <2>3
  <1>3. faults' \in 0..MaxFaults
    <2>1. faults \in 0..MaxFaults
      BY Zenon DEF AccessInv, CacheUnderBinding, AccessTypeOK
    <2> QED
      BY SMTT(30), <2>1, AccessAssumption DEF NoFault, Fault
  <1> QED
    BY Zenon, <1>1, <1>2, <1>3, RowsStay

(* Every step of the composed system preserves the invariant.              *)
LEMMA AccessPreserves == AccessInv /\ [AccessNext]_accessVars => AccessInv'
  <1> SUFFICES ASSUME AccessInv, [AccessNext]_accessVars PROVE AccessInv'
    OBVIOUS
  <1>1. CASE UNCHANGED accessVars
    BY Zenon, <1>1, OwnersPreserve DEF accessVars, vars, NoFault
  <1>2. CASE (Tick \/ Owner) /\ UNCHANGED consumer
    <2>1. UNCHANGED h
      BY Zenon, <1>2 DEF Tick, Owner, ShareEpoch, ShareMint, RevokeInvite, RevokeRead, RevokeWrite
    <2> QED
      BY Zenon, <1>2, <2>1, OwnersPreserve DEF consumer, NoFault
  <1>3. ASSUME NEW c \in Handlers, Step(c), UNCHANGED consumer PROVE AccessInv'
    BY ZenonT(60), <1>3, StepKeepsRecipient, OwnersPreserve DEF consumer, NoFault, AccessInv
  <1>4. ASSUME NEW c \in Handlers, NEW r \in Recipients, Connect(c, r) PROVE AccessInv'
    BY ZenonT(60), <1>4, AcquirePreserves DEF Connect
  <1>5. ASSUME NEW c \in Handlers, NEW r \in Recipients, NEW i \in Invites, StartAccept(c, r, i)
        PROVE  AccessInv'
    BY Zenon, <1>5, StartAcceptPreserves
  <1>6. ASSUME NEW c \in Handlers, ClientStep(c) PROVE AccessInv'
    <2>1. CASE Refused(c)
      BY <2>1, Others, ClientReturns DEF Refused
    <2> QED
      BY <1>6, <2>1, ReceivesPreserve, PutBindingPreserves, CacheStepsPreserve, SendsPreserve
      DEF ClientStep, AcceptReply, RenewReply
  <1>7. ASSUME NEW c \in Handlers, CloseSession(c) \/ Abandon(c) PROVE AccessInv'
    BY Zenon, <1>7, Others, ClientReturns DEF CloseSession, Abandon
  <1>8. ASSUME NEW c \in Handlers, HangUp(c) \/ Break(c) PROVE AccessInv'
    BY Zenon, <1>8, Others, OwnersPreserve DEF HangUp, Break, consumer, NoFault
  <1> QED
    BY Zenon, <1>1, <1>2, <1>3, <1>4, <1>5, <1>6, <1>7, <1>8 DEF AccessNext

(* The invariant holds throughout.                                         *)
LEMMA AccessInvariance == AccessSpec => []AccessInv
  BY AccessStarts, AccessPreserves, PTL DEF AccessSpec

(* The composed system implements the owner's specification: whatever the  *)
(* consumers' machines do, crash or lose, the owner sees only what         *)
(* ExactAuthority allows.                                                  *)
THEOREM AccessImplementsAuthority == AccessSpec => AuthoritySpec
  <1>1. AccessInit => Init
    BY Zenon DEF AccessInit
  <1>2. AccessInv /\ [AccessNext]_accessVars => [Next]_vars
    BY Zenon, AccessStepsAreOwners
  <1> QED
    BY <1>1, <1>2, AccessInvariance, PTL DEF AccessSpec, AuthoritySpec, Spec

(* A durable binding on a consumer's machine is an accepted relationship   *)
(* in the owner's store.                                                   *)
THEOREM BindingsAreAccepted == AccessSpec => []BindingIsAccepted
  BY AccessInvariance, PTL DEF AccessInv

(* The lease cache holds only leases issued to this recipient, and only    *)
(* under a durable binding.                                                *)
THEOREM CachesFollowBindings == AccessSpec => []CacheUnderBinding
  BY AccessInvariance, PTL DEF AccessInv

(* The bounds on revocation hold for the leases of the composed system:    *)
(* cached and renewed ones included.                                       *)
THEOREM AccessIsRevocable == AccessSpec => [](OneRecipient /\ RevocationBound)
  BY AccessImplementsAuthority, OneInviteOneRecipient, BoundedRevocation, PTL DEF AuthoritySpec

(* So do the fences: in the composed system too an open passes only with a *)
(* lease of the epoch in force, whatever cached lease a consumer presents, *)
(* and a relationship changes only by its own recipient's first redemption *)
(* of an invite, whatever accepts are repeated or overlap.                 *)
THEOREM AccessIsFenced == AccessSpec => OpenFence /\ ReacceptOnlyByFirstRedemption
  BY AccessImplementsAuthority, OpensAreFenced, Reacceptance, PTL DEF AuthoritySpec

=============================================================================
