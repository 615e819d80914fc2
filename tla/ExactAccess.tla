----------------------------- MODULE ExactAccess -----------------------------
(***************************************************************************)
(* Exact-Pipe access end to end: the consumers' machines, each with its    *)
(* durable binding and its lease cache, composed with the owner side of    *)
(* ExactAuthority.  A consumer accepts an invite (AcceptExactInvite) and   *)
(* then serves application connections (the exact downstream opener over   *)
(* AcquireAcceptedPipeAccess): cached lease, else renewal, then the open.  *)
(*                                                                         *)
(* Client slot c is one running accept command (c in Acceptors) or one     *)
(* application connection (c in Connectors), or either in turn, and talks  *)
(* to the owner's stream handler c.  Both sides read one clock.  Streams   *)
(* break, replies get lost, store writes fail and consumer processes die   *)
(* at any step, MaxFaults times in all.                                    *)
(***************************************************************************)
EXTENDS ExactAuthority

CONSTANTS
    Acceptors,   \* the client slots that accept invites
    Connectors,  \* the client slots that serve application connections
    NoLease,     \* no exact_lease_cache row
    MaxFaults    \* bound: failures stop here

ASSUME AccessAssumption ==
    /\ Acceptors \subseteq Handlers /\ Connectors \subseteq Handlers
    /\ MaxFaults \in Nat
    /\ NoLease \notin Lease

VARIABLES
    binding,     \* remote_pipe_bindings: has the consumer a row for the Pipe?
    cache,       \* exact_lease_cache
    cl,          \* the client slots
    faults       \* failures so far

consumer == <<binding, cache, cl, faults>>
accessVars == <<vars, binding, cache, cl, faults>>

(* A client is named by what it does next; "redeeming", "renewing" and     *)
(* "opening" wait for the owner.  `again`: the opener's one reacquisition. *)
Waiting == {"redeeming", "renewing", "opening"}
Client == [pc : Waiting \cup {"bind", "cache", "drop", "renew", "recache", "open"},
           r : Recipients, lease : Lease \cup {NoLease}, again : BOOLEAN]
IdleClient == [pc |-> "idle"]

AccessInit ==
    /\ Init
    /\ binding = [r \in Recipients |-> FALSE]
    /\ cache = [r \in Recipients |-> NoLease]
    /\ cl = [c \in Handlers |-> IdleClient]
    /\ faults = 0

-----------------------------------------------------------------------------
Moves(c, pc) == cl' = [cl EXCEPT ![c].pc = pc]
MovesWith(c, pc, l) == cl' = [cl EXCEPT ![c].pc = pc, ![c].lease = l]
Returns(c) == cl' = [cl EXCEPT ![c] = IdleClient]

NoFault == UNCHANGED faults
Fault == faults < MaxFaults /\ faults' = faults + 1

(* The owner has answered c with a lease, which is verified against the    *)
(* clock at its arrival.                                                   *)
Receives(c, pc) ==
    /\ h[c].op = "replied"
    /\ Finish(c)
    /\ IF ValidLease(h[c].lease) THEN MovesWith(c, pc, h[c].lease)
                                 ELSE Returns(c)
    /\ NoFault
    /\ UNCHANGED <<binding, cache>>

-----------------------------------------------------------------------------
(* Mutant: the binding is written before the owner has answered.           *)
StartAccept_EarlyBinding(c, r, i) ==
    /\ c \in Acceptors /\ cl[c] = IdleClient
    /\ StartRedeem(c, r, i)
    /\ cl' = [cl EXCEPT ![c] = [pc |-> "redeeming", r |-> r,
                                lease |-> NoLease, again |-> FALSE]]
    /\ binding' = [binding EXCEPT ![r] = TRUE]
    /\ UNCHANGED <<cache, faults>>

(* `tubo accept`: redeem, then store the binding, then the lease.          *)
StartAccept(c, r, i) ==
    /\ c \in Acceptors /\ cl[c] = IdleClient
    /\ StartRedeem(c, r, i)
    /\ cl' = [cl EXCEPT ![c] = [pc |-> "redeeming", r |-> r,
                                lease |-> NoLease, again |-> FALSE]]
    /\ UNCHANGED <<binding, cache, faults>>

AcceptReply(c) == cl[c].pc = "redeeming" /\ Receives(c, "bind")

(* Mutant: a failed binding write does not stop the accept.                *)
PutBinding_Ignored(c) ==
    /\ cl[c].pc = "bind"
    /\ \/ /\ binding' = [binding EXCEPT ![cl[c].r] = TRUE]
          /\ Moves(c, "cache") /\ NoFault
       \/ /\ Moves(c, "cache") /\ Fault
          /\ UNCHANGED binding
    /\ UNCHANGED <<vars, cache>>

PutBinding(c) ==
    /\ cl[c].pc = "bind"
    /\ \/ /\ binding' = [binding EXCEPT ![cl[c].r] = TRUE]
          /\ Moves(c, "cache") /\ NoFault
       \/ /\ Returns(c) /\ Fault
          /\ UNCHANGED binding
    /\ UNCHANGED <<vars, cache>>

(* The error of this write is ignored.                                     *)
PutCache(c) ==
    /\ cl[c].pc = "cache"
    /\ \/ cache' = [cache EXCEPT ![cl[c].r] = cl[c].lease] /\ NoFault
       \/ UNCHANGED cache /\ Fault
    /\ Returns(c)
    /\ UNCHANGED <<vars, binding>>

-----------------------------------------------------------------------------
(* Mutant: an expired row counts as a hit.                                 *)
AfterCache_KeepExpired(r) ==
    IF cache[r] = NoLease THEN "renew" ELSE "open"

(* AcquireAcceptedPipeAccess up to its first effect: a cached lease that   *)
(* has not expired is used as it is, an expired one is deleted, else the   *)
(* access is renewed.                                                      *)
AfterCache(r) ==
    IF cache[r] = NoLease THEN "renew"
    ELSE IF cache[r].exp <= now THEN "drop"
    ELSE "open"

Acquire(c, r, again) ==
    cl' = [cl EXCEPT ![c] = [pc |-> AfterCache(r), r |-> r, again |-> again,
                             lease |-> IF AfterCache(r) = "open" THEN cache[r]
                                                                 ELSE NoLease]]

(* An application connection; without a binding it fails at once.          *)
Connect(c, r) ==
    /\ c \in Connectors /\ cl[c] = IdleClient
    /\ binding[r]
    /\ Acquire(c, r, FALSE)
    /\ UNCHANGED <<vars, binding, cache, faults>>

(* Mutant: the row is blanked, not deleted.                                *)
DropExpired_Blank(c) ==
    /\ cl[c].pc = "drop"
    /\ cache' = [cache EXCEPT ![cl[c].r] = None]
    /\ Moves(c, "renew")
    /\ UNCHANGED <<vars, binding, faults>>

(* GetAccessLeaseCache deletes whatever row is there by now.               *)
DropExpired(c) ==
    /\ cl[c].pc = "drop"
    /\ cache' = [cache EXCEPT ![cl[c].r] = NoLease]
    /\ Moves(c, "renew")
    /\ UNCHANGED <<vars, binding, faults>>

SendRenew(c) ==
    /\ cl[c].pc = "renew"
    /\ StartRenew(c, cl[c].r)
    /\ Moves(c, "renewing")
    /\ UNCHANGED <<binding, cache, faults>>

RenewReply(c) == cl[c].pc = "renewing" /\ Receives(c, "recache")

(* The error of this write is returned.                                    *)
PutRenewed(c) ==
    /\ cl[c].pc = "recache"
    /\ \/ /\ cache' = [cache EXCEPT ![cl[c].r] = cl[c].lease]
          /\ Moves(c, "open") /\ NoFault
       \/ /\ Returns(c) /\ Fault
          /\ UNCHANGED cache
    /\ UNCHANGED <<vars, binding>>

(* Mutant: a cached lease opens without passing the owner's checks.        *)
SendOpen_Trusted(c) ==
    /\ cl[c].pc = "open"
    /\ h[c] = IdleHandler
    /\ Becomes(c, "open_dial", cl[c].lease)
    /\ Moves(c, "opening")
    /\ UNCHANGED <<now, credentials, revocation, binding, cache, faults>>

(* The opener: an access that expired meanwhile is acquired once more.     *)
SendOpen(c) ==
    /\ cl[c].pc = "open"
    /\ \/ /\ ValidLease(cl[c].lease)
          /\ StartOpen(c, cl[c].lease)
          /\ Moves(c, "opening")
       \/ /\ ~ValidLease(cl[c].lease)
          /\ IF cl[c].again THEN Returns(c) ELSE Acquire(c, cl[c].r, TRUE)
          /\ UNCHANGED vars
    /\ UNCHANGED <<binding, cache, faults>>

-----------------------------------------------------------------------------
(* The owner's handler ended without an answer, or the session is over.    *)
Refused(c) ==
    /\ cl[c].pc \in Waiting
    /\ h[c] = IdleHandler
    /\ Returns(c)
    /\ UNCHANGED <<vars, binding, cache, faults>>

(* The application closes its connection.                                  *)
CloseSession(c) ==
    /\ cl[c].pc = "opening"
    /\ h[c].op = "session"
    /\ Abort(c)
    /\ Returns(c)
    /\ UNCHANGED <<binding, cache, faults>>

(* The client stops anywhere: its process dies, a deadline passes, its     *)
(* stream breaks.  The owner's handler runs on.                            *)
Abandon(c) ==
    /\ cl[c] # IdleClient
    /\ Fault
    /\ Returns(c)
    /\ UNCHANGED <<vars, binding, cache>>

(* A handler nobody waits for: its reply goes nowhere, or it notices the   *)
(* broken stream.                                                          *)
HangUp(c) ==
    /\ cl[c].pc \notin Waiting
    /\ Finish(c) \/ Abort(c)
    /\ UNCHANGED consumer

(* The owner's handler fails under a waiting client.                       *)
Break(c) ==
    /\ cl[c].pc \in Waiting
    /\ Fault
    /\ Abort(c)
    /\ UNCHANGED <<binding, cache, cl>>

-----------------------------------------------------------------------------
ClientStep(c) ==
    \/ AcceptReply(c) \/ PutBinding(c) \/ PutCache(c)
    \/ DropExpired(c) \/ SendRenew(c) \/ RenewReply(c) \/ PutRenewed(c)
    \/ SendOpen(c) \/ Refused(c)

AccessNext ==
    \/ (Tick \/ Owner) /\ UNCHANGED consumer
    \/ \E c \in Handlers :
         \/ Step(c) /\ UNCHANGED consumer
         \/ \E r \in Recipients : Connect(c, r)
         \/ \E r \in Recipients, i \in Invites : StartAccept(c, r, i)
         \/ ClientStep(c)
         \/ CloseSession(c) \/ Abandon(c) \/ HangUp(c) \/ Break(c)

AccessSpec == AccessInit /\ [][AccessNext]_accessVars

(* What client c and the owner's handler do by themselves.                 *)
Runs(c) ==
    \/ Step(c) /\ UNCHANGED consumer
    \/ ClientStep(c)
    \/ HangUp(c)

(* The owner's handlers and the clients run, timers fire, broken streams   *)
(* are noticed; applications keep connecting and the user keeps retrying   *)
(* an accept.                                                              *)
AccessFairness ==
    /\ WF_accessVars(Tick /\ UNCHANGED consumer)
    /\ \A c \in Handlers : WF_accessVars(Runs(c))
    /\ \A c \in Connectors, r \in Recipients : SF_accessVars(Connect(c, r))
    /\ \A c \in Acceptors, r \in Recipients, i \in Invites :
         SF_accessVars(StartAccept(c, r, i))

FairAccessSpec == AccessSpec /\ AccessFairness

-----------------------------------------------------------------------------
AccessTypeOK ==
    /\ binding \in [Recipients -> BOOLEAN]
    /\ cache \in [Recipients -> Lease \cup {NoLease}]
    /\ cl \in [Handlers -> Client \cup {IdleClient}]
    /\ faults \in 0..MaxFaults

(* A consumer believes it has accepted a Pipe only if the owner agrees:    *)
(* whatever was lost or crashed in between, a durable binding implies an   *)
(* authoritative accepted relationship of that recipient.                  *)
BindingIsAccepted ==
    \A r \in Recipients : binding[r] => relation[r] # NoRelation

(* The lease cache holds only well-formed leases that the owner issued to  *)
(* this recipient, and never runs ahead of the durable binding.            *)
CacheUnderBinding ==
    /\ AccessTypeOK
    /\ \A r \in Recipients : cache[r] # NoLease =>
           binding[r] /\ cache[r] \in issued /\ cache[r].to = r

(* Seen from the owner, the consumers' machines are just recipients that   *)
(* send requests: the composed system implements the owner's specification *)
(* (AuthoritySpec), and with it all that holds there.                      *)
AuthoritySpec == Spec

-----------------------------------------------------------------------------
Authorized(r) ==
    /\ relation[r] # NoRelation
    /\ relation[r].epoch = epoch
    /\ relation[r].via \notin revoked

InSession(r) == \E c \in Handlers : h[c].op = "session" /\ h[c].lease.to = r

(* "retry stays safe" (accept.go): an accept that the owner committed but  *)
(* whose reply or local write was lost can be completed by retrying the    *)
(* same invite, as long as the invite stays valid.                         *)
AcceptCanBeCompleted ==
    \A r \in Recipients, i \in Invites :
        redeemedBy[i] = r
          ~> \/ binding[r]
             \/ now >= invites[i].exp
             \/ i \in revoked
             \/ epoch # invites[i].epoch

(* A consumer the owner currently accepts gets through: no stale row of    *)
(* its cache (a lease of a revoked epoch, one written late over a newer    *)
(* one) keeps it out for ever.  (The clock must have room for the lifetime *)
(* of the stale lease.)                                                    *)
AccessReturns ==
    \A r \in Recipients :
        (binding[r] /\ Authorized(r) /\ now + LeaseTTL <= MaxTime)
          ~> InSession(r) \/ ~Authorized(r)

=============================================================================
