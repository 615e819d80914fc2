------------------------------- MODULE ScopeSync -------------------------------
(***************************************************************************)
(* The periodic discovery sync of one scope in one local state.  Every     *)
(* published or local Pipe runtime of the scope runs a SyncController, in  *)
(* a process of its own.  The controllers elect one of them through the    *)
(* scope's row of scope_sync_leases; the owner renews the lease, fetches   *)
(* the authority's records every Cadence, and writes the outcome under the *)
(* lease's fencing token.                                                  *)
(*                                                                         *)
(* Each store call is one step.  A call that takes its time as an argument *)
(* uses the moment (stamp) read before the call.  While an attempt runs    *)
(* there are two threads: the controller's select loop (pc) and the        *)
(* fetching goroutine (fetch).  What a fetch writes into the cache is the  *)
(* subject of Discovery; here only scope_freshness.next_retry is kept.     *)
(***************************************************************************)
EXTENDS StoreTime

CONSTANTS
    Controllers,
    TTL, Renew, Timeout, Cadence,   \* SyncController's settings, in ticks
    RetryDelay,                     \* snapshotRetryDelay, in ticks
    StoreErrors,                    \* whether a store call may fail
    MaxTime,                        \* the clock's bound
    MaxTenure                       \* bound on acquisitions of the lease

(* What settings() demands.                                                *)
ASSUME SettingsAssumption ==
    /\ TTL \in Nat /\ Renew \in Nat \ {0} /\ Timeout \in Nat \ {0}
    /\ Cadence \in Nat \ {0} /\ RetryDelay \in Nat
    /\ TTL > Timeout /\ TTL > Renew
    /\ StoreErrors \in BOOLEAN
    /\ MaxTime \in Nat /\ MaxTenure \in Nat

VARIABLES
    now,
    lease,       \* the lease row; token 0 when there is none
    retry,       \* next_retry of the scope's freshness row; 0 when empty
    tenure,      \* number of acquisitions; the latest token
    ctl

vars == <<now, lease, retry, tenure, ctl>>

-----------------------------------------------------------------------------
Waiting == {"contend", "acquire", "observe", "wait"}
Owning == {"own", "sleep", "renew", "attempt", "beat", "quit", "drain", "next",
           "release"}
Fetching == {"check", "call", "commit", "fail", "fail_lost"}
Fetched == {"ok", "error", "lost"}

Lease == [tok : Nat, exp : Nat]
NoLease == [tok |-> 0, exp |-> 0]

Controller ==
    [pc : {"off", "exited"} \cup Waiting \cup Owning,
     tok : Nat,           \* the token of its lease, 0 when it owns none
     stamp : Nat,         \* the time argument of the store call it is in
     wake : Nat,          \* its timer, or its ticker during an attempt
     due : Nat,           \* the next attempt, or the running one's deadline
     fetch : {"none"} \cup Fetching \cup Fetched,
     cancelled : BOOLEAN, \* cancel() of the attempt
     stop : BOOLEAN]      \* the runtime's context is cancelled

Off == [pc |-> "off", tok |-> 0, stamp |-> 0, wake |-> 0, due |-> 0,
        fetch |-> "none", cancelled |-> FALSE, stop |-> FALSE]

Init ==
    /\ now = 0
    /\ lease = NoLease
    /\ retry = 0
    /\ tenure = 0
    /\ ctl = [c \in Controllers |-> Off]

-----------------------------------------------------------------------------
Becomes(c, v) == ctl' = [ctl EXCEPT ![c] = v]
Goes(v, pc) == [v EXCEPT !.pc = pc]
Least(a, b) == IF a < b THEN a ELSE b
Returned(v) == IF v.stop THEN Off ELSE Goes(Off, "exited")

(* The lease's columns as the UPDATE of RenewScopeSyncLease compares them. *)
Renewable(v) == lease.tok = v.tok /\ Text(lease.exp) > Text(v.stamp)

(* leaseCurrentTx: parsed times, and the time of the transaction.          *)
LeaseCurrent(v) == lease.tok = v.tok /\ lease.exp > now

(* The context of the running attempt.                                     *)
CtxDone(v) == v.stop \/ v.cancelled \/ now >= v.due

-----------------------------------------------------------------------------
(* StartScopeSync, in the process of a new runtime.                        *)
Start(c) ==
    /\ ctl[c].pc = "off"
    /\ Becomes(c, Goes(Off, "contend"))
    /\ UNCHANGED <<now, lease, retry, tenure>>

(* SyncController.Run, the contending loop.                                *)
Contend(c) ==
    /\ ctl[c].pc = "contend"
    /\ Becomes(c, IF ctl[c].stop THEN Off
                  ELSE [ctl[c] EXCEPT !.pc = "acquire", !.stamp = now])
    /\ UNCHANGED <<now, lease, retry, tenure>>

(* Mutant: the lease is taken whoever holds it.                            *)
Free_Always(v) == TRUE

(* Mutant: only a released lease is free, an expired one is not.           *)
Free_Released(v) == lease.tok = 0

(* The WHERE clause of AcquireScopeSyncLease's upsert.                     *)
Free(v) == lease.tok = 0 \/ Text(lease.exp) <= Text(v.stamp)

AcquireLease(c) ==
    /\ ctl[c].pc = "acquire" /\ ~ctl[c].stop
    /\ Free(ctl[c]) /\ tenure < MaxTenure
    /\ tenure' = tenure + 1
    /\ lease' = [tok |-> tenure + 1, exp |-> ctl[c].stamp + TTL]
    /\ Becomes(c, [Off EXCEPT !.pc = "own", !.tok = tenure + 1, !.due = now])
    /\ UNCHANGED <<now, retry>>

AcquireRefused(c) ==
    /\ ctl[c].pc = "acquire" /\ ~ctl[c].stop
    /\ ~Free(ctl[c])
    /\ Becomes(c, [ctl[c] EXCEPT !.pc = "observe", !.stamp = 0])
    /\ UNCHANGED <<now, lease, retry, tenure>>

(* A store error, or the cancelled context: wait, which then returns.      *)
AcquireFailed(c) ==
    /\ ctl[c].pc = "acquire" /\ (StoreErrors \/ ctl[c].stop)
    /\ \E j \in 0..(Renew \div 4) :
         Becomes(c, IF ctl[c].stop THEN Off
                    ELSE [Off EXCEPT !.pc = "wait", !.wake = now + Renew + j])
    /\ UNCHANGED <<now, lease, retry, tenure>>

(* The delay after a refusal ends with the observed lease if that is soon. *)
Observe(c) ==
    /\ ctl[c].pc = "observe"
    /\ \E j \in 0..(Renew \div 4),
          left \in {IF lease.exp > now THEN lease.exp - now ELSE Renew}
                     \cup (IF StoreErrors THEN {Renew} ELSE {}) :
         Becomes(c, [ctl[c] EXCEPT !.pc = "wait",
                                   !.wake = now + Least(left, Renew) + j])
    /\ UNCHANGED <<now, lease, retry, tenure>>

Wait(c) ==
    /\ ctl[c].pc = "wait"
    /\ ctl[c].stop \/ now >= ctl[c].wake
    /\ Becomes(c, IF ctl[c].stop THEN Off
                  ELSE [ctl[c] EXCEPT !.pc = "contend", !.wake = 0])
    /\ UNCHANGED <<now, lease, retry, tenure>>

-----------------------------------------------------------------------------
(* Mutant: the owner sleeps until the next attempt is due.                 *)
Own_SleepsTillDue(c) ==
    /\ ctl[c].pc = "own"
    /\ Becomes(c,
         IF ctl[c].stop THEN Goes(ctl[c], "release")
         ELSE IF now >= ctl[c].due
           THEN [ctl[c] EXCEPT !.pc = "attempt", !.fetch = "check",
                               !.due = now + Timeout, !.wake = now + Renew]
           ELSE [ctl[c] EXCEPT !.pc = "sleep", !.wake = ctl[c].due])
    /\ UNCHANGED <<now, lease, retry, tenure>>

(* runOwner.                                                               *)
Own(c) ==
    /\ ctl[c].pc = "own"
    /\ Becomes(c,
         IF ctl[c].stop THEN Goes(ctl[c], "release")
         ELSE IF now >= ctl[c].due
           THEN [ctl[c] EXCEPT !.pc = "attempt", !.fetch = "check",
                               !.due = now + Timeout, !.wake = now + Renew]
           ELSE [ctl[c] EXCEPT !.pc = "sleep",
                               !.wake = now + Least(ctl[c].due - now, Renew)])
    /\ UNCHANGED <<now, lease, retry, tenure>>

Sleep(c) ==
    /\ ctl[c].pc = "sleep"
    /\ ctl[c].stop \/ now >= ctl[c].wake
    /\ Becomes(c,
         IF ctl[c].stop THEN Goes(ctl[c], "release")
         ELSE IF now < ctl[c].due
           THEN [ctl[c] EXCEPT !.pc = "renew", !.stamp = now, !.wake = 0]
           ELSE [ctl[c] EXCEPT !.pc = "own", !.wake = 0])
    /\ UNCHANGED <<now, lease, retry, tenure>>

(* RenewScopeSyncLease: one conditional UPDATE, or an error.               *)
RenewLease(c, renewed, lost) ==
    \/ /\ ~ctl[c].stop /\ Renewable(ctl[c])
       /\ lease' = [lease EXCEPT !.exp = ctl[c].stamp + TTL]
       /\ Becomes(c, renewed)
    \/ /\ StoreErrors \/ ctl[c].stop \/ ~Renewable(ctl[c])
       /\ Becomes(c, lost)
       /\ UNCHANGED lease

RenewBetweenAttempts(c) ==
    /\ ctl[c].pc = "renew"
    /\ RenewLease(c, [ctl[c] EXCEPT !.pc = "own", !.stamp = 0],
                     [ctl[c] EXCEPT !.pc = "release", !.stamp = 0])
    /\ UNCHANGED <<now, retry, tenure>>

(* attempt: the select loop.                                               *)
StartHeartbeat(c) ==
    /\ ctl[c].pc = "attempt" /\ now >= ctl[c].wake
    /\ Becomes(c, [ctl[c] EXCEPT !.pc = "beat", !.stamp = now,
                                 !.wake = now + Renew])
    /\ UNCHANGED <<now, lease, retry, tenure>>

Heartbeat(c) ==
    /\ ctl[c].pc = "beat"
    /\ RenewLease(c, [ctl[c] EXCEPT !.pc = "attempt", !.stamp = 0],
                     [ctl[c] EXCEPT !.pc = "quit", !.stamp = 0, !.wake = 0,
                                    !.cancelled = TRUE])
    /\ UNCHANGED <<now, retry, tenure>>

AttemptDone(c) ==
    /\ ctl[c].pc = "attempt" /\ ctl[c].fetch \in Fetched
    /\ Becomes(c, [ctl[c] EXCEPT
                     !.pc = IF ctl[c].fetch = "lost" THEN "release" ELSE "next",
                     !.wake = 0])
    /\ UNCHANGED <<now, lease, retry, tenure>>

AttemptStopped(c) ==
    /\ ctl[c].pc = "attempt" /\ ctl[c].stop
    /\ Becomes(c, [ctl[c] EXCEPT !.pc = "quit", !.wake = 0,
                                 !.cancelled = TRUE])
    /\ UNCHANGED <<now, lease, retry, tenure>>

AttemptTimeout(c) ==
    /\ ctl[c].pc = "attempt" /\ now >= ctl[c].due
    /\ Becomes(c, [ctl[c] EXCEPT !.pc = "drain", !.wake = 0])
    /\ UNCHANGED <<now, lease, retry, tenure>>

(* <-done after a lost lease, a stop or the timeout.                       *)
Drained(c) ==
    /\ ctl[c].pc \in {"quit", "drain"} /\ ctl[c].fetch \in Fetched
    /\ Becomes(c, [ctl[c] EXCEPT
                     !.pc = IF ctl[c].pc = "quit" THEN "release" ELSE "next"])
    /\ UNCHANGED <<now, lease, retry, tenure>>

(* nextDue: a failed read of the freshness row leaves the fallback.        *)
NextDue(c) ==
    /\ ctl[c].pc = "next"
    /\ \E j \in 0..(Cadence \div 10), read \in {TRUE, ~StoreErrors} :
         LET fallback == now + Cadence + j
         IN  Becomes(c, [ctl[c] EXCEPT
                !.pc = "own", !.fetch = "none",
                !.due = IF read /\ ~ctl[c].stop /\ retry > fallback
                          THEN retry ELSE fallback])
    /\ UNCHANGED <<now, lease, retry, tenure>>

(* ReleaseScopeSyncLease, which may fail; then Run returns.  runOwner has  *)
(* no path that returns true, so Run never contends again.                 *)
ReleaseLease(c) ==
    /\ ctl[c].pc = "release"
    /\ \/ lease' = IF lease.tok = ctl[c].tok THEN NoLease ELSE lease
       \/ StoreErrors /\ UNCHANGED lease
    /\ Becomes(c, Returned(ctl[c]))
    /\ UNCHANGED <<now, retry, tenure>>

-----------------------------------------------------------------------------
(* FetchRecordsWithOptions, the goroutine of an attempt.                   *)
Fetches(c, stage) == Becomes(c, [ctl[c] EXCEPT !.fetch = stage])

(* The persisted cooldown; reading it may fail.                            *)
FetchCheck(c) ==
    /\ ctl[c].fetch = "check"
    /\ \/ /\ StoreErrors \/ CtxDone(ctl[c]) \/ now < retry
          /\ Fetches(c, "error")
       \/ ~CtxDone(ctl[c]) /\ now >= retry /\ Fetches(c, "call")
    /\ UNCHANGED <<now, lease, retry, tenure>>

(* Membership, host, and the exchange with the authority.                  *)
FetchCall(c) ==
    /\ ctl[c].fetch = "call"
    /\ \/ Fetches(c, "fail")
       \/ ~CtxDone(ctl[c]) /\ Fetches(c, "commit")
    /\ UNCHANGED <<now, lease, retry, tenure>>

(* Mutant: the transaction does not look at the lease.                     *)
FetchCommit_Unfenced(c) ==
    /\ ctl[c].fetch = "commit"
    /\ \/ ~CtxDone(ctl[c]) /\ retry' = 0 /\ Fetches(c, "ok")
       \/ Fetches(c, "fail") /\ UNCHANGED retry
    /\ UNCHANGED <<now, lease, tenure>>

(* ReconcileAuthoritativeSnapshotWithLease: it commits, or finds the lease *)
(* lost, or fails for another reason (the snapshot, the store, the         *)
(* context) and changes nothing.                                           *)
FetchCommit(c) ==
    /\ ctl[c].fetch = "commit"
    /\ \/ /\ ~CtxDone(ctl[c]) /\ LeaseCurrent(ctl[c])
          /\ retry' = 0
          /\ Fetches(c, "ok")
       \/ /\ ~CtxDone(ctl[c]) /\ ~LeaseCurrent(ctl[c])
          /\ Fetches(c, "fail_lost")
          /\ UNCHANGED retry
       \/ Fetches(c, "fail") /\ UNCHANGED retry
    /\ UNCHANGED <<now, lease, tenure>>

(* fail: RecordSnapshotFailureWithLease.  Its own error hides the cause.   *)
FetchFail(c) ==
    /\ ctl[c].fetch \in {"fail", "fail_lost"}
    /\ \/ /\ ~CtxDone(ctl[c]) /\ LeaseCurrent(ctl[c])
          /\ retry' = now + RetryDelay
          /\ Fetches(c, IF ctl[c].fetch = "fail" THEN "error" ELSE "lost")
       \/ /\ ~CtxDone(ctl[c]) /\ ~LeaseCurrent(ctl[c])
          /\ Fetches(c, "lost")
          /\ UNCHANGED retry
       \/ /\ StoreErrors \/ CtxDone(ctl[c])
          /\ Fetches(c, "error")
          /\ UNCHANGED retry
    /\ UNCHANGED <<now, lease, tenure>>

-----------------------------------------------------------------------------
(* The runtime cancels the controller's context.                           *)
Stop(c) ==
    /\ ctl[c].pc # "off" /\ ~ctl[c].stop
    /\ Becomes(c, IF ctl[c].pc = "exited" THEN Off
                  ELSE [ctl[c] EXCEPT !.stop = TRUE])
    /\ UNCHANGED <<now, lease, retry, tenure>>

(* The process dies; the lease row stays.                                  *)
Crash(c) ==
    /\ ctl[c].pc # "off"
    /\ Becomes(c, Off)
    /\ UNCHANGED <<now, lease, retry, tenure>>

(* A refresh outside the controllers (get pipes, the resolver of a local   *)
(* Pipe) writes the freshness row without a lease.                         *)
Foreground ==
    /\ retry' \in {0, now + RetryDelay}
    /\ UNCHANGED <<now, lease, tenure, ctl>>

Tick ==
    /\ now < MaxTime
    /\ now' = now + 1
    /\ UNCHANGED <<lease, retry, tenure, ctl>>

-----------------------------------------------------------------------------
Loop(c) ==
    \/ Contend(c) \/ AcquireLease(c) \/ AcquireRefused(c) \/ AcquireFailed(c)
    \/ Observe(c) \/ Wait(c)
    \/ Own(c) \/ Sleep(c) \/ RenewBetweenAttempts(c)
    \/ StartHeartbeat(c) \/ Heartbeat(c) \/ AttemptDone(c)
    \/ AttemptStopped(c) \/ AttemptTimeout(c) \/ Drained(c) \/ NextDue(c)
    \/ ReleaseLease(c)

Fetch(c) == FetchCheck(c) \/ FetchCall(c) \/ FetchCommit(c) \/ FetchFail(c)

Next ==
    \/ \E c \in Controllers :
         Start(c) \/ Loop(c) \/ Fetch(c) \/ Stop(c) \/ Crash(c)
    \/ Foreground \/ Tick

Spec == Init /\ [][Next]_vars

(* Goroutines run, every call of an attempt ends by its deadline, and time *)
(* passes.  Nothing is assumed of the user, who starts and stops runtimes. *)
Fairness ==
    /\ \A c \in Controllers : WF_vars(Loop(c)) /\ WF_vars(Fetch(c))
    /\ WF_vars(Tick)

(* The machine keeps up: time passes only when no goroutine is ready, that *)
(* is, when each waits for a timer, for the authority, or for nothing.     *)
Ready(v) ==
    \/ v.pc \in {"contend", "acquire", "observe", "own", "renew", "beat",
                 "next", "release"}
    \/ v.pc \in {"wait", "sleep", "attempt"} /\ now >= v.wake
    \/ v.pc = "attempt" /\ now >= v.due
    \/ v.pc \in {"attempt", "quit", "drain"} /\ v.fetch \in Fetched
    \/ v.fetch \in {"check", "commit", "fail", "fail_lost"}
    \/ v.fetch = "call" /\ CtxDone(v)

PromptTick == Tick /\ \A c \in Controllers : ~Ready(ctl[c])

PromptNext ==
    \/ \E c \in Controllers :
         Start(c) \/ Loop(c) \/ Fetch(c) \/ Stop(c) \/ Crash(c)
    \/ Foreground \/ PromptTick

PromptSpec == Init /\ [][PromptNext]_vars

PromptFairSpec == PromptSpec /\ Fairness

-----------------------------------------------------------------------------
(* Types; in particular a timer is never set to a negative moment.         *)
TypeOK ==
    /\ now \in Nat
    /\ lease \in Lease
    /\ retry \in Nat
    /\ tenure \in Nat
    /\ ctl \in [Controllers -> Controller]

Owns(c) == ctl[c].pc \in Owning

(* The lease row holds the latest token or none, only owners have a token  *)
(* and run a fetch, and no controller is ahead of the clock.  Inductive;   *)
(* the fencing below follows from it.                                      *)
IInv ==
    /\ TypeOK
    /\ lease.tok \in {0, tenure}
    /\ \A c \in Controllers :
         /\ ctl[c].stamp <= now
         /\ Owns(c) <=> ctl[c].tok # 0
         /\ ctl[c].fetch # "none" => Owns(c)

(* No one but its holder changes a lease, except that a contender takes it *)
(* over, always less than one second before it expires: what                *)
(* AcquireScopeSyncLease, RenewScopeSyncLease and ReleaseScopeSyncLease    *)
(* guarantee together, whatever stale controllers do.                      *)
LeaseIsItsHolders ==
    [][lease.tok # 0 /\ lease' # lease =>
         \/ \E c \in Controllers :
               Owns(c) /\ ctl[c].tok = lease.tok /\ ctl'[c] # ctl[c]
         \/ lease'.tok = tenure + 1 /\ lease.exp < now + Res]_vars

(* A controller whose lease has been taken over changes neither the lease  *)
(* nor the freshness row, however long it was suspended in whatever call:  *)
(* "stale PID/token holders cannot renew, release, reconcile, or record    *)
(* refresh failure for a successor".                                       *)
StaleOwnersNeverWrite ==
    [][\A c \in Controllers :
         Owns(c) /\ ctl[c].tok # tenure /\ ctl'[c] # ctl[c] =>
           lease' = lease /\ retry' = retry]_vars

(* An owner on a machine that keeps up holds an unexpired lease until it   *)
(* gives up: sleeping and attempting, it renews before expiry.             *)
PromptOwnerHoldsLease ==
    \A c \in Controllers :
      Owns(c) /\ ctl[c].pc \notin {"release", "quit"} =>
        lease.tok = ctl[c].tok /\ lease.exp > now

Orphaned ==
    lease.tok # 0 /\ \A c \in Controllers : Owns(c) => ctl[c].tok # lease.tok

(* A lease whose holder has crashed does not block the others: if some     *)
(* controller keeps contending, one of them takes it over.  (The clock's   *)
(* bound must leave room for the expiry and for the wait after it.)        *)
OrphanedLeaseIsTaken ==
    \A c \in Controllers :
      /\ Orphaned /\ ctl[c].pc \in Waiting
      /\ lease.exp + Renew + Renew \div 4 < MaxTime
      ~> ~Orphaned \/ ctl[c].pc \notin Waiting \/ tenure = MaxTenure

=============================================================================
