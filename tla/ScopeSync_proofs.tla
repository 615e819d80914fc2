--------------------------- MODULE ScopeSync_proofs ---------------------------
(***************************************************************************)
(* TLAPS proofs about ScopeSync: the fencing of the sync lease, for any    *)
(* number of controllers and all settings, and, for settings that leave    *)
(* the owner room for its renewals, that an owner on a machine that keeps  *)
(* up never finds its lease expired.  Nor does an expired lease keep the   *)
(* contenders on such a machine away for long.                             *)
(***************************************************************************)
EXTENDS ScopeSync, TLAPS

(* An expiry that sorts no later than a stamp is less than a second after  *)
(* it: the most that the RFC3339Nano texts can be out of order.            *)
LEMMA TextOrder ==
  ASSUME NEW e \in Nat, NEW s \in Nat, Text(e) <= Text(s)
  PROVE  e < s + Res
  BY ResAssumption DEF Text

(* A moment that sorts before an expiry is less than a second after it.    *)
LEMMA TextStrict ==
  ASSUME NEW e \in Nat, NEW s \in Nat, Text(s) < Text(e)
  PROVE  s < e + Res
  BY ResAssumption DEF Text

(* Every initial state satisfies the inductive invariant.                  *)
LEMMA InitIInv == Init => IInv
  BY DEF Init, IInv, TypeOK, Lease, NoLease, Controller, Off, Owns, Owning

(* A step of a controller that owns nothing before and after it.           *)
LEMMA WaiterMoves ==
  ASSUME IInv, NEW c \in Controllers, NEW v \in Controller, Becomes(c, v),
         v.pc \notin Owning, v.tok = 0, v.fetch = "none", v.stamp <= now,
         UNCHANGED <<now, retry, tenure>>, lease' \in Lease,
         lease'.tok \in {0, lease.tok}
  PROVE  IInv'
  BY Zenon DEF IInv, TypeOK, Becomes, Owns

(* A step of an owner that keeps its token.                                *)
LEMMA OwnerMoves ==
  ASSUME IInv, NEW c \in Controllers, NEW v \in Controller, Becomes(c, v),
         Owns(c), v.pc \in Owning, v.tok = ctl[c].tok, v.stamp <= now,
         UNCHANGED <<now, tenure>>, retry' \in Nat, lease' \in Lease,
         lease'.tok = lease.tok
  PROVE  IInv'
  BY Zenon DEF IInv, TypeOK, Becomes, Owns

(* The idle records, and what the invariant says of one controller.        *)
LEMMA OffRecords ==
  /\ Off \in Controller /\ Goes(Off, "contend") \in Controller
  /\ Goes(Off, "exited") \in Controller
  /\ Off.pc = "off" /\ Goes(Off, "contend").pc = "contend"
  /\ Goes(Off, "exited").pc = "exited"
  /\ \A v \in {Off, Goes(Off, "contend"), Goes(Off, "exited")} :
        v.tok = 0 /\ v.fetch = "none" /\ v.stamp = 0
  <1>1. Off \in Controller
    BY Zenon DEF Off, Controller
  <1>2. Goes(Off, "contend") \in Controller /\ Goes(Off, "exited") \in Controller
    BY Zenon, <1>1 DEF Goes, Controller, Waiting
  <1>3. /\ Off.pc = "off" /\ Goes(Off, "contend").pc = "contend"
        /\ Goes(Off, "exited").pc = "exited"
    BY Zenon DEF Off, Goes
  <1>4. \A v \in {Off, Goes(Off, "contend"), Goes(Off, "exited")} :
          v.tok = 0 /\ v.fetch = "none" /\ v.stamp = 0
    BY DEF Off, Goes
  <1> QED
    BY Zenon, <1>1, <1>2, <1>3, <1>4

(* What the invariant says of the lease and of one controller.             *)
LEMMA OneController ==
  ASSUME IInv, NEW c \in Controllers
  PROVE  /\ ctl[c] \in Controller /\ ctl[c].stamp <= now
         /\ ctl[c].pc \in Owning <=> ctl[c].tok # 0
         /\ ctl[c].fetch # "none" => ctl[c].pc \in Owning
         /\ ctl[c].tok \in Nat /\ ctl[c].stamp \in Nat /\ ctl[c].wake \in Nat
         /\ ctl[c].due \in Nat
         /\ now \in Nat /\ retry \in Nat /\ tenure \in Nat /\ lease \in Lease
  BY Zenon DEF IInv, TypeOK, Owns, Controller

(* A controller that returns or whose process dies.                        *)
LEMMA ControllerEnds ==
  ASSUME IInv, NEW c \in Controllers,
         NEW v \in {Off, Goes(Off, "contend"), Goes(Off, "exited")},
         Becomes(c, v), UNCHANGED <<now, retry, tenure>>, lease' \in {lease, NoLease}
  PROVE  IInv'
  <1>1. v \in Controller /\ v.pc \notin Owning /\ v.tok = 0 /\ v.fetch = "none" /\ v.stamp = 0
    BY Zenon, OffRecords DEF Owning
  <1>2. lease' \in Lease /\ lease'.tok \in {0, lease.tok}
    BY OneController DEF NoLease, Lease
  <1>3. v.stamp <= now
    BY <1>1, OneController
  <1> QED
    BY Zenon, <1>1, <1>2, <1>3, WaiterMoves

(* The contending loop: every step but the acquisition.                    *)
LEMMA WaitingStep ==
  ASSUME IInv, NEW c \in Controllers,
         Contend(c) \/ AcquireRefused(c) \/ AcquireFailed(c) \/ Observe(c) \/ Wait(c)
  PROVE  IInv'
  <1> DEFINE w == ctl[c]
  <1>0. /\ w \in Controller /\ w.tok = 0 /\ w.fetch = "none" /\ w.stamp <= now
        /\ UNCHANGED <<now, retry, tenure, lease>> /\ lease \in Lease
        /\ now \in Nat /\ Off \in Controller
    BY ZenonT(60), OneController, OffRecords
       DEF Contend, AcquireRefused, AcquireFailed, Observe, Wait, Owning
  <1>m. ASSUME NEW v \in Controller, Becomes(c, v), v.pc \in Waiting,
               v.tok = 0, v.fetch = "none", v.stamp \in {0, now, w.stamp}
        PROVE  IInv'
    <2>1. v.pc \notin Owning /\ v.stamp <= now
      BY <1>0, <1>m DEF Waiting, Owning
    <2> QED
      BY Zenon, <1>0, <1>m, <2>1, WaiterMoves DEF Lease
  <1>e. ASSUME Becomes(c, Off) PROVE IInv'
    BY Zenon, <1>0, <1>e, ControllerEnds
  <1>1. CASE Contend(c)
    <2> DEFINE v == [w EXCEPT !.pc = "acquire", !.stamp = now]
    <2>1. v \in Controller
      BY ZenonT(60), <1>0 DEF Controller, Waiting
    <2>2. v.pc = "acquire" /\ v.tok = 0 /\ v.fetch = "none" /\ v.stamp = now
      BY Zenon, <1>0 DEF Controller
    <2> QED
      BY ZenonT(60), <1>1, <1>e, <1>m, <2>1, <2>2 DEF Contend, Waiting
  <1>2. CASE AcquireRefused(c)
    <2> DEFINE v == [w EXCEPT !.pc = "observe", !.stamp = 0]
    <2>1. v \in Controller
      BY ZenonT(60), <1>0 DEF Controller, Waiting
    <2>2. v.pc = "observe" /\ v.tok = 0 /\ v.fetch = "none" /\ v.stamp = 0
      BY Zenon, <1>0 DEF Controller
    <2> QED
      BY ZenonT(60), <1>2, <1>m, <2>1, <2>2 DEF AcquireRefused, Waiting
  <1>3. CASE AcquireFailed(c)
    <2>0. PICK j \in 0..(Renew \div 4) :
            Becomes(c, IF w.stop THEN Off
                       ELSE [Off EXCEPT !.pc = "wait", !.wake = now + Renew + j])
      BY ZenonT(60), <1>3 DEF AcquireFailed
    <2> DEFINE k == now + Renew + j
    <2>1. k \in Nat
      BY <1>0, SettingsAssumption
    <2> HIDE DEF k
    <2> DEFINE v == [Off EXCEPT !.pc = "wait", !.wake = k]
    <2>2. v \in Controller
      BY ZenonT(60), <1>0, <2>1 DEF Controller, Waiting
    <2>3. v.pc = "wait" /\ v.tok = 0 /\ v.fetch = "none" /\ v.stamp = 0
      BY Zenon DEF Off
    <2> QED
      BY ZenonT(60), <1>e, <1>m, <2>0, <2>2, <2>3 DEF Waiting, k
  <1>4. CASE Observe(c)
    <2> DEFINE Left == {IF lease.exp > now THEN lease.exp - now ELSE Renew}
                         \cup (IF StoreErrors THEN {Renew} ELSE {})
    <2>0. PICK j \in 0..(Renew \div 4), left \in Left :
            Becomes(c, [w EXCEPT !.pc = "wait", !.wake = now + Least(left, Renew) + j])
      BY ZenonT(60), <1>4 DEF Observe
    <2>4. left \in Nat
      BY <1>0, SettingsAssumption DEF Lease
    <2> DEFINE k == now + Least(left, Renew) + j
    <2>1. k \in Nat
      BY <1>0, <2>4, SettingsAssumption DEF Least
    <2> HIDE DEF k
    <2> DEFINE v == [w EXCEPT !.pc = "wait", !.wake = k]
    <2>2. v \in Controller
      BY ZenonT(60), <1>0, <2>1 DEF Controller, Waiting
    <2>3. v.pc = "wait" /\ v.tok = 0 /\ v.fetch = "none" /\ v.stamp = w.stamp
      BY Zenon, <1>0 DEF Controller
    <2> QED
      BY ZenonT(60), <1>m, <2>0, <2>2, <2>3 DEF Waiting, k
  <1>5. CASE Wait(c)
    <2> DEFINE v == [w EXCEPT !.pc = "contend", !.wake = 0]
    <2>1. v \in Controller
      BY ZenonT(60), <1>0 DEF Controller, Waiting
    <2>2. v.pc = "contend" /\ v.tok = 0 /\ v.fetch = "none" /\ v.stamp = w.stamp
      BY Zenon, <1>0 DEF Controller
    <2> QED
      BY ZenonT(60), <1>5, <1>e, <1>m, <2>1, <2>2 DEF Wait, Waiting
  <1> QED
    BY ZenonT(60), <1>1, <1>2, <1>3, <1>4, <1>5

(* The owner's loop and its attempts, without the lease's renewal.         *)
LEMMA OwningStep ==
  ASSUME IInv, NEW c \in Controllers,
         \/ Own(c) \/ Sleep(c) \/ StartHeartbeat(c) \/ AttemptDone(c)
         \/ AttemptStopped(c) \/ AttemptTimeout(c) \/ Drained(c) \/ NextDue(c)
  PROVE  IInv'
  <1> DEFINE w == ctl[c]
  <1>0. /\ w \in Controller /\ w.stamp <= now /\ Owns(c)
        /\ UNCHANGED <<now, retry, tenure, lease>> /\ lease \in Lease /\ retry \in Nat
        /\ now \in Nat /\ w.due \in Nat
    BY ZenonT(60), OneController DEF Own, Sleep, StartHeartbeat, AttemptDone, AttemptStopped,
                         AttemptTimeout, Drained, NextDue, Owning, Owns
  <1>m. ASSUME NEW v \in Controller, Becomes(c, v), v.pc \in Owning,
               v.tok = w.tok, v.stamp \in {now, w.stamp}
        PROVE  IInv'
    <2>1. v.stamp <= now
      BY <1>0, <1>m
    <2> QED
      BY Zenon, <1>0, <1>m, <2>1, OwnerMoves
  <1>1. CASE Own(c)
    <2> DEFINE a == now + Timeout
               b == now + Renew
               k == now + Least(w.due - now, Renew)
    <2>1. a \in Nat /\ b \in Nat /\ (now < w.due => k \in Nat)
      BY <1>0, SettingsAssumption DEF Least
    <2> HIDE DEF a, b, k
    <2> DEFINE r == Goes(w, "release")
               v == [w EXCEPT !.pc = "attempt", !.fetch = "check", !.due = a, !.wake = b]
               u == [w EXCEPT !.pc = "sleep", !.wake = k]
    <2>2. r \in Controller
      BY Zenon, <1>0, <2>1 DEF Controller, Owning, Fetching, Goes
    <2>3. r.pc = "release" /\ r.tok = w.tok /\ r.stamp = w.stamp
      BY Zenon, <1>0 DEF Controller, Goes
    <2>4. v \in Controller
      BY ZenonT(60), <1>0, <2>1 DEF Controller, Owning, Fetching, Goes
    <2>5. v.pc = "attempt" /\ v.tok = w.tok /\ v.stamp = w.stamp
      BY Zenon, <1>0 DEF Controller, Goes
    <2>6. now < w.due => u \in Controller
      BY ZenonT(60), <1>0, <2>1 DEF Controller, Owning, Fetching, Goes
    <2>7. u.pc = "sleep" /\ u.tok = w.tok /\ u.stamp = w.stamp
      BY Zenon, <1>0 DEF Controller, Goes
    <2>8. Becomes(c, r) \/ Becomes(c, v) \/ (now < w.due /\ Becomes(c, u))
      BY <1>0, <1>1 DEF Own, a, b, k
    <2> QED
      BY ZenonT(60), <1>m, <2>2, <2>3, <2>4, <2>5, <2>6, <2>7, <2>8 DEF Owning
  <1>2. CASE Sleep(c)
    <2> DEFINE r == Goes(w, "release")
               v == [w EXCEPT !.pc = "renew", !.stamp = now, !.wake = 0]
               u == [w EXCEPT !.pc = "own", !.wake = 0]
    <2>1. r \in Controller
      BY Zenon, <1>0 DEF Controller, Owning, Fetching, Goes
    <2>2. r.pc = "release" /\ r.tok = w.tok /\ r.stamp = w.stamp
      BY Zenon, <1>0 DEF Controller, Goes
    <2>3. v \in Controller
      BY ZenonT(60), <1>0 DEF Controller, Owning, Fetching, Goes
    <2>4. v.pc = "renew" /\ v.tok = w.tok /\ v.stamp = now
      BY Zenon, <1>0 DEF Controller, Goes
    <2>5. u \in Controller
      BY ZenonT(60), <1>0 DEF Controller, Owning, Fetching, Goes
    <2>6. u.pc = "own" /\ u.tok = w.tok /\ u.stamp = w.stamp
      BY Zenon, <1>0 DEF Controller, Goes
    <2>7. Becomes(c, r) \/ Becomes(c, v) \/ Becomes(c, u)
      BY Zenon, <1>2 DEF Sleep
    <2> QED
      BY ZenonT(60), <1>m, <2>1, <2>2, <2>3, <2>4, <2>5, <2>6, <2>7 DEF Owning
  <1>3. CASE StartHeartbeat(c)
    <2> DEFINE b == now + Renew
    <2>1. b \in Nat
      BY <1>0, SettingsAssumption
    <2> HIDE DEF b
    <2> DEFINE v == [w EXCEPT !.pc = "beat", !.stamp = now, !.wake = b]
    <2>2. v \in Controller
      BY ZenonT(60), <1>0, <2>1 DEF Controller, Owning, Fetching, Goes
    <2>3. v.pc = "beat" /\ v.tok = w.tok /\ v.stamp = now
      BY Zenon, <1>0 DEF Controller, Goes
    <2>4. Becomes(c, v)
      BY Zenon, <1>3 DEF StartHeartbeat, b
    <2> QED
      BY ZenonT(60), <1>m, <2>2, <2>3, <2>4 DEF Owning
  <1>4. CASE AttemptDone(c)
    <2> DEFINE v == [w EXCEPT !.pc = "release", !.wake = 0]
               u == [w EXCEPT !.pc = "next", !.wake = 0]
    <2>1. v \in Controller
      BY ZenonT(60), <1>0 DEF Controller, Owning, Fetching, Goes
    <2>2. v.pc = "release" /\ v.tok = w.tok /\ v.stamp = w.stamp
      BY Zenon, <1>0 DEF Controller, Goes
    <2>3. u \in Controller
      BY ZenonT(60), <1>0 DEF Controller, Owning, Fetching, Goes
    <2>4. u.pc = "next" /\ u.tok = w.tok /\ u.stamp = w.stamp
      BY Zenon, <1>0 DEF Controller, Goes
    <2>5. Becomes(c, v) \/ Becomes(c, u)
      BY ZenonT(60), <1>4 DEF AttemptDone
    <2> QED
      BY ZenonT(60), <1>m, <2>1, <2>2, <2>3, <2>4, <2>5 DEF Owning
  <1>5. CASE AttemptStopped(c)
    <2> DEFINE v == [w EXCEPT !.pc = "quit", !.wake = 0, !.cancelled = TRUE]
    <2>1. v \in Controller
      BY ZenonT(60), <1>0 DEF Controller, Owning, Fetching, Goes
    <2>2. v.pc = "quit" /\ v.tok = w.tok /\ v.stamp = w.stamp
      BY Zenon, <1>0 DEF Controller, Goes
    <2>3. Becomes(c, v)
      BY Zenon, <1>5 DEF AttemptStopped
    <2> QED
      BY ZenonT(60), <1>m, <2>1, <2>2, <2>3 DEF Owning
  <1>6. CASE AttemptTimeout(c)
    <2> DEFINE v == [w EXCEPT !.pc = "drain", !.wake = 0]
    <2>1. v \in Controller
      BY ZenonT(60), <1>0 DEF Controller, Owning, Fetching, Goes
    <2>2. v.pc = "drain" /\ v.tok = w.tok /\ v.stamp = w.stamp
      BY Zenon, <1>0 DEF Controller, Goes
    <2>3. Becomes(c, v)
      BY Zenon, <1>6 DEF AttemptTimeout
    <2> QED
      BY ZenonT(60), <1>m, <2>1, <2>2, <2>3 DEF Owning
  <1>7. CASE Drained(c)
    <2> DEFINE v == Goes(w, "release")
               u == Goes(w, "next")
    <2>1. v \in Controller
      BY Zenon, <1>0 DEF Controller, Owning, Fetching, Goes
    <2>2. v.pc = "release" /\ v.tok = w.tok /\ v.stamp = w.stamp
      BY Zenon, <1>0 DEF Controller, Goes
    <2>3. u \in Controller
      BY Zenon, <1>0 DEF Controller, Owning, Fetching, Goes
    <2>4. u.pc = "next" /\ u.tok = w.tok /\ u.stamp = w.stamp
      BY Zenon, <1>0 DEF Controller, Goes
    <2>5. Becomes(c, v) \/ Becomes(c, u)
      BY Zenon, <1>7 DEF Drained, Goes
    <2> QED
      BY Zenon, <1>m, <2>1, <2>2, <2>3, <2>4, <2>5 DEF Owning
  <1>8. CASE NextDue(c)
    <2>1. PICK j \in 0..(Cadence \div 10), read \in {TRUE, ~StoreErrors} :
            Becomes(c, [w EXCEPT
                !.pc = "own", !.fetch = "none",
                !.due = IF read /\ ~w.stop /\ retry > now + Cadence + j
                          THEN retry ELSE now + Cadence + j])
      BY ZenonT(60), <1>8 DEF NextDue
    <2> DEFINE k == IF read /\ ~w.stop /\ retry > now + Cadence + j
                      THEN retry ELSE now + Cadence + j
    <2>2. k \in Nat
      BY <1>0, SettingsAssumption
    <2>3. Becomes(c, [w EXCEPT !.pc = "own", !.fetch = "none", !.due = k])
      BY Zenon, <2>1
    <2> HIDE DEF k
    <2> DEFINE v == [w EXCEPT !.pc = "own", !.fetch = "none", !.due = k]
    <2>4. v \in Controller
      BY ZenonT(60), <1>0, <2>2 DEF Controller, Owning, Fetching, Goes
    <2>5. v.pc = "own" /\ v.tok = w.tok /\ v.stamp = w.stamp
      BY Zenon, <1>0 DEF Controller, Goes
    <2> QED
      BY ZenonT(60), <1>m, <2>3, <2>4, <2>5 DEF Owning
  <1> QED
    BY Zenon, <1>1, <1>2, <1>3, <1>4, <1>5, <1>6, <1>7, <1>8

(* An acquisition takes a new token; it is the latest one.                 *)
LEMMA AcquireStep ==
  ASSUME IInv, NEW c \in Controllers, AcquireLease(c)
  PROVE  IInv'
  <1> DEFINE v == [Off EXCEPT !.pc = "own", !.tok = tenure + 1, !.due = now]
             e == ctl[c].stamp + TTL
  <1>1. /\ now \in Nat /\ tenure \in Nat /\ tenure + 1 \in Nat /\ e \in Nat
        /\ Off \in Controller
    BY OneController, OffRecords, SettingsAssumption
  <1>2. v \in Controller
    BY ZenonT(60), <1>1 DEF Controller, Owning
  <1>3. v.pc = "own" /\ v.tok = tenure + 1 /\ v.stamp = 0 /\ v.fetch = "none"
    BY Zenon DEF Off
  <1>4. /\ lease' = [tok |-> tenure + 1, exp |-> e] /\ tenure' = tenure + 1
        /\ ctl' = [ctl EXCEPT ![c] = v] /\ UNCHANGED <<now, retry>>
    BY Zenon DEF AcquireLease, Becomes
  <1> HIDE DEF v, e
  <1>5. TypeOK'
    BY Zenon, <1>1, <1>2, <1>4 DEF IInv, TypeOK, Lease
  <1>6. lease'.tok \in {0, tenure'}
    BY Zenon, <1>4
  <1>7. ASSUME NEW d \in Controllers
        PROVE  (/\ ctl[d].stamp <= now
                /\ Owns(d) <=> ctl[d].tok # 0
                /\ ctl[d].fetch # "none" => Owns(d))'
    <2>1. CASE d = c
      BY <1>1, <1>3, <1>4, <2>1 DEF IInv, TypeOK, Owns, Owning
    <2>2. CASE d # c
      BY Zenon, <1>4, <2>2 DEF IInv, TypeOK, Owns
    <2> QED
      BY Zenon, <2>1, <2>2
  <1> QED
    BY Zenon, <1>5, <1>6, <1>7 DEF IInv

(* A renewal keeps the token, in the row and at the controller.            *)
LEMMA RenewStep ==
  ASSUME IInv, NEW c \in Controllers, RenewBetweenAttempts(c) \/ Heartbeat(c)
  PROVE  IInv'
  <1> DEFINE w == ctl[c]
             own == [w EXCEPT !.pc = "own", !.stamp = 0]
             release == [w EXCEPT !.pc = "release", !.stamp = 0]
             attempt == [w EXCEPT !.pc = "attempt", !.stamp = 0]
             quit == [w EXCEPT !.pc = "quit", !.stamp = 0, !.wake = 0,
                               !.cancelled = TRUE]
  <1>0. /\ w \in Controller /\ Owns(c) /\ lease \in Lease /\ w.stamp + TTL \in Nat
        /\ UNCHANGED <<now, retry, tenure>> /\ now \in Nat /\ retry \in Nat
    BY OneController, SettingsAssumption
       DEF RenewBetweenAttempts, Heartbeat, Owns, Owning
  <1>1. \/ lease' = lease
        \/ lease' = [lease EXCEPT !.exp = w.stamp + TTL]
    BY Zenon DEF RenewBetweenAttempts, Heartbeat, RenewLease
  <1>2. lease' \in Lease /\ lease'.tok = lease.tok
    BY Zenon, <1>0, <1>1 DEF Lease
  <1>3. own \in Controller /\ release \in Controller /\ attempt \in Controller
    BY ZenonT(60), <1>0 DEF Controller, Owning
  <1>4. quit \in Controller
    BY ZenonT(60), <1>0 DEF Controller, Owning
  <1>5. \A v \in {own, release, attempt, quit} :
          v.pc \in Owning /\ v.tok = w.tok /\ v.stamp = 0
    BY ZenonT(60), <1>0 DEF Controller, Owning
  <1>6. Becomes(c, own) \/ Becomes(c, release) \/ Becomes(c, attempt) \/ Becomes(c, quit)
    BY Zenon DEF RenewBetweenAttempts, Heartbeat, RenewLease
  <1> HIDE DEF own, release, attempt, quit
  <1>7. PICK v \in {own, release, attempt, quit} : Becomes(c, v)
    BY Zenon, <1>6
  <1>8. v \in Controller /\ v.stamp <= now
    BY <1>0, <1>3, <1>4, <1>5
  <1> QED
    BY Zenon, <1>0, <1>2, <1>5, <1>7, <1>8, OwnerMoves

(* A release, a start or a crash leaves one of the idle records.           *)
LEMMA EndStep ==
  ASSUME IInv, NEW c \in Controllers, ReleaseLease(c) \/ Start(c) \/ Crash(c)
  PROVE  IInv'
  <1>1. PICK v \in {Off, Goes(Off, "contend"), Goes(Off, "exited")} : Becomes(c, v)
    BY Zenon DEF ReleaseLease, Start, Crash, Returned
  <1>2. UNCHANGED <<now, retry, tenure>> /\ lease' \in {lease, NoLease}
    BY Zenon DEF ReleaseLease, Start, Crash
  <1> QED
    BY Zenon, <1>1, <1>2, ControllerEnds

(* The fetching goroutine.                                                 *)
LEMMA FetchStep ==
  ASSUME IInv, NEW c \in Controllers, Fetch(c)
  PROVE  IInv'
  <1> DEFINE w == ctl[c]
  <1>0. /\ w \in Controller /\ Owns(c) /\ w.stamp <= now /\ lease \in Lease
        /\ UNCHANGED <<now, lease, tenure>>
    BY Zenon, OneController DEF Fetch, FetchCheck, FetchCall, FetchCommit, FetchFail, Owns
  <1>1. retry' \in Nat
    BY OneController, SettingsAssumption
       DEF Fetch, FetchCheck, FetchCall, FetchCommit, FetchFail
  <1>2. PICK stage \in Fetching \cup Fetched : Becomes(c, [w EXCEPT !.fetch = stage])
    BY Zenon DEF Fetch, FetchCheck, FetchCall, FetchCommit, FetchFail, Fetches,
           Fetching, Fetched
  <1> DEFINE v == [w EXCEPT !.fetch = stage]
  <1>3. v \in Controller
    BY Zenon, <1>0 DEF Controller
  <1>4. v.pc = w.pc /\ v.tok = w.tok /\ v.stamp = w.stamp
    BY Zenon, <1>0 DEF Controller
  <1> QED
    BY ZenonT(60), <1>0, <1>1, <1>2, <1>3, <1>4, OwnerMoves DEF Owns

(* Cancelling a controller's context.                                      *)
LEMMA StopStep ==
  ASSUME IInv, NEW c \in Controllers, Stop(c)
  PROVE  IInv'
  <1> DEFINE w == ctl[c]
             v == [w EXCEPT !.stop = TRUE]
  <1>0. /\ w \in Controller /\ w.stamp <= now /\ lease \in Lease /\ retry \in Nat
        /\ UNCHANGED <<now, lease, retry, tenure>>
    BY Zenon, OneController DEF Stop
  <1>1. v \in Controller
    BY ZenonT(60), <1>0 DEF Controller
  <1>2. v.pc = w.pc /\ v.tok = w.tok /\ v.stamp = w.stamp /\ v.fetch = w.fetch
    BY Zenon, <1>0 DEF Controller
  <1>3. Becomes(c, Off) \/ Becomes(c, v)
    BY Zenon DEF Stop
  <1> HIDE DEF v
  <1>4. CASE Becomes(c, Off)
    BY Zenon, <1>0, <1>4, ControllerEnds
  <1>5. CASE Becomes(c, v) /\ Owns(c)
    BY Zenon, <1>0, <1>1, <1>2, <1>5, OwnerMoves DEF Owns
  <1>6. CASE Becomes(c, v) /\ ~Owns(c)
    BY Zenon, <1>0, <1>1, <1>2, <1>6, OneController, WaiterMoves DEF Owns
  <1> QED
    BY Zenon, <1>3, <1>4, <1>5, <1>6

(* Every step preserves the inductive invariant.                           *)
LEMMA NextIInv == IInv /\ [Next]_vars => IInv'
  <1> SUFFICES ASSUME IInv, [Next]_vars PROVE IInv'
    OBVIOUS
  <1>1. ASSUME NEW c \in Controllers,
               Start(c) \/ Loop(c) \/ Fetch(c) \/ Stop(c) \/ Crash(c)
        PROVE  IInv'
    BY Zenon, <1>1, WaitingStep, OwningStep, AcquireStep, RenewStep, EndStep, FetchStep,
       StopStep DEF Loop
  <1>2. CASE Foreground
    BY <1>2, SettingsAssumption DEF Foreground, IInv, TypeOK, Owns
  <1>3. CASE Tick
    <2>1. \A c \in Controllers : ctl[c].stamp \in Nat
      BY Zenon, OneController
    <2> QED
      BY <1>3, <2>1 DEF Tick, IInv, TypeOK, Owns
  <1>4. CASE UNCHANGED vars
    BY Zenon, <1>4 DEF vars, IInv, TypeOK, Owns
  <1> QED
    BY Zenon, <1>1, <1>2, <1>3, <1>4 DEF Next

(* The lease row always holds the latest token or none, and only owners    *)
(* hold a token and fetch.                                                 *)
THEOREM Invariance == Spec => []IInv
  BY InitIInv, NextIInv, PTL DEF Spec

(* A controller that was displaced writes neither the lease nor the        *)
(* freshness row: all four fenced store calls compare the token.           *)
THEOREM StaleOwnersAreFenced == Spec => StaleOwnersNeverWrite
  <1>1. ASSUME IInv, [Next]_vars, NEW c \in Controllers,
               Owns(c), ctl[c].tok # tenure, ctl'[c] # ctl[c]
        PROVE  lease' = lease /\ retry' = retry
    <2>0. /\ lease.tok # ctl[c].tok
          /\ ctl[c].pc \in Owning
      BY Zenon, <1>1 DEF IInv, Owns
    <2>1. Start(c) \/ Loop(c) \/ Fetch(c) \/ Stop(c) \/ Crash(c)
      <3>1. ~Foreground /\ ~Tick /\ ~UNCHANGED vars
        BY Zenon, <1>1 DEF Foreground, Tick, vars
      <3>2. PICK d \in Controllers :
              Start(d) \/ Loop(d) \/ Fetch(d) \/ Stop(d) \/ Crash(d)
        BY ZenonT(60), <1>1, <3>1 DEF Next
      <3>3. \E v : Becomes(d, v)
        BY ZenonT(60), <3>2 DEF Start, Loop, Contend, AcquireLease, AcquireRefused,
             AcquireFailed,
             Observe, Wait, Own, Sleep, RenewBetweenAttempts, RenewLease,
             StartHeartbeat, Heartbeat, AttemptDone, AttemptStopped,
             AttemptTimeout, Drained, NextDue, ReleaseLease, Fetch, FetchCheck,
             FetchCall, FetchCommit, FetchFail, Fetches, Stop, Crash
      <3>4. d = c
        BY Zenon, <1>1, <3>3 DEF Becomes, IInv, TypeOK
      <3> QED
        BY Zenon, <3>2, <3>4
    <2>2. ~AcquireLease(c)
      BY Zenon, <2>0 DEF AcquireLease, Owning
    <2>3. ~Renewable(ctl[c]) /\ ~LeaseCurrent(ctl[c])
      BY Zenon, <2>0 DEF Renewable, LeaseCurrent
    <2> QED
      BY ZenonT(60), <2>0, <2>1, <2>2, <2>3
         DEF Start, Loop, Contend, AcquireRefused, AcquireFailed, Observe, Wait,
             Own, Sleep, RenewBetweenAttempts, RenewLease, StartHeartbeat,
             Heartbeat, AttemptDone, AttemptStopped, AttemptTimeout, Drained,
             NextDue, ReleaseLease, Fetch, FetchCheck, FetchCall, FetchCommit,
             FetchFail, Stop, Crash
  <1>2. IInv /\ [Next]_vars =>
          [\A c \in Controllers :
             Owns(c) /\ ctl[c].tok # tenure /\ ctl'[c] # ctl[c] =>
               lease' = lease /\ retry' = retry]_vars
    BY Zenon, <1>1
  <1> QED
    BY <1>2, Invariance, PTL DEF Spec, StaleOwnersNeverWrite

(* A lease is changed by its holder, or taken over less than a second      *)
(* before its expiry.                                                      *)
THEOREM LeasesAreTheirHolders == Spec => LeaseIsItsHolders
  <1> DEFINE ByHolder == \E c \in Controllers :
                           Owns(c) /\ ctl[c].tok = lease.tok /\ ctl'[c] # ctl[c]
             TakenOver == lease'.tok = tenure + 1 /\ lease.exp < now + Res
  <1>1. ASSUME IInv, [Next]_vars, lease.tok # 0, lease' # lease
        PROVE  ByHolder \/ TakenOver
    <2>1. PICK c \in Controllers : \/ AcquireLease(c) \/ RenewBetweenAttempts(c)
                                   \/ Heartbeat(c) \/ ReleaseLease(c)
      BY ZenonT(60), <1>1
         DEF Next, vars, Foreground, Tick, Start, Loop, Contend, AcquireRefused,
             AcquireFailed, Observe, Wait, Own, Sleep, StartHeartbeat,
             AttemptDone, AttemptStopped, AttemptTimeout, Drained, NextDue,
             Fetch, FetchCheck, FetchCall, FetchCommit, FetchFail, Stop, Crash
    <2>2. ctl \in [Controllers -> Controller] /\ ctl[c] \in Controller
      BY Zenon, <1>1 DEF IInv, TypeOK
    <2>3. CASE AcquireLease(c)
      <3>1. lease.exp \in Nat /\ ctl[c].stamp \in Nat /\ now \in Nat /\ ctl[c].stamp <= now
        BY Zenon, <1>1, OneController DEF Lease
      <3>2. Text(lease.exp) <= Text(ctl[c].stamp)
        BY Zenon, <1>1, <2>3 DEF AcquireLease, Free
      <3>3. lease.exp < ctl[c].stamp + Res
        BY Zenon, <3>1, <3>2, TextOrder
      <3>4. lease.exp < now + Res
        BY <3>1, <3>3, ResAssumption
      <3> QED
        BY Zenon, <2>3, <3>4 DEF AcquireLease
    <2>4. CASE RenewBetweenAttempts(c)
      <3>1. lease.tok = ctl[c].tok /\ Becomes(c, [ctl[c] EXCEPT !.pc = "own", !.stamp = 0])
        BY Zenon, <1>1, <2>4 DEF RenewBetweenAttempts, RenewLease, Renewable
      <3>2. [ctl[c] EXCEPT !.pc = "own", !.stamp = 0].pc = "own"
        BY Zenon, <2>2 DEF Controller
      <3>3. ctl[c].pc = "renew"
        BY Zenon, <2>4 DEF RenewBetweenAttempts
      <3> QED
        BY ZenonT(60), <2>2, <3>1, <3>2, <3>3 DEF Becomes, Owns, Owning
    <2>5. CASE Heartbeat(c)
      <3>1. lease.tok = ctl[c].tok /\ Becomes(c, [ctl[c] EXCEPT !.pc = "attempt", !.stamp = 0])
        BY Zenon, <1>1, <2>5 DEF Heartbeat, RenewLease, Renewable
      <3>2. [ctl[c] EXCEPT !.pc = "attempt", !.stamp = 0].pc = "attempt"
        BY Zenon, <2>2 DEF Controller
      <3>3. ctl[c].pc = "beat"
        BY Zenon, <2>5 DEF Heartbeat
      <3> QED
        BY ZenonT(60), <2>2, <3>1, <3>2, <3>3 DEF Becomes, Owns, Owning
    <2>6. CASE ReleaseLease(c)
      <3>1. lease.tok = ctl[c].tok /\ ctl[c].pc = "release" /\ Becomes(c, Returned(ctl[c]))
        BY Zenon, <1>1, <2>6 DEF ReleaseLease
      <3>2. Returned(ctl[c]).pc # "release"
        BY Zenon, OffRecords DEF Returned
      <3> QED
        BY Zenon, <2>2, <3>1, <3>2 DEF Becomes, Owns, Owning
    <2> QED
      BY ZenonT(60), <2>1, <2>3, <2>4, <2>5, <2>6
  <1>2. IInv /\ [Next]_vars =>
          [lease.tok # 0 /\ lease' # lease => ByHolder \/ TakenOver]_vars
    BY Zenon, <1>1
  <1> QED
    BY <1>2, Invariance, PTL DEF Spec, LeaseIsItsHolders

-----------------------------------------------------------------------------
(* The rest is about a machine that keeps up (PromptSpec).  Its owners     *)
(* hold their leases when the settings leave room for three renewal        *)
(* intervals, and a second of textual disorder, in the life of a lease.    *)
(* The defaults, 45 s, 10 s and a cadence of a minute, do.                 *)
RoomyLease == Renew < Cadence /\ 3 * Renew + Res <= TTL

(* An owner that has not given up.                                         *)
Holding(v) == v.pc \in Owning \ {"release", "quit"}

(* On a machine that keeps up, time does not pass while a goroutine is     *)
(* ready: a store call runs at its stamp, and a timer is served when due.  *)
Timed(v, t) ==
    /\ v.pc \in {"acquire", "renew", "beat"} => v.stamp = t
    /\ v.pc = "sleep" => t <= v.wake /\ v.wake <= v.due
    /\ v.pc = "attempt" => t <= v.wake
    /\ v.pc = "beat" => v.wake = t + Renew
    /\ v.pc \in {"attempt", "beat", "drain"} => v.fetch # "none"
    /\ v.pc = "drain" => v.due <= t

(* How old the lease of an owner can be at each of its stages: an attempt  *)
(* starts at most Renew after the last renewal, its first heartbeat or its *)
(* end comes at most Renew later, and the next renewal Renew after that.   *)
Held(v, row, t) ==
    /\ row.tok = v.tok
    /\ v.pc = "own" =>
         /\ v.due <= t => t + TTL <= row.exp + Renew
         /\ t < v.due /\ v.due <= t + Renew => v.due + TTL <= row.exp + Renew
         /\ t + Renew < v.due => t + TTL <= row.exp + 2 * Renew
    /\ v.pc = "sleep" =>
         /\ v.wake = v.due => v.wake + TTL <= row.exp + Renew
         /\ v.wake + TTL <= row.exp + 3 * Renew
    /\ v.pc = "renew" => t + TTL <= row.exp + 3 * Renew
    /\ v.pc = "attempt" => v.wake + TTL <= row.exp + 2 * Renew
    /\ v.pc \in {"beat", "drain", "next"} => t + TTL <= row.exp + 2 * Renew

(* The inductive invariant of the prompt machine.                          *)
PromptInv ==
    /\ IInv
    /\ \A c \in Controllers :
         /\ ctl[c].tok <= tenure
         /\ Timed(ctl[c], now)
         /\ Holding(ctl[c]) => Held(ctl[c], lease, now)
    /\ \A c, d \in Controllers : c # d /\ ctl[c].tok = ctl[d].tok => ctl[c].tok = 0

(* Every initial state of the prompt machine satisfies the invariant.      *)
LEMMA InitPrompt == Init => PromptInv
  <1> SUFFICES ASSUME Init PROVE PromptInv
    OBVIOUS
  <1>1. \A c \in Controllers : ctl[c] = Off
    BY Zenon DEF Init
  <1>2. Off.pc = "off" /\ Off.tok = 0
    BY Zenon DEF Off
  <1>3. ASSUME NEW c \in Controllers
        PROVE  /\ ctl[c].tok <= tenure /\ Timed(ctl[c], now) /\ ~Holding(ctl[c])
    BY <1>1, <1>2 DEF Init, Timed, Holding, Owning
  <1> QED
    BY Zenon, <1>1, <1>2, <1>3, InitIInv DEF PromptInv

(* What the invariant says of one controller.                              *)
LEMMA OnePrompt ==
  ASSUME PromptInv, NEW c \in Controllers
  PROVE  /\ IInv /\ ctl[c].tok <= tenure /\ Timed(ctl[c], now)
         /\ Holding(ctl[c]) => Held(ctl[c], lease, now)
  BY Zenon DEF PromptInv

(* A lease that its owner still counts on is at least a second from its    *)
(* expiry, so that no contender finds it free.                             *)
LEMMA HeldLong ==
  ASSUME PromptInv, RoomyLease, NEW c \in Controllers, Holding(ctl[c])
  PROVE  now + Res <= lease.exp /\ lease.tok = ctl[c].tok /\ lease.tok # 0
  <1>1. /\ Timed(ctl[c], now) /\ Held(ctl[c], lease, now)
        /\ ctl[c].pc \in Owning /\ ctl[c].tok # 0
    BY Zenon, OnePrompt, OneController DEF Holding
  <1>2. /\ ctl[c].wake \in Nat /\ ctl[c].due \in Nat /\ now \in Nat
        /\ lease.exp \in Nat
    BY Zenon, OnePrompt, OneController DEF Lease
  <1>3. now + TTL <= lease.exp + 3 * Renew
    <2>1. CASE ctl[c].pc = "own"
      BY <1>1, <1>2, <2>1, SettingsAssumption DEF Held
    <2>2. CASE ctl[c].pc \in {"sleep", "attempt"}
      BY <1>1, <1>2, <2>2, SettingsAssumption DEF Held, Timed
    <2>3. CASE ctl[c].pc \in {"renew", "beat", "drain", "next"}
      BY <1>1, <1>2, <2>3, SettingsAssumption DEF Held
    <2> QED
      BY Zenon, <2>1, <2>2, <2>3 DEF Holding, Owning
  <1>4. now + Res <= lease.exp
    BY SMTT(30), <1>2, <1>3, SettingsAssumption, ResAssumption DEF RoomyLease
  <1> QED
    BY Zenon, <1>1, <1>4 DEF Held

(* A step of controller c to v.  The lease stays as it is unless nobody    *)
(* else holds it.                                                          *)
LEMMA PromptMoves ==
  ASSUME PromptInv, IInv', NEW c \in Controllers, NEW v \in Controller,
         Becomes(c, v), now' = now,
         \/ tenure' = tenure /\ v.tok \in {0, ctl[c].tok}
         \/ tenure' = tenure + 1 /\ v.tok = tenure + 1,
         lease' = lease \/ \A d \in Controllers \ {c} : ~Holding(ctl[d]),
         Timed(v, now), Holding(v) => Held(v, lease', now)
  PROVE  PromptInv'
  <1>1. /\ ctl' = [ctl EXCEPT ![c] = v] /\ ctl'[c] = v
        /\ \A d \in Controllers \ {c} : ctl'[d] = ctl[d]
    BY Zenon, OnePrompt DEF Becomes, IInv, TypeOK
  <1>2. tenure \in Nat /\ v.tok \in Nat /\ \A d \in Controllers : ctl[d].tok \in Nat
    BY Zenon, OnePrompt, OneController DEF Controller
  <1>3. \A d \in Controllers : ctl[d].tok <= tenure
    BY Zenon, OnePrompt
  <1>4. \A d \in Controllers : ctl'[d].tok <= tenure'
    BY <1>1, <1>2, <1>3
  <1>5. ASSUME NEW d \in Controllers
        PROVE  Timed(ctl'[d], now') /\ (Holding(ctl'[d]) => Held(ctl'[d], lease', now'))
    <2>1. CASE d = c
      BY Zenon, <1>1, <2>1
    <2>2. CASE d # c
      BY Zenon, <1>1, <2>2, OnePrompt
    <2> QED
      BY Zenon, <2>1, <2>2
  <1>6. \A d, e \in Controllers :
           d # e /\ ctl'[d].tok = ctl'[e].tok => ctl'[d].tok = 0
    BY <1>1, <1>2, <1>3 DEF PromptInv
  <1> QED
    BY Zenon, <1>4, <1>5, <1>6 DEF PromptInv, Timed, Held, Holding

(* A step after which the controller does not own the lease.               *)
LEMMA PromptWaits ==
  ASSUME PromptInv, IInv', NEW c \in Controllers, NEW v \in Controller,
         Becomes(c, v), UNCHANGED <<now, tenure>>, v.pc \notin Owning,
         v.pc = "acquire" => v.stamp = now,
         lease' = lease \/ \A d \in Controllers \ {c} : ~Holding(ctl[d])
  PROVE  PromptInv'
  <1>1. v.tok = 0
    BY Zenon, OnePrompt DEF IInv, TypeOK, Becomes, Owns
  <1>2. Timed(v, now) /\ ~Holding(v)
    BY Zenon DEF Timed, Holding, Owning
  <1> QED
    BY Zenon, <1>1, <1>2, PromptMoves

(* The contending loop on a prompt machine.                                *)
LEMMA PromptWaitingStep ==
  ASSUME PromptInv, IInv', NEW c \in Controllers,
         Contend(c) \/ AcquireRefused(c) \/ AcquireFailed(c) \/ Observe(c) \/ Wait(c)
  PROVE  PromptInv'
  <1> DEFINE w == ctl[c]
  <1>0. /\ w \in Controller /\ UNCHANGED <<now, tenure, lease>> /\ ctl'[c] \in Controller
    BY ZenonT(60), OnePrompt, OneController
       DEF Contend, AcquireRefused, AcquireFailed, Observe, Wait, IInv, TypeOK
  <1>1. PICK v : Becomes(c, v)
    BY ZenonT(60) DEF Contend, AcquireRefused, AcquireFailed, Observe, Wait
  <1>2. v = ctl'[c] /\ ctl'[c] \in Controller
    BY Zenon, <1>0, <1>1, OnePrompt DEF Becomes, IInv, TypeOK
  <1>3. ctl'[c].pc \notin Owning /\ (ctl'[c].pc = "acquire" => ctl'[c].stamp = now)
    <2>0. ctl \in [Controllers -> Controller]
      BY Zenon, OnePrompt DEF IInv, TypeOK
    <2>1. CASE Contend(c)
      BY Zenon, <1>0, <2>0, <2>1, OffRecords DEF Contend, Becomes, Controller, Owning
    <2>2. CASE AcquireRefused(c)
      BY Zenon, <1>0, <2>0, <2>2 DEF AcquireRefused, Becomes, Controller, Owning
    <2>3. CASE AcquireFailed(c)
      <3>1. PICK k : \/ Becomes(c, Off)
                     \/ Becomes(c, [Off EXCEPT !.pc = "wait", !.wake = k])
        BY ZenonT(60), <2>3 DEF AcquireFailed
      <3>2. [Off EXCEPT !.pc = "wait", !.wake = k].pc = "wait" /\ Off.pc = "off"
        BY Zenon DEF Off
      <3>3. ctl'[c] \in {Off, [Off EXCEPT !.pc = "wait", !.wake = k]}
        BY Zenon, <2>0, <3>1 DEF Becomes
      <3> QED
        BY ZenonT(60), <3>2, <3>3 DEF Owning
    <2>4. CASE Observe(c)
      <3>1. PICK k : Becomes(c, [w EXCEPT !.pc = "wait", !.wake = k])
        BY ZenonT(60), <2>4 DEF Observe
      <3> QED
        BY Zenon, <1>0, <2>0, <3>1 DEF Becomes, Controller, Owning
    <2>5. CASE Wait(c)
      BY Zenon, <1>0, <2>0, <2>5, OffRecords DEF Wait, Becomes, Controller, Owning
    <2> QED
      BY Zenon, <2>1, <2>2, <2>3, <2>4, <2>5
  <1> QED
    BY Zenon, <1>0, <1>1, <1>2, <1>3, PromptWaits

(* An acquisition: the row was free, so nobody holds it, and the new lease *)
(* is as fresh as can be.                                                  *)
LEMMA PromptAcquireStep ==
  ASSUME PromptInv, RoomyLease, IInv', NEW c \in Controllers, AcquireLease(c)
  PROVE  PromptInv'
  <1> DEFINE v == [Off EXCEPT !.pc = "own", !.tok = tenure + 1, !.due = now]
  <1>1. /\ now \in Nat /\ tenure + 1 \in Nat /\ Off \in Controller
        /\ ctl[c].stamp \in Nat /\ lease.exp \in Nat
    BY OnePrompt, OneController, OffRecords DEF Lease
  <1>2. v \in Controller
    BY ZenonT(60), <1>1 DEF Controller, Owning
  <1>3. v.pc = "own" /\ v.tok = tenure + 1 /\ v.due = now
    BY Zenon DEF Off
  <1>4. ctl[c].stamp = now
    BY Zenon, OnePrompt DEF AcquireLease, Timed
  <1>5. /\ lease' = [tok |-> tenure + 1, exp |-> now + TTL] /\ tenure' = tenure + 1
        /\ Becomes(c, v) /\ now' = now
    BY Zenon, <1>4 DEF AcquireLease
  <1> HIDE DEF v
  <1>6. ASSUME NEW d \in Controllers, Holding(ctl[d]) PROVE FALSE
    <2>1. now + Res <= lease.exp /\ lease.tok # 0
      BY Zenon, <1>6, HeldLong
    <2>2. Text(lease.exp) <= Text(now)
      BY Zenon, <1>4, <2>1 DEF AcquireLease, Free
    <2>3. lease.exp < now + Res
      BY Zenon, <1>1, <2>2, TextOrder
    <2> QED
      BY <1>1, <2>1, <2>3, ResAssumption
  <1>7. Timed(v, now) /\ Held(v, lease', now)
    BY <1>1, <1>3, <1>5, SettingsAssumption DEF Timed, Held
  <1> QED
    BY Zenon, <1>2, <1>3, <1>5, <1>6, <1>7, PromptMoves

(* A step of an owner that leaves the lease alone.                         *)
LEMMA PromptOwns ==
  ASSUME PromptInv, IInv', NEW c \in Controllers, NEW v \in Controller,
         Becomes(c, v), UNCHANGED <<now, tenure, lease>>, v.tok = ctl[c].tok,
         Timed(v, now), Holding(v) => Held(v, lease, now)
  PROVE  PromptInv'
  BY Zenon, PromptMoves

(* A renewal by the lease's holder, and a failed one.                      *)
LEMMA PromptRenewStep ==
  ASSUME PromptInv, IInv', NEW c \in Controllers, RenewBetweenAttempts(c) \/ Heartbeat(c)
  PROVE  PromptInv'
  <1> DEFINE w == ctl[c]
             own == [w EXCEPT !.pc = "own", !.stamp = 0]
             release == [w EXCEPT !.pc = "release", !.stamp = 0]
             attempt == [w EXCEPT !.pc = "attempt", !.stamp = 0]
             quit == [w EXCEPT !.pc = "quit", !.stamp = 0, !.wake = 0,
                               !.cancelled = TRUE]
  <1>0. /\ w \in Controller /\ lease \in Lease /\ w.tok # 0 /\ w.stamp = now
        /\ UNCHANGED <<now, tenure>> /\ now \in Nat /\ w.due \in Nat /\ w.wake \in Nat
        /\ Timed(w, now)
    BY Zenon, OnePrompt, OneController
       DEF RenewBetweenAttempts, Heartbeat, Owning, Timed
  <1>1. own \in Controller /\ release \in Controller /\ attempt \in Controller
    BY ZenonT(60), <1>0 DEF Controller, Owning
  <1>2. quit \in Controller
    BY ZenonT(60), <1>0 DEF Controller, Owning
  <1>3. /\ own.pc = "own" /\ own.tok = w.tok /\ own.due = w.due
        /\ attempt.pc = "attempt" /\ attempt.tok = w.tok /\ attempt.wake = w.wake
        /\ attempt.fetch = w.fetch
    BY Zenon, <1>0 DEF Controller
  <1>4. /\ release.pc = "release" /\ release.tok = w.tok
        /\ quit.pc = "quit" /\ quit.tok = w.tok
    BY Zenon, <1>0 DEF Controller
  <1>5. \/ /\ lease' = [lease EXCEPT !.exp = now + TTL] /\ lease.tok = w.tok
           /\ \/ w.pc = "renew" /\ Becomes(c, own)
              \/ w.pc = "beat" /\ Becomes(c, attempt)
        \/ lease' = lease /\ (Becomes(c, release) \/ Becomes(c, quit))
    BY Zenon, <1>0 DEF RenewBetweenAttempts, Heartbeat, RenewLease, Renewable
  <1> HIDE DEF own, release, attempt, quit
  <1>6. CASE /\ lease' = [lease EXCEPT !.exp = now + TTL] /\ lease.tok = w.tok
             /\ \/ w.pc = "renew" /\ Becomes(c, own)
                \/ w.pc = "beat" /\ Becomes(c, attempt)
    <2>1. ASSUME NEW d \in Controllers \ {c} PROVE ~Holding(ctl[d])
      BY Zenon, <1>0, <1>6, OnePrompt DEF PromptInv, Held
    <2>2. lease'.tok = w.tok /\ lease'.exp = now + TTL
      BY Zenon, <1>0, <1>6 DEF Lease
    <2>3. CASE w.pc = "renew" /\ Becomes(c, own)
      <3>1. Timed(own, now) /\ Held(own, lease', now)
        BY <1>0, <1>3, <2>2, SettingsAssumption DEF Timed, Held
      <3> QED
        BY Zenon, <1>0, <1>1, <1>3, <2>1, <2>3, <3>1, PromptMoves
    <2>4. CASE w.pc = "beat" /\ Becomes(c, attempt)
      <3>1. w.wake = now + Renew /\ w.fetch # "none"
        BY Zenon, <1>0, <2>4 DEF Timed
      <3>2. Timed(attempt, now) /\ Held(attempt, lease', now)
        BY <1>0, <1>3, <2>2, <3>1, SettingsAssumption DEF Timed, Held
      <3> QED
        BY Zenon, <1>0, <1>1, <1>3, <2>1, <2>4, <3>2, PromptMoves
    <2> QED
      BY Zenon, <1>6, <2>3, <2>4
  <1>7. CASE lease' = lease /\ (Becomes(c, release) \/ Becomes(c, quit))
    <2>1. /\ Timed(release, now) /\ ~Holding(release)
          /\ Timed(quit, now) /\ ~Holding(quit)
      BY Zenon, <1>4 DEF Timed, Holding
    <2> QED
      BY Zenon, <1>0, <1>1, <1>2, <1>4, <1>7, <2>1, PromptOwns
  <1> QED
    BY Zenon, <1>5, <1>6, <1>7

(* A release deletes only the releasing controller's row, and a start or a *)
(* crash none.                                                             *)
LEMMA PromptEndStep ==
  ASSUME PromptInv, IInv', NEW c \in Controllers, ReleaseLease(c) \/ Start(c) \/ Crash(c)
  PROVE  PromptInv'
  <1>1. PICK v \in {Off, Goes(Off, "contend"), Goes(Off, "exited")} : Becomes(c, v)
    BY Zenon DEF ReleaseLease, Start, Crash, Returned
  <1>2. v \in Controller /\ v.pc \notin Owning /\ v.pc # "acquire"
    BY Zenon, OffRecords DEF Owning
  <1>3. UNCHANGED <<now, tenure>>
    BY Zenon DEF ReleaseLease, Start, Crash
  <1>4. lease' = lease \/ \A d \in Controllers \ {c} : ~Holding(ctl[d])
    <2>1. CASE lease' # lease
      <3>1. lease.tok = ctl[c].tok /\ ctl[c].pc = "release"
        BY Zenon, <2>1 DEF ReleaseLease, Start, Crash
      <3>2. ctl[c].tok # 0
        BY Zenon, <3>1, OnePrompt, OneController DEF Owning
      <3> QED
        BY Zenon, <3>1, <3>2, OnePrompt DEF PromptInv, Held
    <2> QED
      BY Zenon, <2>1
  <1> QED
    BY Zenon, <1>1, <1>2, <1>3, <1>4, PromptWaits

(* A fetch goroutine does not move its controller, and goes on fetching.   *)
LEMMA PromptFetchStep ==
  ASSUME PromptInv, IInv', NEW c \in Controllers, Fetch(c)
  PROVE  PromptInv'
  <1> DEFINE w == ctl[c]
  <1>0. /\ w \in Controller /\ UNCHANGED <<now, lease, tenure>>
        /\ Timed(w, now) /\ (Holding(w) => Held(w, lease, now))
    BY Zenon, OnePrompt, OneController
       DEF Fetch, FetchCheck, FetchCall, FetchCommit, FetchFail
  <1>2. PICK stage \in Fetching \cup Fetched : Becomes(c, [w EXCEPT !.fetch = stage])
    BY Zenon DEF Fetch, FetchCheck, FetchCall, FetchCommit, FetchFail, Fetches,
           Fetching, Fetched
  <1> DEFINE v == [w EXCEPT !.fetch = stage]
  <1>3. v \in Controller
    BY Zenon, <1>0 DEF Controller
  <1>4. /\ v.pc = w.pc /\ v.tok = w.tok /\ v.stamp = w.stamp /\ v.wake = w.wake
        /\ v.due = w.due /\ v.fetch # "none"
    BY Zenon, <1>0 DEF Controller, Fetching, Fetched
  <1>5. Becomes(c, v)
    BY Zenon, <1>2
  <1> HIDE DEF v
  <1>6. Timed(v, now) /\ (Holding(v) => Held(v, lease, now))
    BY Zenon, <1>0, <1>4 DEF Timed, Held, Holding
  <1> QED
    BY Zenon, <1>0, <1>3, <1>4, <1>5, <1>6, PromptOwns

(* Cancelling a context changes no timer.                                  *)
LEMMA PromptStopStep ==
  ASSUME PromptInv, IInv', NEW c \in Controllers, Stop(c)
  PROVE  PromptInv'
  <1> DEFINE w == ctl[c]
             v == [w EXCEPT !.stop = TRUE]
  <1>0. /\ w \in Controller /\ UNCHANGED <<now, lease, tenure>>
        /\ Timed(w, now) /\ (Holding(w) => Held(w, lease, now))
    BY Zenon, OnePrompt, OneController DEF Stop
  <1>1. v \in Controller
    BY ZenonT(60), <1>0 DEF Controller
  <1>2. /\ v.pc = w.pc /\ v.tok = w.tok /\ v.stamp = w.stamp /\ v.wake = w.wake
        /\ v.due = w.due /\ v.fetch = w.fetch
    BY Zenon, <1>0 DEF Controller
  <1>3. Becomes(c, Off) \/ Becomes(c, v)
    BY Zenon DEF Stop
  <1> HIDE DEF v
  <1>4. CASE Becomes(c, Off)
    BY Zenon, <1>0, <1>4, OffRecords, PromptWaits DEF Owning
  <1>5. CASE Becomes(c, v)
    <2>1. Timed(v, now) /\ (Holding(v) => Held(v, lease, now))
      BY Zenon, <1>0, <1>2 DEF Timed, Held, Holding
    <2> QED
      BY Zenon, <1>0, <1>1, <1>2, <1>5, <2>1, PromptOwns
  <1> QED
    BY Zenon, <1>3, <1>4, <1>5

(* The owner's loop: timers are served on time, so a lease gets no older   *)
(* than Held says.                                                         *)
LEMMA PromptOwningStep ==
  ASSUME PromptInv, RoomyLease, IInv', NEW c \in Controllers,
         \/ Own(c) \/ Sleep(c) \/ StartHeartbeat(c) \/ AttemptDone(c)
         \/ AttemptStopped(c) \/ AttemptTimeout(c) \/ Drained(c) \/ NextDue(c)
  PROVE  PromptInv'
  <1> DEFINE w == ctl[c]
  <1>0. /\ w \in Controller /\ UNCHANGED <<now, tenure, lease>>
        /\ now \in Nat /\ retry \in Nat /\ w.due \in Nat /\ w.wake \in Nat /\ lease.exp \in Nat
        /\ Timed(w, now) /\ (Holding(w) => Held(w, lease, now))
    BY ZenonT(60), OnePrompt, OneController
       DEF Own, Sleep, StartHeartbeat, AttemptDone, AttemptStopped,
           AttemptTimeout, Drained, NextDue, Lease
  <1>g. ASSUME NEW v \in Controller, Becomes(c, v), v.pc \in {"release", "quit"},
               v.tok = w.tok
        PROVE  PromptInv'
    <2>1. Timed(v, now) /\ ~Holding(v)
      BY Zenon, <1>g DEF Timed, Holding
    <2> QED
      BY Zenon, <1>0, <1>g, <2>1, PromptOwns
  <1>1. CASE Own(c)
    <2> DEFINE a == now + Timeout
               b == now + Renew
               k == now + Least(w.due - now, Renew)
    <2>0. Held(w, lease, now) /\ w.pc = "own"
      BY Zenon, <1>0, <1>1 DEF Own, Holding, Owning
    <2>1. a \in Nat /\ b \in Nat /\ (now < w.due => k \in Nat)
      BY <1>0, SettingsAssumption DEF Least
    <2>2. now < w.due => \/ w.due <= now + Renew /\ k = w.due
                         \/ now + Renew < w.due /\ k = now + Renew
      BY <1>0, SettingsAssumption DEF Least
    <2>3. b = now + Renew
      OBVIOUS
    <2> HIDE DEF a, b, k
    <2> DEFINE r == Goes(w, "release")
               v == [w EXCEPT !.pc = "attempt", !.fetch = "check", !.due = a, !.wake = b]
               u == [w EXCEPT !.pc = "sleep", !.wake = k]
    <2>4. \/ Becomes(c, r)
          \/ w.due <= now /\ Becomes(c, v)
          \/ now < w.due /\ Becomes(c, u)
      BY <1>0, <1>1 DEF Own, a, b, k
    <2>5. CASE Becomes(c, r)
      <3>1. r \in Controller /\ r.pc = "release" /\ r.tok = w.tok
        BY Zenon, <1>0 DEF Controller, Owning, Goes
      <3> QED
        BY Zenon, <1>g, <2>5, <3>1
    <2>6. CASE w.due <= now /\ Becomes(c, v)
      <3>1. v \in Controller
        BY ZenonT(60), <1>0, <2>1 DEF Controller, Owning, Fetching
      <3>2. v.pc = "attempt" /\ v.tok = w.tok /\ v.wake = b /\ v.fetch = "check"
        BY Zenon, <1>0 DEF Controller
      <3> HIDE DEF v
      <3>3. Timed(v, now) /\ Held(v, lease, now)
        BY SMTT(30), <1>0, <2>0, <2>3, <2>6, <3>2, SettingsAssumption DEF Timed, Held
      <3> QED
        BY Zenon, <1>0, <2>6, <3>1, <3>2, <3>3, PromptOwns
    <2>7. CASE now < w.due /\ Becomes(c, u)
      <3>1. u \in Controller
        BY ZenonT(60), <1>0, <2>1, <2>7 DEF Controller, Owning
      <3>2. u.pc = "sleep" /\ u.tok = w.tok /\ u.wake = k /\ u.due = w.due
        BY Zenon, <1>0 DEF Controller
      <3> HIDE DEF u
      <3>3. Timed(u, now) /\ Held(u, lease, now)
        BY SMTT(60), <1>0, <2>0, <2>2, <2>7, <3>2, SettingsAssumption DEF Timed, Held
      <3> QED
        BY ZenonT(60), <1>0, <2>7, <3>1, <3>2, <3>3, PromptOwns
    <2> QED
      BY Zenon, <2>4, <2>5, <2>6, <2>7
  <1>2. CASE Sleep(c)
    <2> DEFINE r == Goes(w, "release")
               v == [w EXCEPT !.pc = "renew", !.stamp = now, !.wake = 0]
               u == [w EXCEPT !.pc = "own", !.wake = 0]
    <2>0. Held(w, lease, now) /\ w.pc = "sleep" /\ now <= w.wake /\ w.wake <= w.due
      BY Zenon, <1>0, <1>2 DEF Sleep, Holding, Owning, Timed
    <2>1. \/ Becomes(c, r)
          \/ now = w.wake /\ now < w.due /\ Becomes(c, v)
          \/ now = w.wake /\ now = w.due /\ Becomes(c, u)
      BY <1>0, <1>2, <2>0 DEF Sleep
    <2>2. CASE Becomes(c, r)
      <3>1. r \in Controller /\ r.pc = "release" /\ r.tok = w.tok
        BY Zenon, <1>0 DEF Controller, Owning, Goes
      <3> QED
        BY Zenon, <1>g, <2>2, <3>1
    <2>3. CASE now = w.wake /\ now < w.due /\ Becomes(c, v)
      <3>1. v \in Controller
        BY ZenonT(60), <1>0 DEF Controller, Owning
      <3>2. v.pc = "renew" /\ v.tok = w.tok /\ v.stamp = now
        BY Zenon, <1>0 DEF Controller
      <3> HIDE DEF v
      <3>3. Timed(v, now) /\ Held(v, lease, now)
        BY <1>0, <2>0, <2>3, <3>2, SettingsAssumption DEF Timed, Held
      <3> QED
        BY ZenonT(60), <1>0, <2>3, <3>1, <3>2, <3>3, PromptOwns
    <2>4. CASE now = w.wake /\ now = w.due /\ Becomes(c, u)
      <3>1. u \in Controller
        BY ZenonT(60), <1>0 DEF Controller, Owning
      <3>2. u.pc = "own" /\ u.tok = w.tok /\ u.due = w.due
        BY Zenon, <1>0 DEF Controller
      <3> HIDE DEF u
      <3>3. Timed(u, now) /\ Held(u, lease, now)
        BY SMTT(30), <1>0, <2>0, <2>4, <3>2, SettingsAssumption DEF Timed, Held
      <3> QED
        BY ZenonT(60), <1>0, <2>4, <3>1, <3>2, <3>3, PromptOwns
    <2> QED
      BY Zenon, <2>1, <2>2, <2>3, <2>4
  <1>3. CASE StartHeartbeat(c)
    <2> DEFINE b == now + Renew
    <2>0. /\ Held(w, lease, now) /\ w.pc = "attempt" /\ now = w.wake /\ w.fetch # "none"
          /\ b \in Nat /\ b = now + Renew
      BY <1>0, <1>3, SettingsAssumption DEF StartHeartbeat, Holding, Owning, Timed
    <2>1. Becomes(c, [w EXCEPT !.pc = "beat", !.stamp = now, !.wake = b])
      BY Zenon, <1>3 DEF StartHeartbeat
    <2> HIDE DEF b
    <2> DEFINE v == [w EXCEPT !.pc = "beat", !.stamp = now, !.wake = b]
    <2>2. v \in Controller
      BY ZenonT(60), <1>0, <2>0 DEF Controller, Owning
    <2>3. /\ v.pc = "beat" /\ v.tok = w.tok /\ v.stamp = now /\ v.wake = b
          /\ v.fetch = w.fetch
      BY Zenon, <1>0 DEF Controller
    <2>4. Becomes(c, v)
      BY Zenon, <2>1
    <2> HIDE DEF v
    <2>5. Timed(v, now) /\ Held(v, lease, now)
      BY Zenon, <1>0, <2>0, <2>3, SettingsAssumption DEF Timed, Held
    <2> QED
      BY ZenonT(60), <1>0, <2>2, <2>3, <2>4, <2>5, PromptOwns
  <1>4. CASE AttemptDone(c)
    <2> DEFINE v == [w EXCEPT !.pc = "release", !.wake = 0]
               u == [w EXCEPT !.pc = "next", !.wake = 0]
    <2>0. Held(w, lease, now) /\ w.pc = "attempt" /\ now <= w.wake
      BY Zenon, <1>0, <1>4 DEF AttemptDone, Holding, Owning, Timed
    <2>1. v \in Controller /\ u \in Controller
      BY ZenonT(60), <1>0 DEF Controller, Owning
    <2>2. v.pc = "release" /\ v.tok = w.tok /\ u.pc = "next" /\ u.tok = w.tok
      BY Zenon, <1>0 DEF Controller
    <2>3. Becomes(c, v) \/ Becomes(c, u)
      BY ZenonT(60), <1>4 DEF AttemptDone
    <2> HIDE DEF v, u
    <2>4. Timed(u, now) /\ Held(u, lease, now)
      BY SMTT(30), <1>0, <2>0, <2>2, SettingsAssumption DEF Timed, Held
    <2>5. CASE Becomes(c, v)
      BY Zenon, <1>g, <2>1, <2>2, <2>5
    <2>6. CASE Becomes(c, u)
      BY ZenonT(60), <1>0, <2>1, <2>2, <2>4, <2>6, PromptOwns
    <2> QED
      BY Zenon, <2>3, <2>5, <2>6
  <1>5. CASE AttemptStopped(c)
    <2> DEFINE v == [w EXCEPT !.pc = "quit", !.wake = 0, !.cancelled = TRUE]
    <2>1. v \in Controller
      BY ZenonT(60), <1>0 DEF Controller, Owning
    <2>2. v.pc = "quit" /\ v.tok = w.tok
      BY Zenon, <1>0 DEF Controller
    <2>3. Becomes(c, v)
      BY Zenon, <1>5 DEF AttemptStopped
    <2> QED
      BY ZenonT(60), <1>g, <2>1, <2>2, <2>3
  <1>6. CASE AttemptTimeout(c)
    <2> DEFINE v == [w EXCEPT !.pc = "drain", !.wake = 0]
    <2>0. /\ Held(w, lease, now) /\ w.pc = "attempt" /\ now <= w.wake
          /\ w.due <= now /\ w.fetch # "none"
      BY Zenon, <1>0, <1>6 DEF AttemptTimeout, Holding, Owning, Timed
    <2>1. v \in Controller
      BY ZenonT(60), <1>0 DEF Controller, Owning
    <2>2. v.pc = "drain" /\ v.tok = w.tok /\ v.due = w.due /\ v.fetch = w.fetch
      BY Zenon, <1>0 DEF Controller
    <2>3. Becomes(c, v)
      BY Zenon, <1>6 DEF AttemptTimeout
    <2> HIDE DEF v
    <2>4. Timed(v, now) /\ Held(v, lease, now)
      BY SMTT(30), <1>0, <2>0, <2>2, SettingsAssumption DEF Timed, Held
    <2> QED
      BY ZenonT(60), <1>0, <2>1, <2>2, <2>3, <2>4, PromptOwns
  <1>7. CASE Drained(c)
    <2> DEFINE v == Goes(w, "release")
               u == Goes(w, "next")
    <2>1. v \in Controller /\ v.pc = "release" /\ v.tok = w.tok
      BY Zenon, <1>0 DEF Controller, Owning, Goes
    <2>2. u \in Controller /\ u.pc = "next" /\ u.tok = w.tok
      BY Zenon, <1>0 DEF Controller, Owning, Goes
    <2>3. Becomes(c, v) \/ (w.pc = "drain" /\ Becomes(c, u))
      BY Zenon, <1>7 DEF Drained, Goes
    <2> HIDE DEF v, u
    <2>4. CASE Becomes(c, v)
      BY Zenon, <1>g, <2>1, <2>4
    <2>5. CASE w.pc = "drain" /\ Becomes(c, u)
      <3>1. Held(w, lease, now)
        BY Zenon, <1>0, <2>5 DEF Holding, Owning
      <3>2. Timed(u, now) /\ Held(u, lease, now)
        BY Zenon, <2>2, <2>5, <3>1 DEF Timed, Held
      <3> QED
        BY Zenon, <1>0, <2>2, <2>5, <3>2, PromptOwns
    <2> QED
      BY Zenon, <2>3, <2>4, <2>5
  <1>8. CASE NextDue(c)
    <2>1. PICK j \in 0..(Cadence \div 10), read \in {TRUE, ~StoreErrors} :
            Becomes(c, [w EXCEPT
                !.pc = "own", !.fetch = "none",
                !.due = IF read /\ ~w.stop /\ retry > now + Cadence + j
                          THEN retry ELSE now + Cadence + j])
      BY ZenonT(60), <1>8 DEF NextDue
    <2> DEFINE k == IF read /\ ~w.stop /\ retry > now + Cadence + j
                      THEN retry ELSE now + Cadence + j
    <2>2. k \in Nat /\ now + Renew < k
      BY <1>0, SettingsAssumption DEF RoomyLease
    <2>3. Becomes(c, [w EXCEPT !.pc = "own", !.fetch = "none", !.due = k])
      BY Zenon, <2>1
    <2>4. Held(w, lease, now) /\ w.pc = "next"
      BY ZenonT(60), <1>0, <1>8 DEF NextDue, Holding, Owning
    <2> HIDE DEF k
    <2> DEFINE v == [w EXCEPT !.pc = "own", !.fetch = "none", !.due = k]
    <2>5. v \in Controller
      BY ZenonT(60), <1>0, <2>2 DEF Controller, Owning
    <2>6. v.pc = "own" /\ v.tok = w.tok /\ v.due = k
      BY Zenon, <1>0 DEF Controller
    <2>7. Becomes(c, v)
      BY Zenon, <2>3
    <2> HIDE DEF v
    <2>8. Timed(v, now) /\ Held(v, lease, now)
      BY SMTT(60), <1>0, <2>2, <2>4, <2>6, SettingsAssumption DEF Timed, Held
    <2> QED
      BY ZenonT(60), <1>0, <2>5, <2>6, <2>7, <2>8, PromptOwns
  <1> QED
    BY Zenon, <1>1, <1>2, <1>3, <1>4, <1>5, <1>6, <1>7, <1>8

(* Time passes only while every owner sleeps or waits for the authority,   *)
(* and then not past its timer.                                            *)
LEMMA PromptTickStep ==
  ASSUME PromptInv, IInv', PromptTick
  PROVE  PromptInv'
  <1>1. now' = now + 1 /\ UNCHANGED <<lease, tenure, ctl>>
    BY Zenon DEF PromptTick, Tick
  <1>2. ASSUME NEW c \in Controllers
        PROVE  Timed(ctl[c], now + 1) /\ (Holding(ctl[c]) => Held(ctl[c], lease, now + 1))
    <2>0. /\ Timed(ctl[c], now) /\ (Holding(ctl[c]) => Held(ctl[c], lease, now))
          /\ now \in Nat /\ ctl[c].wake \in Nat /\ ctl[c].due \in Nat
          /\ ctl[c].fetch \in {"none"} \cup Fetching \cup Fetched
      BY Zenon, OnePrompt, OneController DEF Controller
    <2>1. ~Ready(ctl[c])
      BY Zenon DEF PromptTick
    <2>2. /\ ctl[c].pc \notin {"acquire", "own", "renew", "beat", "next"}
          /\ ctl[c].pc \in {"sleep", "attempt"} => now < ctl[c].wake
      BY <2>0, <2>1 DEF Ready
    <2>3. ctl[c].pc # "drain"
      BY Zenon, <2>0, <2>1 DEF Ready, Timed, CtxDone, Fetching, Fetched
    <2>4. Timed(ctl[c], now + 1)
      BY SMTT(30), <2>0, <2>2, <2>3 DEF Timed
    <2>5. ASSUME Holding(ctl[c]) PROVE Held(ctl[c], lease, now + 1)
      BY Zenon, <2>0, <2>2, <2>3, <2>5 DEF Held
    <2> QED
      BY Zenon, <2>4, <2>5
  <1> QED
    BY Zenon, <1>1, <1>2 DEF PromptInv, Timed, Held, Holding

(* Every step of the prompt machine preserves its invariant.               *)
LEMMA NextPrompt == ASSUME RoomyLease PROVE PromptInv /\ [PromptNext]_vars => PromptInv'
  <1> SUFFICES ASSUME PromptInv, [PromptNext]_vars PROVE PromptInv'
    OBVIOUS
  <1>0. IInv'
    <2>1. [Next]_vars
      BY Zenon DEF PromptNext, Next, PromptTick
    <2> QED
      BY Zenon, <2>1, NextIInv DEF PromptInv
  <1>1. ASSUME NEW c \in Controllers,
               Start(c) \/ Loop(c) \/ Fetch(c) \/ Stop(c) \/ Crash(c)
        PROVE  PromptInv'
    BY Zenon, <1>0, <1>1, PromptWaitingStep, PromptOwningStep, PromptAcquireStep,
       PromptRenewStep, PromptEndStep, PromptFetchStep, PromptStopStep DEF Loop
  <1>2. CASE Foreground
    BY Zenon, <1>0, <1>2 DEF Foreground, PromptInv, Timed, Held, Holding
  <1>3. CASE PromptTick
    BY Zenon, <1>0, <1>3, PromptTickStep
  <1>4. CASE UNCHANGED vars
    BY Zenon, <1>0, <1>4 DEF vars, PromptInv, Timed, Held, Holding
  <1> QED
    BY Zenon, <1>1, <1>2, <1>3, <1>4 DEF PromptNext

(* Where the machine keeps up and the settings leave three renewal         *)
(* intervals and a second in the life of a lease, an owner holds an        *)
(* unexpired lease until it gives up: no contender takes it over.          *)
THEOREM PromptOwnersHold ==
  ASSUME RoomyLease
  PROVE  PromptSpec => []PromptOwnerHoldsLease
  <1>1. PromptInv => PromptOwnerHoldsLease
    <2> SUFFICES ASSUME PromptInv, NEW c \in Controllers, Owns(c),
                        ctl[c].pc \notin {"release", "quit"}
                 PROVE  lease.tok = ctl[c].tok /\ lease.exp > now
      BY Zenon DEF PromptOwnerHoldsLease
    <2>1. Holding(ctl[c])
      BY Zenon DEF Owns, Holding
    <2>2. now \in Nat /\ lease.exp \in Nat
      BY Zenon, OnePrompt, OneController DEF Lease
    <2> QED
      BY <2>1, <2>2, HeldLong, ResAssumption
  <1> QED
    BY <1>1, InitPrompt, NextPrompt, PTL DEF PromptSpec

-----------------------------------------------------------------------------
(* How long an expired lease can keep a contender away: a wait after a     *)
(* refusal ends at most a second, a renewal interval and its jitter after  *)
(* the expiry of the lease in the row.                                     *)
Overdue(row) == row.exp + Res + Renew + Renew \div 4

(* A store call runs at its stamp, a lease that was refused expired less   *)
(* than a second ago, and a wait ends in time.                             *)
Contends(v, row, t) ==
    /\ v.pc \in {"acquire", "renew", "beat"} => v.stamp = t
    /\ v.pc = "observe" /\ row.tok # 0 => t < row.exp + Res
    /\ v.pc = "wait" =>
         /\ t <= v.wake /\ v.wake <= t + Renew + Renew \div 4
         /\ row.tok # 0 => v.wake <= Overdue(row)

ContendInv == IInv /\ \A c \in Controllers : Contends(ctl[c], lease, now)

LEMMA OneContender ==
  ASSUME ContendInv, NEW c \in Controllers
  PROVE  IInv /\ Contends(ctl[c], lease, now) /\ ctl[c] \in Controller
  BY Zenon, OneController DEF ContendInv

LEMMA Quarter == Renew \div 4 \in Nat
  BY SettingsAssumption

(* A lease that is released or written now delays nobody.                  *)
LEMMA NewRow ==
  ASSUME NEW v \in Controller, NEW row \in Lease, NEW new \in Lease, NEW t \in Nat,
         Contends(v, row, t), new = row \/ new.tok = 0 \/ new.exp = t + TTL
  PROVE  Contends(v, new, t)
  <1>1. v.wake \in Nat /\ new.exp \in Nat /\ row.exp \in Nat
    BY Zenon DEF Controller, Lease
  <1>2. CASE new = row \/ new.tok = 0
    BY Zenon, <1>2 DEF Contends
  <1>3. CASE new.exp = t + TTL
    BY <1>1, <1>3, Quarter, SettingsAssumption, ResAssumption DEF Contends, Overdue
  <1> QED
    BY <1>2, <1>3

(* A step of controller c to v.                                            *)
LEMMA ContenderMoves ==
  ASSUME ContendInv, IInv', NEW c \in Controllers, NEW v, Becomes(c, v), now' = now,
         lease' = lease \/ lease'.tok = 0 \/ lease'.exp = now + TTL,
         Contends(v, lease, now)
  PROVE  ContendInv'
  <1>0. now \in Nat /\ lease \in Lease /\ lease' \in Lease
    BY Zenon, OneController DEF ContendInv, IInv, TypeOK
  <1>1. ctl'[c] = v /\ \A d \in Controllers \ {c} : ctl'[d] = ctl[d]
    BY Zenon DEF ContendInv, Becomes, IInv, TypeOK
  <1>2. ASSUME NEW d \in Controllers PROVE Contends(ctl'[d], lease', now')
    <2>1. ctl'[d] \in Controller
      BY Zenon DEF IInv, TypeOK
    <2>2. Contends(ctl'[d], lease, now)
      BY Zenon, <1>1, OneContender
    <2>3. Contends(ctl'[d], lease', now)
      BY Zenon, <1>0, <2>1, <2>2, NewRow
    <2> QED
      BY Zenon, <2>3
  <1> QED
    BY Zenon, <1>2 DEF ContendInv, Contends

(* A step to a place that Contends says nothing about.                     *)
LEMMA ContenderLeaves ==
  ASSUME NEW v, v.pc \notin {"acquire", "renew", "beat", "observe", "wait"},
         NEW row, NEW t
  PROVE  Contends(v, row, t)
  BY Zenon DEF Contends

(* The contending loop.                                                    *)
LEMMA ContendingStep ==
  ASSUME ContendInv, IInv', ~StoreErrors, NEW c \in Controllers,
         Contend(c) \/ AcquireRefused(c) \/ AcquireFailed(c) \/ Observe(c) \/ Wait(c)
  PROVE  ContendInv'
  <1> DEFINE w == ctl[c]
  <1>0. /\ w \in Controller /\ UNCHANGED <<now, lease>>
        /\ now \in Nat /\ lease.exp \in Nat /\ w.stamp \in Nat
        /\ Contends(w, lease, now) /\ Off.pc = "off"
    BY ZenonT(60), OneContender, OneController, OffRecords
       DEF Contend, AcquireRefused, AcquireFailed, Observe, Wait, Lease
  <1>m. ASSUME NEW v, Becomes(c, v), Contends(v, lease, now) PROVE ContendInv'
    BY Zenon, <1>0, <1>m, ContenderMoves
  <1>e. ASSUME Becomes(c, Off) PROVE ContendInv'
    BY Zenon, <1>0, <1>e, <1>m, ContenderLeaves
  <1>1. CASE Contend(c)
    <2> DEFINE v == [w EXCEPT !.pc = "acquire", !.stamp = now]
    <2>1. v.pc = "acquire" /\ v.stamp = now
      BY Zenon, <1>0 DEF Controller
    <2>2. Becomes(c, Off) \/ Becomes(c, v)
      BY Zenon, <1>1 DEF Contend
    <2> HIDE DEF v
    <2>3. Contends(v, lease, now)
      BY Zenon, <2>1 DEF Contends
    <2> QED
      BY Zenon, <1>e, <1>m, <2>2, <2>3
  <1>2. CASE AcquireRefused(c)
    <2> DEFINE v == [w EXCEPT !.pc = "observe", !.stamp = 0]
    <2>1. v.pc = "observe"
      BY Zenon, <1>0 DEF Controller
    <2>2. Becomes(c, v) /\ ~Free(w) /\ w.pc = "acquire"
      BY Zenon, <1>2 DEF AcquireRefused
    <2> HIDE DEF v
    <2>3. Text(now) < Text(lease.exp)
      BY <1>0, <2>2, ResAssumption DEF Free, Contends, Text
    <2>4. now < lease.exp + Res
      BY Zenon, <1>0, <2>3, TextStrict
    <2>5. Contends(v, lease, now)
      BY Zenon, <2>1, <2>4 DEF Contends
    <2> QED
      BY Zenon, <1>m, <2>2, <2>5
  <1>3. CASE AcquireFailed(c)
    BY Zenon, <1>3, <1>e DEF AcquireFailed
  <1>4. CASE Observe(c)
    <2>0. PICK j \in 0..(Renew \div 4) :
            Becomes(c, [w EXCEPT !.pc = "wait",
              !.wake = now + Least(IF lease.exp > now THEN lease.exp - now ELSE Renew, Renew) + j])
      BY ZenonT(60), <1>4 DEF Observe
    <2> DEFINE k == now + Least(IF lease.exp > now THEN lease.exp - now ELSE Renew, Renew) + j
               v == [w EXCEPT !.pc = "wait", !.wake = k]
    <2>1. /\ now <= k /\ k <= now + Renew + Renew \div 4
          /\ k <= lease.exp + Renew \div 4 \/ (lease.exp <= now /\ k <= now + Renew + Renew \div 4)
      BY <1>0, Quarter, SettingsAssumption DEF Least
    <2>2. Becomes(c, v)
      BY Zenon, <2>0
    <2> HIDE DEF k
    <2>3. v.pc = "wait" /\ v.wake = k
      BY Zenon, <1>0 DEF Controller
    <2> HIDE DEF v
    <2>4. k \in Nat
      BY <1>0, Quarter, SettingsAssumption DEF k, Least
    <2>5. lease.tok # 0 => now < lease.exp + Res
      BY Zenon, <1>0, <1>4 DEF Observe, Contends
    <2>6. lease.tok # 0 => k <= Overdue(lease)
      BY <1>0, <2>1, <2>4, <2>5, Quarter, SettingsAssumption, ResAssumption DEF Overdue
    <2>7. Contends(v, lease, now)
      BY Zenon, <2>1, <2>3, <2>6 DEF Contends
    <2> QED
      BY Zenon, <1>m, <2>2, <2>7
  <1>5. CASE Wait(c)
    <2> DEFINE v == [w EXCEPT !.pc = "contend", !.wake = 0]
    <2>1. v.pc = "contend"
      BY Zenon, <1>0 DEF Controller
    <2>2. Becomes(c, Off) \/ Becomes(c, v)
      BY Zenon, <1>5 DEF Wait
    <2> HIDE DEF v
    <2> QED
      BY Zenon, <1>e, <1>m, <2>1, <2>2, ContenderLeaves
  <1> QED
    BY Zenon, <1>1, <1>2, <1>3, <1>4, <1>5

(* The steps that write the lease: at their stamp, which is now.           *)
LEMMA ContendLeaseStep ==
  ASSUME ContendInv, IInv', NEW c \in Controllers,
         AcquireLease(c) \/ RenewBetweenAttempts(c) \/ Heartbeat(c) \/ ReleaseLease(c)
  PROVE  ContendInv'
  <1> DEFINE w == ctl[c]
             new == [Off EXCEPT !.pc = "own", !.tok = tenure + 1, !.due = now]
             own == [w EXCEPT !.pc = "own", !.stamp = 0]
             release == [w EXCEPT !.pc = "release", !.stamp = 0]
             attempt == [w EXCEPT !.pc = "attempt", !.stamp = 0]
             quit == [w EXCEPT !.pc = "quit", !.stamp = 0, !.wake = 0,
                               !.cancelled = TRUE]
  <1>0. /\ w \in Controller /\ lease \in Lease /\ now' = now
        /\ Contends(w, lease, now)
    BY Zenon, OneContender, OneController
       DEF AcquireLease, RenewBetweenAttempts, Heartbeat, ReleaseLease
  <1>1. lease' = lease \/ lease'.tok = 0 \/ lease'.exp = now + TTL
    <2>1. CASE AcquireLease(c)
      BY Zenon, <1>0, <2>1 DEF AcquireLease, Contends
    <2>2. CASE RenewBetweenAttempts(c) \/ Heartbeat(c)
      BY Zenon, <1>0, <2>2 DEF RenewBetweenAttempts, Heartbeat, RenewLease, Contends, Lease
    <2>3. CASE ReleaseLease(c)
      <3>1. NoLease.tok = 0
        BY Zenon DEF NoLease
      <3>2. lease' = lease \/ lease' = NoLease
        BY Zenon, <2>3 DEF ReleaseLease
      <3> QED
        BY <3>1, <3>2
    <2> QED
      BY Zenon, <2>1, <2>2, <2>3
  <1>2. /\ new.pc = "own" /\ own.pc = "own" /\ release.pc = "release"
        /\ attempt.pc = "attempt" /\ quit.pc = "quit"
    BY Zenon, <1>0 DEF Controller, Off
  <1>3. \E v : Becomes(c, v) /\ v.pc \in {"off", "exited", "own", "release", "attempt", "quit"}
    <2>1. \/ Becomes(c, new) \/ Becomes(c, own) \/ Becomes(c, release)
          \/ Becomes(c, attempt) \/ Becomes(c, quit)
          \/ Becomes(c, Off) \/ Becomes(c, Goes(Off, "exited"))
      BY Zenon DEF AcquireLease, RenewBetweenAttempts, Heartbeat, RenewLease, ReleaseLease,
                   Returned
    <2> HIDE DEF new, own, release, attempt, quit
    <2> QED
      BY Zenon, <1>2, <2>1, OffRecords
  <1> QED
    BY Zenon, <1>0, <1>1, <1>3, ContenderLeaves, ContenderMoves

(* The owner's loop without the lease, and what ends a controller.         *)
LEMMA ContendOwningStep ==
  ASSUME ContendInv, IInv', NEW c \in Controllers,
         \/ Own(c) \/ Sleep(c) \/ StartHeartbeat(c) \/ AttemptDone(c)
         \/ AttemptStopped(c) \/ AttemptTimeout(c) \/ Drained(c) \/ NextDue(c)
         \/ Start(c) \/ Crash(c)
  PROVE  ContendInv'
  <1> DEFINE w == ctl[c]
  <1>0. w \in Controller /\ UNCHANGED <<now, lease>>
    BY ZenonT(60), OneContender
       DEF Own, Sleep, StartHeartbeat, AttemptDone, AttemptStopped, AttemptTimeout,
           Drained, NextDue, Start, Crash
  <1>m. ASSUME NEW v, Becomes(c, v), Contends(v, lease, now) PROVE ContendInv'
    BY Zenon, <1>0, <1>m, ContenderMoves
  <1>1. CASE Own(c)
    <2>1. PICK d, k : \/ Becomes(c, Goes(w, "release"))
                      \/ Becomes(c, [w EXCEPT !.pc = "attempt", !.fetch = "check",
                                              !.due = d, !.wake = k])
                      \/ Becomes(c, [w EXCEPT !.pc = "sleep", !.wake = k])
      BY ZenonT(60), <1>1 DEF Own
    <2>2. /\ Goes(w, "release").pc = "release"
          /\ [w EXCEPT !.pc = "attempt", !.fetch = "check", !.due = d, !.wake = k].pc = "attempt"
          /\ [w EXCEPT !.pc = "sleep", !.wake = k].pc = "sleep"
      BY Zenon, <1>0 DEF Controller, Goes
    <2>3. \E v : Becomes(c, v) /\ v.pc \in {"release", "attempt", "sleep"}
      BY Zenon, <2>1, <2>2
    <2> QED
      BY Zenon, <1>m, <2>3, ContenderLeaves
  <1>2. CASE Sleep(c)
    <2> DEFINE v == [w EXCEPT !.pc = "renew", !.stamp = now, !.wake = 0]
               own == [w EXCEPT !.pc = "own", !.wake = 0]
               out == Goes(w, "release")
    <2>1. v.pc = "renew" /\ v.stamp = now /\ own.pc = "own" /\ out.pc = "release"
      BY Zenon, <1>0 DEF Controller, Goes
    <2>2. Becomes(c, v) \/ Becomes(c, own) \/ Becomes(c, out)
      BY Zenon, <1>2 DEF Sleep
    <2> HIDE DEF v, own, out
    <2>3. Contends(v, lease, now)
      BY Zenon, <2>1 DEF Contends
    <2> QED
      BY Zenon, <1>m, <2>1, <2>2, <2>3, ContenderLeaves
  <1>3. CASE StartHeartbeat(c)
    <2> DEFINE v == [w EXCEPT !.pc = "beat", !.stamp = now, !.wake = now + Renew]
    <2>1. v.pc = "beat" /\ v.stamp = now
      BY Zenon, <1>0 DEF Controller
    <2>2. Becomes(c, v)
      BY Zenon, <1>3 DEF StartHeartbeat
    <2> HIDE DEF v
    <2>3. Contends(v, lease, now)
      BY Zenon, <2>1 DEF Contends
    <2> QED
      BY Zenon, <1>m, <2>2, <2>3
  <1>4. CASE AttemptDone(c) \/ Drained(c)
    <2> DEFINE P == {"release", "next"}
    <2>1. PICK p \in P : \/ Becomes(c, [w EXCEPT !.pc = p, !.wake = 0])
                         \/ Becomes(c, [w EXCEPT !.pc = p])
      BY ZenonT(60), <1>4 DEF AttemptDone, Drained
    <2>2. [w EXCEPT !.pc = p, !.wake = 0].pc = p /\ [w EXCEPT !.pc = p].pc = p
      BY Zenon, <1>0 DEF Controller
    <2>3. \E v : Becomes(c, v) /\ v.pc \in P
      BY Zenon, <2>1, <2>2
    <2> QED
      BY Zenon, <1>m, <2>3, ContenderLeaves
  <1>5. CASE AttemptStopped(c)
    <2> DEFINE v == [w EXCEPT !.pc = "quit", !.wake = 0, !.cancelled = TRUE]
    <2>1. v.pc = "quit"
      BY Zenon, <1>0 DEF Controller
    <2>2. Becomes(c, v)
      BY Zenon, <1>5 DEF AttemptStopped
    <2> HIDE DEF v
    <2> QED
      BY Zenon, <1>m, <2>1, <2>2, ContenderLeaves
  <1>6. CASE AttemptTimeout(c)
    <2> DEFINE v == [w EXCEPT !.pc = "drain", !.wake = 0]
    <2>1. v.pc = "drain"
      BY Zenon, <1>0 DEF Controller
    <2>2. Becomes(c, v)
      BY Zenon, <1>6 DEF AttemptTimeout
    <2> HIDE DEF v
    <2> QED
      BY Zenon, <1>m, <2>1, <2>2, ContenderLeaves
  <1>7. CASE NextDue(c)
    <2>1. PICK d : Becomes(c, [w EXCEPT !.pc = "own", !.fetch = "none", !.due = d])
      BY ZenonT(60), <1>7 DEF NextDue
    <2>2. [w EXCEPT !.pc = "own", !.fetch = "none", !.due = d].pc = "own"
      BY Zenon, <1>0 DEF Controller
    <2>3. \E v : Becomes(c, v) /\ v.pc = "own"
      BY Zenon, <2>1, <2>2
    <2> QED
      BY Zenon, <1>m, <2>3, ContenderLeaves
  <1>8. CASE Start(c) \/ Crash(c)
    <2>1. \E v : Becomes(c, v) /\ v.pc \in {"off", "contend"}
      BY Zenon, <1>8, OffRecords DEF Start, Crash
    <2> QED
      BY Zenon, <1>m, <2>1, ContenderLeaves
  <1> QED
    BY Zenon, <1>1, <1>2, <1>3, <1>4, <1>5, <1>6, <1>7, <1>8

(* The fetching goroutine and the cancelled context leave the loop alone.  *)
LEMMA ContendFetchStep ==
  ASSUME ContendInv, IInv', NEW c \in Controllers, Fetch(c) \/ Stop(c)
  PROVE  ContendInv'
  <1> DEFINE w == ctl[c]
  <1>0. w \in Controller /\ UNCHANGED <<now, lease>> /\ Contends(w, lease, now)
    BY Zenon, OneContender DEF Fetch, FetchCheck, FetchCall, FetchCommit, FetchFail, Stop
  <1>1. PICK stage : \/ Becomes(c, [w EXCEPT !.fetch = stage])
                     \/ Becomes(c, [w EXCEPT !.stop = TRUE])
                     \/ Becomes(c, Off)
    BY Zenon DEF Fetch, FetchCheck, FetchCall, FetchCommit, FetchFail, Fetches, Stop
  <1> DEFINE v == [w EXCEPT !.fetch = stage]
             u == [w EXCEPT !.stop = TRUE]
  <1>2. /\ v.pc = w.pc /\ v.stamp = w.stamp /\ v.wake = w.wake
        /\ u.pc = w.pc /\ u.stamp = w.stamp /\ u.wake = w.wake
    BY Zenon, <1>0 DEF Controller
  <1>3. Becomes(c, v) \/ Becomes(c, u) \/ Becomes(c, Off)
    BY Zenon, <1>1
  <1> HIDE DEF v, u
  <1>4. Contends(v, lease, now) /\ Contends(u, lease, now) /\ Contends(Off, lease, now)
    BY Zenon, <1>0, <1>2, OffRecords DEF Contends
  <1> QED
    BY Zenon, <1>0, <1>3, <1>4, ContenderMoves

(* Time does not pass a due timer, nor while a store call is under way.    *)
LEMMA ContendTickStep ==
  ASSUME ContendInv, IInv', PromptTick
  PROVE  ContendInv'
  <1>1. now' = now + 1 /\ UNCHANGED <<lease, ctl>>
    BY Zenon DEF PromptTick, Tick
  <1>2. ASSUME NEW c \in Controllers PROVE Contends(ctl[c], lease, now + 1)
    <2>0. Contends(ctl[c], lease, now) /\ now \in Nat /\ ctl[c].wake \in Nat
      BY Zenon, OneContender, OneController
    <2>1. ~Ready(ctl[c])
      BY Zenon DEF PromptTick
    <2>2. /\ ctl[c].pc \notin {"acquire", "renew", "beat", "observe"}
          /\ ctl[c].pc = "wait" => now < ctl[c].wake
      BY <2>0, <2>1 DEF Ready
    <2> QED
      BY <2>0, <2>2, Quarter, SettingsAssumption DEF Contends
  <1> QED
    BY Zenon, <1>1, <1>2 DEF ContendInv, Contends

LEMMA NextContend == ASSUME ~StoreErrors PROVE ContendInv /\ [PromptNext]_vars => ContendInv'
  <1> SUFFICES ASSUME ContendInv, [PromptNext]_vars PROVE ContendInv'
    OBVIOUS
  <1>0. IInv'
    <2>1. [Next]_vars
      BY Zenon DEF PromptNext, Next, PromptTick
    <2> QED
      BY Zenon, <2>1, NextIInv DEF ContendInv
  <1>1. ASSUME NEW c \in Controllers,
               Start(c) \/ Loop(c) \/ Fetch(c) \/ Stop(c) \/ Crash(c)
        PROVE  ContendInv'
    BY Zenon, <1>0, <1>1, ContendingStep, ContendLeaseStep, ContendOwningStep,
       ContendFetchStep DEF Loop
  <1>2. CASE Foreground
    BY Zenon, <1>0, <1>2 DEF Foreground, ContendInv, Contends
  <1>3. CASE PromptTick
    BY Zenon, <1>0, <1>3, ContendTickStep
  <1>4. CASE UNCHANGED vars
    BY Zenon, <1>0, <1>4 DEF vars, ContendInv, Contends
  <1> QED
    BY Zenon, <1>1, <1>2, <1>3, <1>4 DEF PromptNext

(* No controller still waits for its turn when the lease in the row has    *)
(* been expired for a second, a renewal interval and the jitter.           *)
ExpiredLeaseIsNoticed ==
    \A c \in Controllers :
      ctl[c].pc = "wait" /\ lease.tok # 0 => now <= Overdue(lease)

(* On a machine that keeps up, and with a store that answers, a lease      *)
(* whose holder has died keeps no contender away for long: for all         *)
(* settings and any number of controllers, every contender tries again     *)
(* within a second, a renewal interval and its jitter of the expiry.  The  *)
(* second pays for an expiry that sorts after the time it is compared with.*)
THEOREM TakeoverIsPrompt ==
  ASSUME ~StoreErrors
  PROVE  PromptSpec => []ExpiredLeaseIsNoticed
  <1>1. Init => ContendInv
    <2> SUFFICES ASSUME Init PROVE ContendInv
      OBVIOUS
    <2>1. ASSUME NEW c \in Controllers PROVE ctl[c].pc = "off"
      BY Zenon, OffRecords DEF Init
    <2> QED
      BY Zenon, <2>1, InitIInv, ContenderLeaves DEF ContendInv
  <1>2. ContendInv => ExpiredLeaseIsNoticed
    <2> SUFFICES ASSUME ContendInv, NEW c \in Controllers, ctl[c].pc = "wait", lease.tok # 0
                 PROVE  now <= Overdue(lease)
      BY Zenon DEF ExpiredLeaseIsNoticed
    <2>1. /\ now \in Nat /\ ctl[c].wake \in Nat /\ lease.exp \in Nat
          /\ Contends(ctl[c], lease, now)
      BY Zenon, OneContender, OneController DEF Lease
    <2> QED
      BY <2>1, Quarter, SettingsAssumption, ResAssumption DEF Contends, Overdue
  <1> QED
    BY <1>1, <1>2, NextContend, PTL DEF PromptSpec

=============================================================================
