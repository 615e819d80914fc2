------------------------- MODULE PublishedPipe_proofs -------------------------
(***************************************************************************)
(* What a published pipe rests on: its key file (LocalKey), for any number *)
(* of processes, keys and lock inodes, and its relay reservation and       *)
(* discovery record (RelayReservation), for all values of the margin, the  *)
(* floor, the tick and the time-outs that satisfy Timing.                  *)
(*                                                                         *)
(* The lock plays no part in the safety of the key file: the argument      *)
(* rests on link, which fails when path is there, and on a creator alone   *)
(* removing what it linked.                                                *)
(***************************************************************************)
EXTENDS LocalKey, RelayReservation, TLAPS

(* The key file.                                                           *)

(* The inductive invariant: the five invariants together.                  *)
KeyInv ==
    RollbackIsOwn /\ CreatedKeyStays /\ GivenKeysAgree /\ NewKeysAreNew /\ KeyIsWhole

(* While a creator is between link and its report or rollback it is the    *)
(* only one, and no key was reported before it.                            *)
LEMMA OneCreator ==
    ASSUME KeyInv, NEW p \in Procs, pc[p] \in Published
    PROVE  /\ my[p] \in Keys /\ key = my[p] /\ made = {}
           /\ \A q \in Procs : pc[q] \in Published => q = p
BY Distinct DEF KeyInv, RollbackIsOwn, CreatedKeyStays, TypeOK, Published

LEMMA InitKeyInv == Init => KeyInv
BY SMTT(60), Distinct
   DEF Init, KeyInv, RollbackIsOwn, CreatedKeyStays, GivenKeysAgree,
       NewKeysAreNew, KeyIsWhole, TypeOK, PCs, Holding, Published

LEMMA StepKeyInv == KeyInv /\ [Next]_vars => KeyInv'
<1> SUFFICES ASSUME KeyInv, [Next]_vars PROVE KeyInv'
  OBVIOUS
<1> USE Distinct
    DEF KeyInv, RollbackIsOwn, CreatedKeyStays, GivenKeysAgree, NewKeysAreNew,
        KeyIsWhole, TypeOK, PCs, Holding, Published, files, procs, Goes, Forgets
<1>1. ASSUME NEW p \in Procs, Provision(p) PROVE KeyInv'
  BY <1>1 DEF Provision
<1>2. ASSUME NEW p \in Procs, MkDir(p) PROVE KeyInv'
  BY <1>2 DEF MkDir
<1>3. ASSUME NEW p \in Procs, SyncParent(p) PROVE KeyInv'
  BY <1>3 DEF SyncParent
<1>4. ASSUME NEW p \in Procs, Open(p) PROVE KeyInv'
  BY <1>4 DEF Open
<1>5. ASSUME NEW p \in Procs, Flock(p) PROVE KeyInv'
  BY <1>5 DEF Flock
<1>6. ASSUME NEW p \in Procs, LoadOrGenerate(p) PROVE KeyInv'
  BY <1>6 DEF LoadOrGenerate, Loadable, Unused
<1>7. ASSUME NEW p \in Procs, WriteTemp(p) PROVE KeyInv'
  BY <1>7 DEF WriteTemp
<1>8. ASSUME NEW p \in Procs, Link(p) PROVE KeyInv'
  BY SMTT(60), <1>8 DEF Link
<1>9. ASSUME NEW p \in Procs, RemoveTemp(p) PROVE KeyInv'
  BY SMTT(60), <1>9, OneCreator DEF RemoveTemp, RemovePath
<1>10. ASSUME NEW p \in Procs, SyncDir(p) PROVE KeyInv'
  <2>1. my[p] \in Keys /\ key = my[p] /\ made = {}
        /\ \A q \in Procs : pc[q] \in Published => q = p
    BY <1>10, OneCreator DEF SyncDir
  <2>2. CASE disk' = key /\ Reports(p)
    BY <1>10, <2>1, <2>2 DEF SyncDir, Reports
  <2>3. CASE Goes(p, "rollback") /\ UNCHANGED <<disk, my, given, made>>
    BY SMTT(60), <1>10, <2>1, <2>3 DEF SyncDir
  <2> QED
    BY <1>10, <2>2, <2>3 DEF SyncDir
<1>11. ASSUME NEW p \in Procs, Rollback(p) PROVE KeyInv'
  BY SMTT(60), <1>11, OneCreator DEF Rollback, RemovePath
<1>12. ASSUME NEW p \in Procs, SyncRollback(p) PROVE KeyInv'
  BY <1>12 DEF SyncRollback
<1>13. ASSUME NEW p \in Procs, Unlink(p) PROVE KeyInv'
  BY <1>13 DEF Unlink
<1>14. ASSUME NEW p \in Procs, Unlock(p) PROVE KeyInv'
  BY <1>14 DEF Unlock
<1>15. ASSUME NEW p \in Procs, Kill(p) PROVE KeyInv'
  BY <1>15 DEF Kill
<1>16. CASE Load
  BY <1>16 DEF Load, Loadable
<1>17. CASE Writeback
  BY SMTT(60), <1>17 DEF Writeback
<1>18. CASE PowerLoss
  BY <1>18 DEF PowerLoss
<1>19. CASE UNCHANGED vars
  BY <1>19 DEF vars
<1> QED
  BY ZenonT(60), <1>1, <1>2, <1>3, <1>4, <1>5, <1>6, <1>7, <1>8, <1>9, <1>10, <1>11,
     <1>12, <1>13, <1>14, <1>15, <1>16, <1>17, <1>18, <1>19
     DEF Next, Step

LEMMA KeyInvariant == Spec => []KeyInv
BY InitKeyInv, StepKeyInv, PTL DEF Spec

(* A rollback removes its own, unreported key and nobody else's.           *)
THEOREM RollbacksAreOwn == Spec => []RollbackIsOwn
BY KeyInvariant, PTL DEF KeyInv

(* A key whose creation was reported is the key for good.                  *)
THEOREM CreatedKeysStay == Spec => []CreatedKeyStays
BY KeyInvariant, PTL DEF KeyInv

(* Callers hold the key that path names, except those whose key was taken  *)
(* back or lost before its creation was reported.                          *)
THEOREM GivenKeysAreOne == Spec => []GivenKeysAgree
BY KeyInvariant, PTL DEF KeyInv

(* No power loss leaves a truncated key file.                              *)
THEOREM KeysAreWhole == Spec => []KeyIsWhole
BY KeyInvariant, PTL DEF KeyInv

-----------------------------------------------------------------------------
(* LocalKey implements KeyCell.                                            *)

LEMMA CellInit == Init => Cell!Init
BY DEF Init, Cell!Init

(* The steps that leave key, given, made and the durability of dir alone.  *)
LEMMA CellStutters ==
    ASSUME NEW p \in Procs,
           \/ Provision(p) \/ Flock(p) \/ MkDir(p) \/ Open(p) \/ WriteTemp(p)
           \/ SyncRollback(p) \/ Unlink(p) \/ Unlock(p) \/ Kill(p)
    PROVE  UNCHANGED Cell!vars
BY DEF Provision, Flock, MkDir, Open, WriteTemp, SyncRollback, Unlink, Unlock, Kill,
       files, Goes, Forgets, Cell!vars

(* A key that was not reported is withdrawn.                               *)
LEMMA CellWithdraw ==
    ASSUME KeyInv, NEW p \in Procs, pc[p] \in Published, RemovePath,
           UNCHANGED <<dir, given, made>>
    PROVE  Cell!Withdraw \/ UNCHANGED Cell!vars
BY OneCreator DEF RemovePath, Cell!Withdraw, Cell!vars

LEMMA CellPowerLoss ==
    ASSUME KeyInv, PowerLoss
    PROVE  Cell!Next \/ UNCHANGED Cell!vars
<1>0. given' = given
  BY DEF PowerLoss
<1>1. CASE dir # "durable" /\ dir' = "absent" /\ key' = None /\ made' = {}
  BY <1>0, <1>1 DEF Cell!Next, Cell!Lose
<1>2. CASE /\ dir' = "durable"
           /\ disk' = IF disk \in synced \cup {None} THEN disk ELSE Corrupt
           /\ key' = disk' /\ made' = made
  <2>1. key' = disk /\ disk \in Keys \cup {None}
    BY <1>2 DEF KeyInv, KeyIsWhole, RollbackIsOwn, TypeOK
  <2>2. made \subseteq {key} \cap {disk}
    BY DEF KeyInv, CreatedKeyStays
  <2>3. CASE key' = key
    BY <1>0, <1>2, <2>3 DEF Cell!Next, Cell!Keep
  <2>4. CASE key' # key
    <3>1. made = {}
      BY <2>1, <2>2, <2>4
    <3> QED BY <1>0, <1>2, <2>1, <2>4, <3>1 DEF Cell!Next, Cell!Revert
  <2> QED BY <2>3, <2>4
<1> QED BY <1>1, <1>2 DEF PowerLoss

LEMMA CellStep == KeyInv /\ [Next]_vars => [Cell!Next]_(Cell!vars)
<1> SUFFICES ASSUME KeyInv, [Next]_vars PROVE Cell!Next \/ UNCHANGED Cell!vars
  OBVIOUS
<1>0. made \subseteq {key}
  BY DEF KeyInv, CreatedKeyStays
<1>1. CASE UNCHANGED vars
  BY <1>1 DEF vars, Cell!vars
<1>2. CASE Load
  BY <1>0, <1>2 DEF Load, Loadable, files, Cell!Next, Cell!Give
<1>3. CASE Writeback
  BY <1>3 DEF Writeback, Cell!Next, Cell!Keep, Cell!vars
<1>4. CASE PowerLoss
  BY <1>4, CellPowerLoss
<1>5. ASSUME NEW p \in Procs, Provision(p) \/ Flock(p) \/ Step(p) \/ Kill(p)
      PROVE  Cell!Next \/ UNCHANGED Cell!vars
  <2>1. CASE SyncParent(p)
    BY <2>1 DEF SyncParent, Cell!Next, Cell!Keep, Cell!vars
  <2>2. CASE LoadOrGenerate(p)
    BY <1>0, <2>2 DEF LoadOrGenerate, Loadable, Cell!Next, Cell!Give, Cell!vars
  <2>3. CASE Link(p)
    <3>1. my[p] \in Keys \ given
      BY <2>3 DEF Link, KeyInv, RollbackIsOwn, NewKeysAreNew, TypeOK
    <3> QED BY <2>3, <3>1 DEF Link, Cell!Next, Cell!Create, Cell!vars
  <2>4. CASE RemoveTemp(p)
    <3>1. CASE RemovePath
      <4>1. pc[p] \in Published /\ UNCHANGED <<dir, given, made>>
        BY <2>4 DEF RemoveTemp, Published
      <4> QED BY <3>1, <4>1, CellWithdraw DEF Cell!Next
    <3>2. CASE UNCHANGED key
      BY <2>4, <3>2 DEF RemoveTemp, Cell!vars
    <3> QED BY <2>4, <3>1, <3>2 DEF RemoveTemp
  <2>5. CASE SyncDir(p)
    <3>1. my[p] \in Keys /\ key = my[p] /\ made = {}
      BY <2>5, OneCreator DEF SyncDir, Published
    <3> QED BY <1>0, <2>5, <3>1 DEF SyncDir, Reports, Cell!Next, Cell!Report, Cell!vars
  <2>6. CASE Rollback(p)
    <3>1. pc[p] \in Published /\ RemovePath /\ UNCHANGED <<dir, given, made>>
      BY <2>6 DEF Rollback, Published
    <3> QED BY <3>1, CellWithdraw DEF Cell!Next
  <2> QED BY <1>5, <2>1, <2>2, <2>3, <2>4, <2>5, <2>6, CellStutters DEF Step
<1> QED BY <1>1, <1>2, <1>3, <1>4, <1>5 DEF Next

(* Provision and Load implement the write-once cell, for any number of     *)
(* processes, failures, kills and power losses.                            *)
THEOREM ImplementsCell == Spec => KeyCellSpec
BY CellInit, CellStep, KeyInvariant, PTL DEF Spec, KeyCellSpec, Cell!Spec

-----------------------------------------------------------------------------
(* The reservation and the record.                                         *)

(* The constants are numbers, and a lifetime record accepts is long enough. *)
LEMMA RelayConstants ==
    /\ Margin \in Nat /\ MinDelay \in Nat /\ TickEvery \in Nat
    /\ Timeout \in Nat /\ PublishTime \in Nat /\ RecordTTL \in Nat
    /\ MaxFaults \in Nat /\ PassTime \in Nat /\ Slack \in Nat
    /\ TickEvery > 0 /\ Margin >= Slack /\ Slack = TickEvery + PassTime
    /\ PassTime = 2 * Timeout
    /\ Grants \subseteq Nat /\ Lifetimes \subseteq Int
    /\ \A l \in Lifetimes : l > MinDelay =>
         /\ l > MinDelay + Slack /\ l > PublishTime + Slack
         /\ l <= RecordTTL
BY Timing DEF Slack, PassTime

(* A process that is down satisfies the invariant.                         *)
LEMMA InitRelay == RelayInit => RelayInv
<1> SUFFICES ASSUME RelayInit PROVE RelayInv
  OBVIOUS
<1>1. stage = "down" /\ ~serving /\ capped \in BOOLEAN
  BY DEF RelayInit
<1>2. RelayTypeOK
  BY <1>1, RelayConstants DEF RelayInit, RelayTypeOK
<1> QED
  BY <1>1, <1>2 DEF RelayInv, Phases, PassCovered, RecordCovered

(* Every step preserves it: a pass begins and ends while the reservation   *)
(* has time left.                                                          *)
LEMMA StepRelay == RelayInv /\ [RelayNext]_relayVars => RelayInv'
<1> SUFFICES ASSUME RelayInv, [RelayNext]_relayVars PROVE RelayInv'
  OBVIOUS
<1> USE RelayConstants DEF RelayInv, RelayTypeOK, Phases, PassCovered, RecordCovered,
        clock, Calls, Wait
<1>1. CASE Run
  BY <1>1 DEF Run
<1>2. CASE Connect
  BY <1>2 DEF Connect
<1>3. CASE ConnectFails
  BY <1>3 DEF ConnectFails, FaultOrStop, Fault, Failed, Exits
<1>4. CASE Reserve
  BY SMTT(60), <1>4 DEF Reserve, Recorded, Succeeded
<1>5. CASE ReserveTooShort
  <2>1. PICK l \in Lifetimes : /\ left' = l
                               /\ held' = IF serving /\ l > 0 THEN l ELSE 0
    BY <1>5 DEF ReserveTooShort
  <2>2. left' \in Int /\ held' \in Nat
    BY <2>1
  <2>3. /\ ready' = FALSE /\ age' = 0 /\ took' = 0
        /\ UNCHANGED <<scoped, next, pend, rec, capped>>
    BY <1>5 DEF ReserveTooShort
  <2>6. faults' \in Nat
    BY <1>5 DEF ReserveTooShort, Fault
  <2>4. \/ serving /\ stage' = "idle" /\ status' = "degraded" /\ serving' = serving
        \/ ~serving /\ stage' = "down" /\ status' = status /\ serving' = FALSE
    BY <1>5 DEF ReserveTooShort
  <2>5. RelayTypeOK'
    BY <2>2, <2>3, <2>4, <2>6
  <2> QED
    BY <2>3, <2>4, <2>5
<1>6. CASE ReserveFails
  <2>1. faults' \in Nat /\ ready' = FALSE /\ took' = 0 /\ held' \in Nat
    BY <1>6 DEF ReserveFails, FaultOrStop, Fault, Failed, Exits
  <2>2. UNCHANGED <<scoped, left, age, rec, capped, next, pend>>
    BY <1>6 DEF ReserveFails
  <2>3. \/ serving /\ stage' = "idle" /\ status' = "degraded" /\ serving' = serving
        \/ ~serving /\ stage' = "down" /\ status' = status /\ serving' = FALSE
    BY <1>6 DEF ReserveFails, Failed, Exits
  <2>4. RelayTypeOK'
    BY <2>1, <2>2, <2>3
  <2> QED
    BY <2>1, <2>2, <2>3, <2>4
<1>7. CASE Publish
  <2>1. /\ stage = "publish" /\ stage' = "idle" /\ took' = 0 /\ status' = "ready"
        /\ serving'
        /\ UNCHANGED <<scoped, conn, held, lost, left, age, ready, faults>>
    BY <1>7 DEF Publish, Succeeded
  <2>2. Wait' <= TickEvery /\ next' \in 1..TickEvery /\ Wait' \in Nat
    BY <1>7 DEF Publish, Succeeded
  <2>3. left > Slack /\ left \in Int /\ left' = left
    BY <2>1
  <2>7. capped' \in BOOLEAN /\ rec' \in Nat /\ (~capped' => rec' >= left)
    <3>1. PICK g \in Nat :
            /\ capped' = (g < RecordTTL)
            /\ rec' = Positive((IF capped' THEN g ELSE RecordTTL) - took)
      BY <1>7 DEF Publish
    <3>2. took \in Nat /\ left + took <= RecordTTL /\ left \in Int
      BY <2>1
    <3> QED BY <3>1, <3>2 DEF Positive
  <2>4. RelayTypeOK' /\ Phases' /\ RecordCovered'
    BY <2>1, <2>2, <2>7
  <2>5. left' - Wait' > PassTime
    <3> DEFINE w == Wait'
    <3>1. w \in Nat /\ w <= TickEvery
      BY <2>2
    <3> HIDE DEF w, RelayInv, RelayTypeOK, Phases, PassCovered, RecordCovered
    <3>2. left - w > PassTime
      BY <2>3, <3>1
    <3> QED
      BY <2>3, <3>2 DEF w
  <2>6. PassCovered'
    BY <2>1, <2>5
  <2> QED
    BY <2>4, <2>6
<1>8. CASE PublishFails
  <2>1. stage = "publish" /\ faults' \in Nat /\ took' = 0 /\ held' \in Nat
    BY <1>8 DEF PublishFails, Fault, Failed, Exits
  <2>2. UNCHANGED <<scoped, left, age, rec, capped, next, pend, ready, lost>>
    BY <1>8 DEF PublishFails
  <2>3. \/ /\ serving /\ stage' = "idle" /\ status' = "degraded"
           /\ UNCHANGED <<serving, conn, held>>
        \/ ~serving /\ stage' = "down" /\ status' = status /\ serving' = FALSE
    BY <1>8 DEF PublishFails, Failed, Exits
  <2>4. RelayTypeOK' /\ Phases' /\ RecordCovered'
    BY <2>1, <2>2, <2>3
  <2>5. PassCovered'
    BY SMTT(30), <2>1, <2>2, <2>3
  <2> QED
    BY <2>4, <2>5
<1>9. CASE TakeTick
  <2>1. /\ stage = "idle" /\ pend /\ ~pend'
        /\ UNCHANGED <<scoped, serving, conn, held, lost, left, age, ready, next,
                       status, rec, capped, faults>>
    BY <1>9 DEF TakeTick
  <2>2. \/ stage' = stage /\ took' = took /\ ~Due
        \/ stage' \in {"connect", "reserve"} /\ took' = 0
    BY <1>9 DEF TakeTick
  <2>3. RelayTypeOK' /\ Phases' /\ RecordCovered'
    BY <2>1, <2>2
  <2>4. PassCovered'
    BY SMTT(30), <2>1, <2>2 DEF Due
  <2> QED
    BY <2>3, <2>4
<1>10. CASE Stop
  BY <1>10 DEF Stop, Exits
<1>11. CASE Cancel
  BY SMTT(60), <1>11 DEF Cancel
<1>12. CASE Disconnect
  BY <1>12 DEF Disconnect, Fault
<1>13. CASE Tick
  <2>1. RelayTypeOK'
    BY SMTT(30), <1>13 DEF Tick, Positive, Bound
  <2>2. UNCHANGED <<scoped, stage, serving, stop, conn, lost, ready, status>>
    BY <1>13 DEF Tick
  <2>3. Phases'
    BY SMTT(30), <1>13, <2>2 DEF Tick, Bound
  <2>4. PassCovered'
    <3> SUFFICES ASSUME stage # "down", ready PROVE PassCovered'
      BY SMTT(60), <2>2
    <3>1. left > 0 /\ left' = left - 1
      BY SMTT(60), <1>13 DEF Tick, Positive, Bound
    <3>2. age' < MinDelay => left' + age' > MinDelay + Slack
      BY SMTT(60), <1>13, <3>1 DEF Tick
    <3>3. conn /\ ~lost => held' = left'
      BY <1>13 DEF Tick
    <3>4. left' <= RecordTTL
      BY <3>1
    <3>5. stage = "idle" => left' - Wait' > PassTime
      <4> SUFFICES ASSUME stage = "idle" PROVE left' - Wait' > PassTime
        BY SMTT(60)
      <4>1. serving /\ ~pend /\ left - next > PassTime
        BY SMTT(60), <1>13 DEF Tick
      <4>2. CASE next > 1
        BY SMTT(60), <1>13, <3>1, <4>1, <4>2 DEF Tick
      <4>3. CASE ~(next > 1)
        BY SMTT(60), <1>13, <3>1, <4>1, <4>3 DEF Tick
      <4> QED
        BY SMTT(60), <4>2, <4>3
    <3>6. stage # "idle" => took' = took + 1
      BY <1>13 DEF Tick
    <3>7. stage = "connect" => left' + took' > PassTime
      BY <3>1, <3>6
    <3>8. stage = "reserve" => left' + took' > Timeout
      BY <3>1, <3>6
    <3>9. stage = "publish" =>
            left' + took' > PublishTime + Slack /\ left' + took' <= RecordTTL
      BY <3>1, <3>6
    <3>10. ~conn => lost
      BY SMTT(60)
    <3> HIDE RelayConstants DEF RelayInv, RelayTypeOK, Phases, RecordCovered, Wait
    <3> QED
      BY SMTT(60), <2>2, <3>2, <3>3, <3>4, <3>5, <3>7, <3>8, <3>9, <3>10
  <2>5. RecordCovered'
    <3>1. rec >= left => rec' >= left'
      BY SMTT(60), <1>13 DEF Tick, Positive
    <3>2. capped' = capped
      BY <1>13 DEF Tick
    <3> QED
      BY SMTT(60), <2>2, <3>1, <3>2
  <2> QED
    BY ZenonT(60), <2>1, <2>3, <2>4, <2>5
<1>14. CASE UNCHANGED relayVars
  BY SMTT(30), <1>14 DEF relayVars
<1> QED
  BY ZenonT(60), <1>1, <1>2, <1>3, <1>4, <1>5, <1>6, <1>7, <1>8, <1>9, <1>10, <1>11,
     <1>12, <1>13, <1>14 DEF RelayNext, Pass

(* The invariant of the reservation holds throughout.                      *)
LEMMA RelayInvariance == RelaySpec => []RelayInv
BY InitRelay, StepRelay, PTL DEF RelaySpec

(* The relay holds the reservation while nothing has failed.               *)
THEOREM ReservationNeverLapses == RelaySpec => []NoLapse
<1>1. RelayInv => NoLapse
  BY RelayConstants DEF RelayInv, RelayTypeOK, Phases, PassCovered, NoLapse, Wait
<1> QED
  BY <1>1, RelayInvariance, PTL

(* The record of a pipe that calls itself ready expires only during an     *)
(* announcement, or with the grant the pipe was started with.              *)
THEOREM RecordNeverLapses == RelaySpec => []RecordFresh
<1>1. RelayInv => RecordFresh
  BY RelayConstants DEF RelayInv, RelayTypeOK, Phases, PassCovered, RecordCovered, RecordFresh, Wait
<1> QED
  BY <1>1, RelayInvariance, PTL

=============================================================================
