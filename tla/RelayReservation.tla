--------------------------- MODULE RelayReservation ---------------------------
(***************************************************************************)
(* A published pipe keeps its circuit-relay reservation                    *)
(* (internal/reachability/relay_reservation.go) and maps each maintenance  *)
(* pass onto its run's status and, when it is scoped, onto the publication *)
(* of its discovery record (internal/runtime/pipe.go).                     *)
(*                                                                         *)
(* Time is relative: left and rec count down to an expiry, age counts up   *)
(* from the last successful pass to the floor MinDelay, where it no longer *)
(* matters.  The process keeps up: time does not pass while it is ready to *)
(* take a step.  A dial or a reservation ends within Timeout.  Refreshing  *)
(* the publish grant and announcing the record, which retry ten times each *)
(* on a context of their own, end within PublishTime, which is longer than *)
(* the margin.  The relay drops the reservation of a peer that disconnects. *)
(***************************************************************************)
EXTENDS Integers

CONSTANTS
    Margin,       \* DefaultReservationMargin
    MinDelay,     \* minimumRenewDelay
    TickEvery,    \* DefaultMaintenanceTick
    Timeout,      \* of a dial and of a reservation
    PublishTime,  \* of a publication, all its attempts included
    RecordTTL,    \* lifetime of a record, when its grant lasts as long
    Grants,       \* what may be left of the grant the pipe starts with
    Lifetimes,    \* lifetimes the relay grants
    MaxFaults     \* bound on failures and disconnections

(* How long a renewal may take, and how long after its deadline it is over. *)
PassTime == 2 * Timeout
Slack    == TickEvery + PassTime

(* The margin covers a renewal that begins a tick late.  A granted         *)
(* lifetime is refused by record, or leaves room for a publication and the *)
(* next renewal; a full record outlives the reservation it goes with.      *)
ASSUME Timing ==
    /\ {Margin, MinDelay, TickEvery, Timeout, PublishTime, RecordTTL, MaxFaults}
         \subseteq Nat
    /\ TickEvery > 0 /\ Margin >= Slack
    /\ Grants \subseteq Nat /\ Lifetimes \subseteq Int
    /\ \A l \in Lifetimes : l > MinDelay =>
         /\ l > MinDelay + Slack /\ l > PublishTime + Slack
         /\ l <= RecordTTL

VARIABLES
    scoped,    \* the pipe has a scope, and so publishes a record
    stage,     \* "down", "connect", "reserve", "publish" or "idle"
    took,      \* how long the call in progress has taken
    serving,   \* in Serve, as opposed to the initial Acquire
    stop,      \* ctx is cancelled
    conn,      \* connected to the relay
    held,      \* what is left of the reservation at the relay
    lost,      \* disconnected since the last reservation
    left,      \* expires - now
    age,       \* now - lastMaintained, up to MinDelay
    ready,     \* r.ready
    next,      \* until the ticker's next tick
    pend,      \* a tick is in the ticker's channel
    status,    \* run.Status
    rec,       \* what is left of the published record
    capped,    \* the grant expires before RecordTTL, and the record with it
    faults

clock == <<left, age, rec, capped, next, pend>>
relayVars ==
    <<scoped, stage, took, serving, stop, conn, held, lost, left, age, ready,
      next, pend, status, rec, capped, faults>>

RelayInit ==
    /\ scoped \in BOOLEAN
    /\ stage = "down" /\ took = 0 /\ serving = FALSE /\ stop = FALSE
    /\ conn = FALSE /\ held = 0 /\ lost = FALSE
    /\ left = 0 /\ age = 0 /\ ready = FALSE
    /\ next = TickEvery /\ pend = FALSE
    /\ status = "none" /\ rec = 0 /\ capped = FALSE
    /\ faults = 0

(* A failure spends the budget, unless a cancelled context is its cause.   *)
Fault == faults < MaxFaults /\ faults' = faults + 1

FaultOrStop == Fault \/ (stop /\ UNCHANGED faults)

Positive(n) == IF n > 0 THEN n ELSE 0

Calls(what) == stage' = what /\ took' = 0

-----------------------------------------------------------------------------
(* runPublishedPipe and runScopeLessPublishedPipe open a new host.         *)
Run ==
    /\ stage = "down"
    /\ Calls("connect")
    /\ serving' = FALSE /\ stop' = FALSE /\ ready' = FALSE
    /\ UNCHANGED <<scoped, conn, held, lost, clock, status, faults>>

(* The process ends and its host closes.                                   *)
Exits ==
    /\ Calls("down") /\ serving' = FALSE
    /\ conn' = FALSE /\ held' = 0

(* A pass failed: in Serve onFailure degrades the run; before it, Acquire  *)
(* or the first publication fails the command.                             *)
Failed ==
    IF serving
      THEN /\ Calls("idle") /\ status' = "degraded"
           /\ UNCHANGED <<serving, conn, held>>
      ELSE Exits /\ UNCHANGED status

(* Mutant: a later success leaves the run degraded.                        *)
Succeeded_StaysDegraded ==
    /\ Calls("idle")
    /\ IF serving THEN UNCHANGED <<serving, next, pend, status>>
       ELSE /\ serving' = TRUE /\ next' = TickEvery /\ pend' = FALSE
            /\ status' = "ready"

(* A pass succeeded, its publication included: the run is ready.  The      *)
(* first one is followed by PutRun and Serve, which starts the ticker.     *)
Succeeded ==
    /\ Calls("idle") /\ status' = "ready"
    /\ IF serving THEN UNCHANGED <<serving, next, pend>>
       ELSE serving' = TRUE /\ next' = TickEvery /\ pend' = FALSE

-----------------------------------------------------------------------------
(* ReserveRelay: connect if need be, then reserve.                         *)
Connect ==
    /\ stage = "connect"
    /\ conn' = TRUE
    /\ Calls("reserve")
    /\ UNCHANGED <<scoped, serving, stop, held, lost, clock, ready, status, faults>>

ConnectFails ==
    /\ stage = "connect"
    /\ FaultOrStop
    /\ ready' = FALSE /\ Failed
    /\ UNCHANGED <<scoped, stop, lost, clock>>

(* Mutant: a pass that finds the run ready does not publish.               *)
Recorded_OnlyRecoveries ==
    IF scoped /\ status # "ready"
      THEN Calls("publish") /\ UNCHANGED <<serving, next, pend, status>>
      ELSE Succeeded

(* After record, onReady.                                                  *)
Recorded ==
    IF scoped
      THEN Calls("publish") /\ UNCHANGED <<serving, next, pend, status>>
      ELSE Succeeded

(* The relay grants a lifetime record accepts: the next renewal, at the    *)
(* later of expires - Margin and now + MinDelay, comes before expires.     *)
Reserve ==
    /\ stage = "reserve" /\ conn
    /\ \E l \in Lifetimes :
         /\ l > MinDelay
         /\ held' = l /\ left' = l
    /\ lost' = FALSE /\ age' = 0
    /\ ready' = TRUE
    /\ Recorded
    /\ UNCHANGED <<scoped, stop, conn, rec, capped, faults>>

(* It grants one too short, which record stores and refuses.               *)
ReserveTooShort ==
    /\ stage = "reserve" /\ conn
    /\ Fault
    /\ \E l \in Lifetimes :
         /\ l <= MinDelay
         /\ left' = l
         /\ held' = IF serving /\ l > 0 THEN l ELSE 0
    /\ lost' = FALSE /\ age' = 0
    /\ ready' = FALSE
    /\ IF serving
         THEN /\ Calls("idle") /\ status' = "degraded"
              /\ UNCHANGED <<serving, conn>>
         ELSE /\ Calls("down") /\ serving' = FALSE
              /\ conn' = FALSE /\ UNCHANGED status
    /\ UNCHANGED <<scoped, stop, next, pend, rec, capped>>

(* The reservation fails, though the connection may be up.                 *)
ReserveFails ==
    /\ stage = "reserve"
    /\ FaultOrStop \/ (~conn /\ UNCHANGED faults)
    /\ ready' = FALSE /\ Failed
    /\ UNCHANGED <<scoped, stop, lost, clock>>

-----------------------------------------------------------------------------
(* publish: the record expires RecordTTL after the publication began, but  *)
(* not after the grant.  In Serve refreshGrant has seen to it that the     *)
(* grant lasts; the first publication takes the grant as it finds it.      *)
Publish ==
    /\ stage = "publish"
    /\ \E g \in IF serving THEN {RecordTTL} ELSE {g \in Grants : g > 0} :
         /\ capped' = (g < RecordTTL)
         /\ rec' = Positive((IF capped' THEN g ELSE RecordTTL) - took)
    /\ Succeeded
    /\ UNCHANGED <<scoped, stop, conn, held, lost, left, age, ready, faults>>

(* The grant has expired or cannot be renewed, or the announcement fails.  *)
PublishFails ==
    /\ stage = "publish"
    /\ Fault
    /\ Failed
    /\ UNCHANGED <<scoped, stop, lost, clock, ready>>

-----------------------------------------------------------------------------
(* Mutant: renewal is due at the expiry, without the margin.               *)
Due_AtExpiry == ~conn \/ (left <= 0 /\ age >= MinDelay)

(* due: disconnected, or past nextRenewLocked.                             *)
Due == ~conn \/ (left <= Margin /\ age >= MinDelay)

(* Serve's select takes a tick.                                            *)
TakeTick ==
    /\ stage = "idle" /\ pend
    /\ pend' = FALSE
    /\ IF Due THEN Calls(IF conn THEN "reserve" ELSE "connect")
              ELSE UNCHANGED <<stage, took>>
    /\ UNCHANGED <<scoped, serving, stop, conn, held, lost, left, age, ready,
                   next, status, rec, capped, faults>>

(* Serve returns, and the deferred PutRun marks the run stopped.           *)
Stop ==
    /\ stage = "idle" /\ stop
    /\ status' = "stopped"
    /\ Exits
    /\ UNCHANGED <<scoped, stop, lost, clock, ready, faults>>

-----------------------------------------------------------------------------
Cancel ==
    /\ stage # "down" /\ ~stop
    /\ stop' = TRUE
    /\ UNCHANGED <<scoped, stage, took, serving, conn, held, lost, clock, ready,
                   status, faults>>

Disconnect ==
    /\ conn /\ Fault
    /\ conn' = FALSE /\ held' = 0 /\ lost' = TRUE
    /\ UNCHANGED <<scoped, stage, took, serving, stop, clock, ready, status>>

Bound == IF stage = "publish" THEN PublishTime ELSE Timeout

Tick ==
    /\ stage = "idle" => ~pend
    /\ stage \in {"idle", "connect", "reserve"} => ~stop
    /\ stage \in {"connect", "reserve", "publish"} => took < Bound
    /\ took' = IF stage \in {"down", "idle"} THEN 0 ELSE took + 1
    /\ held' = Positive(held - 1) /\ left' = Positive(left - 1) /\ rec' = Positive(rec - 1)
    /\ age' = IF age < MinDelay THEN age + 1 ELSE age
    /\ IF ~serving THEN UNCHANGED <<next, pend>>
       ELSE IF next > 1 THEN next' = next - 1 /\ UNCHANGED pend
       ELSE next' = TickEvery /\ pend' = TRUE
    /\ UNCHANGED <<scoped, stage, serving, stop, conn, lost, ready, status, capped,
                   faults>>

-----------------------------------------------------------------------------
Pass ==
    \/ Connect \/ ConnectFails
    \/ Reserve \/ ReserveTooShort \/ ReserveFails
    \/ Publish \/ PublishFails
    \/ TakeTick \/ Stop

RelayNext == Run \/ Pass \/ Cancel \/ Disconnect \/ Tick

RelaySpec == RelayInit /\ [][RelayNext]_relayVars

(* Every call ends, and time passes.                                       *)
RelayFairSpec == RelaySpec /\ WF_relayVars(Pass) /\ WF_relayVars(Tick)

-----------------------------------------------------------------------------
RelayTypeOK ==
    /\ stage \in {"down", "connect", "reserve", "publish", "idle"}
    /\ status \in {"none", "ready", "degraded", "stopped"}
    /\ took \in Nat /\ held \in Nat /\ left \in Int /\ age \in 0..MinDelay
    /\ next \in 1..TickEvery /\ rec \in Nat /\ capped \in BOOLEAN /\ faults \in Nat

(* While the connection has not been lost and no pass has failed, the      *)
(* relay holds the reservation: every renewal is over before the expiry,   *)
(* however late in its tick it begins and however long it takes.           *)
NoLapse == stage # "down" /\ ready /\ conn /\ ~lost => held > 0

(* The record of a scoped pipe that calls itself ready expires only while  *)
(* its successor is being announced, which takes longer than the margin    *)
(* when the authority is slow, or when the pipe was started with a grant   *)
(* about to expire, which is renewed no earlier than the reservation.      *)
(* Otherwise it lasts, though it is refreshed only together with the       *)
(* reservation, and even if the connection is lost just before it is due.  *)
RecordFresh ==
    serving /\ scoped /\ status = "ready" => rec > 0 \/ stage = "publish" \/ capped

(* A degraded run becomes ready again once the faults end, unless it is    *)
(* stopped, without a restart.                                             *)
Recovers == status = "degraded" ~> status \in {"ready", "stopped"}

(* Until the next tick is taken.                                           *)
Wait == IF pend THEN 0 ELSE next

(* Where the process is agrees with what it has achieved.                  *)
Phases ==
    /\ stage = "down" => ~serving
    /\ stage = "idle" => serving
    /\ stage = "publish" => ready /\ took <= PublishTime
    /\ stage \in {"connect", "reserve"} => took <= Timeout /\ (ready => serving)
    /\ serving /\ status = "ready" => ready

(* At every point of a pass what is left of the reservation covers the     *)
(* rest of the pass.                                                       *)
PassCovered ==
    stage # "down" /\ ready =>
      /\ age < MinDelay => left + age > MinDelay + Slack
      /\ left <= RecordTTL
      /\ conn /\ ~lost => held = left
      /\ ~conn => lost
      /\ stage = "idle" => left - Wait > PassTime
      /\ stage = "connect" => left + took > PassTime
      /\ stage = "reserve" => left + took > Timeout
      /\ stage = "publish" => /\ left + took > PublishTime + Slack
                              /\ left + took <= RecordTTL

(* What is left of the record covers what is left of the reservation.      *)
RecordCovered ==
    serving /\ scoped /\ status = "ready" /\ stage # "publish" /\ ~capped =>
      rec >= left

(* The inductive invariant.                                                *)
RelayInv == RelayTypeOK /\ Phases /\ PassCovered /\ RecordCovered

=============================================================================
