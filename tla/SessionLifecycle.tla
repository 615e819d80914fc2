--------------------------- MODULE SessionLifecycle ---------------------------
(***************************************************************************)
(* The process-local runtime tree of a Pipe run: one NodeRuntime with one  *)
(* PipeRuntime (as runPublishedPipe and runLocalPipe build it), its        *)
(* session registry, and the sessions with their pumps, closers and        *)
(* authorization timers.                                                   *)
(*                                                                         *)
(* A session is driven by the goroutine that created it: a stream handler  *)
(* (tunnelServer.serve), or an application connection of the scoped        *)
(* client or of the exact ingress.  sess[s] holds its program counter and  *)
(* the state of its sessionPump.  A critical section of sp.mu is one step. *)
(* The bytes are left out; a copying direction ends in EOF or in an error. *)
(***************************************************************************)
EXTENDS Naturals

CONSTANTS
    Servers,     \* sessions of tunnelServer.serve
    Locals,      \* sessions of an application connection
    None

Sessions == Servers \cup Locals

ASSUME SessionAssumption ==
    /\ Servers \cap Locals = {}
    /\ None \notin Sessions

VARIABLES
    cancelled,   \* the runtime context (node, pipe and session contexts)
    node,        \* NodeRuntime: "open", "closing", "closed"
    pipe,        \* PipeRuntime: "open", "closing", "closed"
    registry,    \* the registered sessions
    toStop,      \* PipeRuntime.Close: the sessions it still has to stop
    current,     \* PipeRuntime.Close: the session whose Stop it is in
    sess

tree == <<cancelled, node, pipe, registry, toStop, current>>
vars == <<cancelled, node, pipe, registry, toStop, current, sess>>

-----------------------------------------------------------------------------
PCs == {"idle", "opening", "new", "set", "transfer", "admit", "pump", "copy",
        "finish", "stop", "await", "leave", "end"}

(* The creators: the stream handler, the scoped client                     *)
(* (openLocalConnection) and the exact local ingress.                      *)
Kinds == {"server", "client", "ingress"}

Session ==
    [kind : Kinds,
     pc : PCs,
     registered : BOOLEAN,            \* NewSession succeeded
     owned : BOOLEAN,                 \* SetActiveCarrier succeeded
     stopping : BOOLEAN,
     closing : {"no", "carrier", "target", "work", "done"},  \* completeStop
     work : 0..1,                     \* workCount
     toTarget : {"run", "eof", "error"},     \* carrierToTarget
     toCarrier : {"run", "eof", "error"},    \* targetToCarrier
     clean : BOOLEAN,                 \* completedCleanly
     carrier : {"live", "closed", "reset"},  \* its first terminal action
     acts : 0..2,                     \* its terminal actions so far
     target : BOOLEAN,                \* the target connection is open
     timer : {"off", "target", "stop"},      \* what lease expiry will do
     expired : BOOLEAN]

Newborn(k) ==
    [kind |-> k, pc |-> "idle", registered |-> FALSE, owned |-> FALSE,
     stopping |-> FALSE, closing |-> "no", work |-> 0,
     toTarget |-> "run", toCarrier |-> "run", clean |-> FALSE,
     carrier |-> "live", acts |-> 0, target |-> TRUE,
     timer |-> "off", expired |-> FALSE]

Init ==
    /\ cancelled = FALSE
    /\ node = "open" /\ pipe = "open"
    /\ registry = {} /\ toStop = {} /\ current = None
    /\ \E ingresses \in SUBSET Locals :
         sess = [s \in Sessions |-> Newborn(CASE s \in Servers -> "server"
                                              [] s \in ingresses -> "ingress"
                                              [] OTHER -> "client")]

-----------------------------------------------------------------------------
Becomes(s, v) == sess' = [sess EXCEPT ![s] = v]
Goes(v, pc) == [v EXCEPT !.pc = pc]

(* A Close or Reset of the carrier.                                        *)
Ends(v, how) == [v EXCEPT !.acts = @ + 1,
                          !.carrier = IF @ = "live" THEN how ELSE @]

(* Mutant: no fence, every caller becomes closer.                          *)
BeginStop_NoFence(v) == [v EXCEPT !.stopping = TRUE, !.closing = "carrier"]

(* beginStop: the first caller becomes closer and takes the carrier.       *)
BeginStop(v) ==
    IF v.stopping THEN v
    ELSE [v EXCEPT !.stopping = TRUE, !.closing = "carrier"]

(* The session context is cancelled with the tree or by its own closer.    *)
Live(v) == ~v.stopping /\ ~cancelled

-----------------------------------------------------------------------------
(* The creating goroutine.  A server has dialled its target and armed the  *)
(* authorization timer before it answers the open.                         *)
Open(s) ==
    /\ sess[s].pc = "idle"
    /\ Becomes(s, IF s \in Servers
                    THEN [sess[s] EXCEPT !.pc = "opening", !.timer = "target"]
                    ELSE Goes(sess[s], "new"))
    /\ UNCHANGED tree

(* Session id, revocation check and the OpenResult frame: done or failed.  *)
Answer(s) ==
    /\ sess[s].pc = "opening"
    /\ \E pc \in {"new", "leave"} : Becomes(s, Goes(sess[s], pc))
    /\ UNCHANGED tree

(* PipeRuntime.NewSession, under p.mu.                                     *)
NewSession(s) ==
    /\ sess[s].pc = "new"
    /\ IF pipe # "open" \/ cancelled
         THEN /\ Becomes(s, Goes(sess[s], "leave"))
              /\ UNCHANGED registry
         ELSE /\ Becomes(s, [sess[s] EXCEPT !.pc = "set", !.registered = TRUE])
              /\ registry' = registry \cup {s}
    /\ UNCHANGED <<cancelled, node, pipe, toStop, current>>

SetActiveCarrier(s) ==
    /\ sess[s].pc = "set"
    /\ Becomes(s, IF Live(sess[s])
                    THEN [sess[s] EXCEPT !.owned = TRUE,
                            !.pc = IF s \in Servers THEN "transfer" ELSE "admit"]
                    ELSE Goes(sess[s], "leave"))
    /\ UNCHANGED tree

(* Mutant: the target's timer is stopped and none replaces it.             *)
TransferTimer_Lost(s) ==
    /\ sess[s].pc = "transfer"
    /\ Becomes(s, [sess[s] EXCEPT !.pc = "admit", !.timer = "off"])
    /\ UNCHANGED tree

(* transferSessionAuthorizationTimer.                                      *)
TransferTimer(s) ==
    /\ sess[s].pc = "transfer"
    /\ Becomes(s, [sess[s] EXCEPT !.pc = "admit", !.timer = "stop"])
    /\ UNCHANGED tree

(* Mutant: the pump is admitted without being counted.                     *)
AdmitWork_Uncounted(s) ==
    /\ sess[s].pc = "admit"
    /\ Becomes(s, Goes(sess[s], IF Live(sess[s]) THEN "pump" ELSE "leave"))
    /\ UNCHANGED tree

AdmitWork(s) ==
    /\ sess[s].pc = "admit"
    /\ Becomes(s, IF Live(sess[s])
                    THEN [sess[s] EXCEPT !.pc = "pump", !.work = @ + 1]
                    ELSE Goes(sess[s], "leave"))
    /\ UNCHANGED tree

(* pumpCarrier: no active carrier any more, or both directions start.      *)
StartPump(s) ==
    /\ sess[s].pc = "pump"
    /\ Becomes(s, Goes(sess[s], IF sess[s].stopping THEN "finish" ELSE "copy"))
    /\ UNCHANGED tree

(* A direction ends in EOF, which a resource closed here cannot give.      *)
Eof(s) ==
    /\ sess[s].pc = "copy"
    /\ \/ /\ sess[s].toTarget = "run" /\ sess[s].carrier = "live"
          /\ Becomes(s, [sess[s] EXCEPT !.toTarget = "eof"])
       \/ /\ sess[s].toCarrier = "run" /\ sess[s].target
          /\ Becomes(s, [sess[s] EXCEPT !.toCarrier = "eof"])
    /\ UNCHANGED tree

(* A direction fails, and requests the stop of its session.                *)
ToTargetFails(s) ==
    /\ sess[s].pc = "copy" /\ sess[s].toTarget = "run"
    /\ Becomes(s, [BeginStop(sess[s]) EXCEPT !.toTarget = "error"])
    /\ UNCHANGED tree

ToCarrierFails(s) ==
    /\ sess[s].pc = "copy" /\ sess[s].toCarrier = "run"
    /\ Becomes(s, [BeginStop(sess[s]) EXCEPT !.toCarrier = "error"])
    /\ UNCHANGED tree

(* Both directions have ended.                                             *)
PumpEnded(v) == v.pc = "copy" /\ v.toTarget # "run" /\ v.toCarrier # "run"

(* Mutants: one FIN is enough; Stop before finishWork.                     *)
StoreClean_OneFin(s) ==
    /\ PumpEnded(sess[s])
    /\ Becomes(s, [sess[s] EXCEPT !.pc = "finish",
                     !.clean = "eof" \in {sess[s].toTarget, sess[s].toCarrier}])
    /\ UNCHANGED tree

StoreClean_StopFirst(s) ==
    /\ PumpEnded(sess[s])
    /\ Becomes(s, [sess[s] EXCEPT !.pc = "stop",
                     !.clean = {sess[s].toTarget, sess[s].toCarrier} = {"eof"}])
    /\ UNCHANGED tree

(* completedCleanly is stored; which direction failed is forgotten.        *)
StoreClean(s) ==
    /\ PumpEnded(sess[s])
    /\ Becomes(s, IF {sess[s].toTarget, sess[s].toCarrier} = {"eof"}
                    THEN [sess[s] EXCEPT !.pc = "finish", !.clean = TRUE]
                    ELSE [sess[s] EXCEPT !.pc = "finish", !.toTarget = "error",
                                         !.toCarrier = "error"])
    /\ UNCHANGED tree

FinishWork(s) ==
    /\ sess[s].pc = "finish"
    /\ Becomes(s, [sess[s] EXCEPT !.pc = "stop", !.work = @ - 1])
    /\ UNCHANGED tree

(* The deferred Stop: closer or not, it returns when stopDone is closed.   *)
Stop(s) ==
    /\ sess[s].pc = "stop"
    /\ Becomes(s, Goes(BeginStop(sess[s]), "await"))
    /\ UNCHANGED tree

StopReturns(s) ==
    /\ sess[s].pc = "await"
    /\ sess[s].closing = "done"
    /\ Becomes(s, Goes(sess[s], "leave"))
    /\ UNCHANGED tree

(* What the goroutine's own defers, and for a server handle(), still close. *)
Leave(s) ==
    /\ sess[s].pc = "leave"
    /\ LET v == [sess[s] EXCEPT !.pc = "end", !.timer = "off",
                   !.target = @ /\ s \in Servers /\ sess[s].owned]
       IN Becomes(s, CASE v.kind = "server" /\ ~v.registered -> Ends(v, "reset")
                       [] v.kind = "client" /\ ~v.owned -> Ends(v, "closed")
                       [] v.kind = "ingress" -> Ends(v, "closed")
                       [] OTHER -> v)
    /\ UNCHANGED tree

Goroutine(s) ==
    \/ Answer(s) \/ NewSession(s) \/ SetActiveCarrier(s) \/ TransferTimer(s)
    \/ AdmitWork(s) \/ StartPump(s) \/ StoreClean(s)
    \/ FinishWork(s) \/ Stop(s) \/ StopReturns(s) \/ Leave(s)

-----------------------------------------------------------------------------
(* completeStop, run by the elected closer.                                *)
CloseCarrier(s) ==
    /\ sess[s].closing = "carrier"
    /\ LET v == [sess[s] EXCEPT !.closing = "target"]
       IN Becomes(s, IF ~v.owned THEN v
                     ELSE Ends(v, IF v.clean THEN "closed" ELSE "reset"))
    /\ UNCHANGED tree

CloseTarget(s) ==
    /\ sess[s].closing = "target"
    /\ Becomes(s, [sess[s] EXCEPT !.closing = "work", !.target = FALSE])
    /\ UNCHANGED tree

(* Mutant: the closer does not wait for admitted work.                     *)
WorkDone_NoWait(s) ==
    /\ sess[s].closing = "work"
    /\ Becomes(s, [sess[s] EXCEPT !.closing = "done"])
    /\ registry' = registry \ {s}
    /\ UNCHANGED <<cancelled, node, pipe, toStop, current>>

(* workDone is closed once stopping and no work is left; then the session  *)
(* leaves the registry and stopDone is closed.                             *)
WorkDone(s) ==
    /\ sess[s].closing = "work"
    /\ sess[s].work = 0
    /\ Becomes(s, [sess[s] EXCEPT !.closing = "done"])
    /\ registry' = registry \ {s}
    /\ UNCHANGED <<cancelled, node, pipe, toStop, current>>

Closer(s) == CloseCarrier(s) \/ CloseTarget(s) \/ WorkDone(s)

-----------------------------------------------------------------------------
(* The lease of a server's session expires, and its timer fires.           *)
Expire(s) ==
    /\ sess[s].timer # "off" /\ ~sess[s].expired
    /\ Becomes(s, [sess[s] EXCEPT !.expired = TRUE])
    /\ UNCHANGED tree

TimerFires(s) ==
    /\ sess[s].expired
    /\ \/ /\ sess[s].timer = "target"
          /\ Becomes(s, [sess[s] EXCEPT !.timer = "off", !.target = FALSE])
       \/ /\ sess[s].timer = "stop"
          /\ Becomes(s, [BeginStop(sess[s]) EXCEPT !.timer = "off"])
    /\ UNCHANGED tree

-----------------------------------------------------------------------------
(* Shutdown: the run's context is cancelled, the watcher (or the run's own *)
(* deferred call) closes the NodeRuntime, which closes its PipeRuntime,    *)
(* which stops its registered sessions one by one.                         *)
Cancel ==
    /\ ~cancelled
    /\ cancelled' = TRUE
    /\ UNCHANGED <<node, pipe, registry, toStop, current, sess>>

NodeClose ==
    /\ node = "open"
    /\ node' = "closing"
    /\ cancelled' = TRUE
    /\ UNCHANGED <<pipe, registry, toStop, current, sess>>

PipeClose ==
    /\ node = "closing" /\ pipe = "open"
    /\ pipe' = "closing"
    /\ toStop' = registry
    /\ registry' = {}
    /\ UNCHANGED <<cancelled, node, current, sess>>

PipeStops(s) ==
    /\ s \in toStop /\ current = None
    /\ current' = s
    /\ Becomes(s, BeginStop(sess[s]))
    /\ UNCHANGED <<cancelled, node, pipe, registry, toStop>>

(* Mutant: PipeRuntime.Close does not wait for a Stop it did not begin.    *)
PipeStopped_NoJoin ==
    /\ current # None
    /\ toStop' = toStop \ {current}
    /\ current' = None
    /\ UNCHANGED <<cancelled, node, pipe, registry, sess>>

PipeStopped ==
    /\ current # None
    /\ sess[current].closing = "done"
    /\ toStop' = toStop \ {current}
    /\ current' = None
    /\ UNCHANGED <<cancelled, node, pipe, registry, sess>>

PipeClosed ==
    /\ pipe = "closing" /\ toStop = {}
    /\ pipe' = "closed"
    /\ UNCHANGED <<cancelled, node, registry, toStop, current, sess>>

NodeClosed ==
    /\ node = "closing" /\ pipe = "closed"
    /\ node' = "closed"
    /\ UNCHANGED <<cancelled, pipe, registry, toStop, current, sess>>

Shutdown ==
    \/ PipeClose \/ (\E s \in Sessions : PipeStops(s)) \/ PipeStopped
    \/ PipeClosed \/ NodeClosed

-----------------------------------------------------------------------------
Next ==
    \/ Cancel \/ NodeClose \/ Shutdown
    \/ \E s \in Sessions :
         \/ Open(s) \/ Goroutine(s) \/ Closer(s)
         \/ Eof(s) \/ ToTargetFails(s) \/ ToCarrierFails(s)
         \/ Expire(s) \/ TimerFires(s)

Spec == Init /\ [][Next]_vars

(* Goroutines run and timers fire; a read or write on a carrier or target  *)
(* closed here returns.  Nothing is assumed of the peer or the target.     *)
Fairness ==
    /\ WF_vars(cancelled /\ NodeClose)
    /\ WF_vars(Shutdown)
    /\ \A s \in Sessions :
         /\ WF_vars(Goroutine(s))
         /\ WF_vars(Closer(s))
         /\ WF_vars(TimerFires(s))
         /\ WF_vars(sess[s].carrier # "live" /\ ToTargetFails(s))
         /\ WF_vars(~sess[s].target /\ ToCarrierFails(s))

FairSpec == Spec /\ Fairness

-----------------------------------------------------------------------------
TypeOK ==
    /\ cancelled \in BOOLEAN
    /\ node \in {"open", "closing", "closed"}
    /\ pipe \in {"open", "closing", "closed"}
    /\ registry \subseteq Sessions
    /\ toStop \subseteq Sessions
    /\ current \in Sessions \cup {None}
    /\ sess \in [Sessions -> Session]

Pumping == {"pump", "copy", "finish"}

(* When Stop returns (stopDone), everything the session owned is finished: *)
(* no pump is running or can be admitted any more, the target is closed,   *)
(* an installed carrier has had its terminal action and the registry has   *)
(* forgotten the session.                                                  *)
StopIsComplete ==
    \A s \in Sessions : sess[s].closing = "done" =>
        /\ sess[s].pc \notin Pumping
        /\ ~sess[s].target
        /\ sess[s].owned => sess[s].carrier # "live"
        /\ s \notin registry

(* NodeRuntime.Close returns only after every session that was ever        *)
(* registered is completely stopped, whoever its closer was and however    *)
(* its creation raced with the close.                                      *)
CloseIsComplete ==
    node = "closed" =>
        \A s \in Sessions : sess[s].registered => sess[s].closing = "done"

(* Both, with the types: whatever says that it has stopped has stopped.    *)
StoppedIsStopped == TypeOK /\ StopIsComplete /\ CloseIsComplete

(* "On transfer the Session owns stream terminal action": in the stream    *)
(* handler and in the scoped client no carrier is ended twice.  (The exact *)
(* ingress keeps its own deferred Close, which follows the session's.)     *)
SingleTerminalAction ==
    \A s \in Sessions : sess[s].kind # "ingress" => sess[s].acts <= 1

(* A session closes its carrier gracefully only if both directions reached *)
(* EOF; every other end is a reset.                                        *)
GracefulOnlyIfClean ==
    [][\A s \in Sessions :
         sess[s].closing = "carrier" /\ sess[s].carrier = "live"
           /\ sess'[s].carrier = "closed" /\ sess'[s].closing = "target"
             => sess[s].toTarget = "eof" /\ sess[s].toCarrier = "eof"]_vars

(* Cancelling the run ends its whole tree: NodeRuntime.Close never waits   *)
(* for ever on a session, even one whose peer and target are silent.       *)
CloseReturns == cancelled ~> node = "closed"

(* Every stop, requested by a failing direction, by the timer or by the    *)
(* goroutine itself, completes.                                            *)
StopCompletes ==
    \A s \in Sessions : sess[s].stopping ~> sess[s].closing = "done"

(* Both: nothing that is told to stop hangs.                               *)
StopsReturn == CloseReturns /\ StopCompletes

(* Lease expiry ends the session: "the authorization/lifetime timer closes *)
(* target+stream at lease expiry", on either side of the hand-over from    *)
(* the raw timer to Session.Stop.                                          *)
ExpiryEndsSession ==
    \A s \in Servers :
        sess[s].expired ~> /\ ~sess[s].target
                           /\ sess[s].owned => sess[s].carrier # "live"

=============================================================================
