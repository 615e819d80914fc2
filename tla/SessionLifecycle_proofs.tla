------------------------ MODULE SessionLifecycle_proofs ------------------------
(***************************************************************************)
(* For any number of sessions: what has stopped has stopped, a carrier has *)
(* one terminal action, it is graceful only after two EOFs, nobody waits   *)
(* for a stop in a circle, and no server session pumps untimed.            *)
(***************************************************************************)
EXTENDS SessionLifecycle, TLAPS

(* The terminal action of the closer, once it has passed the carrier.      *)
Closed(v) == v.owned /\ v.closing \in {"target", "work", "done"}

(* The terminal action of the goroutine's own defers.                      *)
Left(v) ==
    /\ v.pc = "end"
    /\ \/ v.kind = "server" /\ ~v.registered
       \/ v.kind = "client" /\ ~v.owned
       \/ v.kind = "ingress"

(* Where the goroutine is agrees with what its session owns and counts.    *)
PhaseOK(v) ==
    /\ v.pc \in {"idle", "opening", "new"} => ~v.registered
    /\ v.pc = "set" => v.registered /\ ~v.owned
    /\ v.pc \in Pumping \cup {"transfer", "admit", "stop", "await"} => v.owned
    /\ v.owned => v.registered
    /\ v.timer = "stop" => v.owned
    /\ v.work = IF v.pc \in Pumping THEN 1 ELSE 0

(* What the closer has done, and how often the carrier was ended.          *)
CloserOK(v) ==
    /\ v.stopping <=> v.closing # "no"
    /\ v.stopping => v.registered
    /\ v.closing \in {"work", "done"} => ~v.target
    /\ v.closing = "done" => v.pc \notin Pumping
    /\ v.clean => v.toTarget = "eof" /\ v.toCarrier = "eof"
    /\ Closed(v) => v.carrier # "live"
    /\ v.acts = (IF Closed(v) THEN 1 ELSE 0) + (IF Left(v) THEN 1 ELSE 0)

(* Every registered session is known to somebody until it has stopped.     *)
TreeOK ==
    /\ \A s \in registry \cup toStop : sess[s].registered
    /\ \A s \in registry : sess[s].closing # "done"
    /\ \A s \in Sessions : sess[s].registered =>
          s \in registry \cup toStop \/ sess[s].closing = "done"
    /\ current # None => current \in toStop
    /\ pipe = "open" => toStop = {}
    /\ pipe # "open" => registry = {}
    /\ pipe = "closed" => toStop = {}
    /\ node = "closed" => pipe = "closed"

SessionInv ==
    /\ TypeOK
    /\ \A s \in Sessions : PhaseOK(sess[s]) /\ CloserOK(sess[s])
    /\ TreeOK

Good(v) == v \in Session /\ PhaseOK(v) /\ CloserOK(v)

(* A step of a session from v to w that neither registers it nor completes *)
(* its stop.                                                               *)
Moves(v, w) ==
    /\ Good(w)
    /\ w.registered = v.registered
    /\ w.closing = "done" <=> v.closing = "done"

-----------------------------------------------------------------------------
LEMMA Starts == Init => SessionInv
<1> SUFFICES ASSUME Init PROVE SessionInv
  OBVIOUS
<1>1. \A k \in Kinds : Newborn(k) \in Session /\ PhaseOK(Newborn(k)) /\ CloserOK(Newborn(k))
  BY DEF Newborn, Session, PCs, PhaseOK, CloserOK, Closed, Left, Pumping
<1>2. \A s \in Sessions : \E k \in Kinds : sess[s] = Newborn(k)
  BY DEF Init, Kinds
<1>3. \A k \in Kinds : ~Newborn(k).registered
  BY DEF Newborn
<1>4. TypeOK
  <2>1. sess \in [Sessions -> Session]
    <3>1. PICK ingresses \in SUBSET Locals :
            sess = [s \in Sessions |-> Newborn(CASE s \in Servers -> "server"
                                                 [] s \in ingresses -> "ingress"
                                                 [] OTHER -> "client")]
      BY DEF Init
    <3>2. QED
      BY <1>1, <3>1 DEF Kinds
  <2>2. QED
    BY <2>1 DEF Init, TypeOK
<1>5. TreeOK
  BY <1>2, <1>3 DEF Init, TreeOK
<1>6. QED
  BY <1>1, <1>2, <1>4, <1>5 DEF SessionInv

(* Such a step that changes nothing else keeps the invariant.              *)
LEMMA SessionMoves ==
    ASSUME SessionInv, NEW s \in Sessions, NEW v, Moves(sess[s], v),
           Becomes(s, v), UNCHANGED tree
    PROVE  SessionInv'
<1>1. TypeOK'
  BY DEF SessionInv, TypeOK, Becomes, tree, Moves, Good
<1>2. \A t \in Sessions : sess'[t] = IF t = s THEN v ELSE sess[t]
  BY DEF SessionInv, TypeOK, Becomes
<1>3. \A t \in Sessions : PhaseOK(sess'[t]) /\ CloserOK(sess'[t])
  BY <1>2 DEF SessionInv, Moves, Good
<1>4. TreeOK'
  BY <1>2 DEF SessionInv, TreeOK, TypeOK, tree, Moves, Good
<1>5. QED
  BY <1>1, <1>3, <1>4 DEF SessionInv

(* The stop of a session begins: its closer is elected, or was before.     *)
LEMMA Begins ==
    ASSUME NEW v, Good(v), v.registered
    PROVE  Moves(v, BeginStop(v))
<1> DEFINE w == [v EXCEPT !.stopping = TRUE, !.closing = "carrier"]
<1>1. CASE v.stopping
  BY <1>1 DEF BeginStop, Moves
<1>2. CASE ~v.stopping
  <2>1. w \in Session
    BY DEF Good, Session
  <2>2. PhaseOK(w)
    BY DEF Good, Session, PhaseOK
  <2>3. v.closing = "no"
    BY <1>2 DEF Good, CloserOK
  <2>4. Closed(w) = FALSE /\ Closed(v) = FALSE /\ Left(w) = Left(v)
    BY <2>3 DEF Good, Session, Closed, Left
  <2>5. CloserOK(w)
    BY <1>2, <2>3, <2>4 DEF Good, Session, CloserOK
  <2>6. w.registered = v.registered /\ w.closing # "done"
    BY DEF Good, Session
  <2>7. QED
    BY <1>2, <2>1, <2>2, <2>3, <2>5, <2>6 DEF BeginStop, Moves, Good
<1>3. QED
  BY <1>1, <1>2

LEMMA OpenMoves ==
    ASSUME NEW v, Good(v), v.pc = "idle"
    PROVE  /\ Moves(v, [v EXCEPT !.pc = "opening", !.timer = "target"])
           /\ Moves(v, Goes(v, "new"))
BY DEF Moves, Good, Session, PCs, PhaseOK, CloserOK, Closed, Left, Pumping, Goes, PumpEnded

LEMMA AnswerMoves ==
    ASSUME NEW v, Good(v), v.pc = "opening"
    PROVE  /\ Moves(v, Goes(v, "new"))
           /\ Moves(v, Goes(v, "leave"))
BY DEF Moves, Good, Session, PCs, PhaseOK, CloserOK, Closed, Left, Pumping, Goes, PumpEnded

LEMMA GivesUp ==
    ASSUME NEW v, Good(v), v.pc \in {"new", "set", "admit"}
    PROVE  Moves(v, Goes(v, "leave"))
BY DEF Moves, Good, Session, PCs, PhaseOK, CloserOK, Closed, Left, Pumping, Goes, PumpEnded

LEMMA CarrierIsSet ==
    ASSUME NEW v, Good(v), v.pc = "set", ~v.stopping, NEW pc \in {"transfer", "admit"}
    PROVE  Moves(v, [v EXCEPT !.owned = TRUE, !.pc = pc])
BY DEF Moves, Good, Session, PCs, PhaseOK, CloserOK, Closed, Left, Pumping, Goes, PumpEnded

LEMMA TimerIsTransferred ==
    ASSUME NEW v, Good(v), v.pc = "transfer"
    PROVE  Moves(v, [v EXCEPT !.pc = "admit", !.timer = "stop"])
<1> DEFINE w == [v EXCEPT !.pc = "admit", !.timer = "stop"]
<1>1. w \in Session
  BY DEF Good, Session, PCs, PhaseOK, Pumping
<1>2. Closed(w) = Closed(v) /\ Left(w) = Left(v)
  BY DEF Good, Session, Closed, Left
<1>3. PhaseOK(w)
  BY DEF Good, Session, PhaseOK, Pumping
<1>4. CloserOK(w)
  BY <1>2 DEF Good, Session, CloserOK, Pumping
<1>5. QED
  BY <1>1, <1>3, <1>4 DEF Moves, Good, Session

LEMMA WorkIsAdmitted ==
    ASSUME NEW v, Good(v), v.pc = "admit", ~v.stopping
    PROVE  Moves(v, [v EXCEPT !.pc = "pump", !.work = @ + 1])
<1> DEFINE w == [v EXCEPT !.pc = "pump", !.work = 1]
<1>0. v.work = 0
  BY DEF Good, PhaseOK, Pumping
<1>1. w \in Session
  <2>1. 1 \in 0..1 /\ "pump" \in PCs
    BY DEF PCs
  <2>2. v \in Session
    BY DEF Good
  <2>3. QED
    BY <2>1, <2>2, Zenon DEF Session
<1>2. Closed(w) = Closed(v) /\ Left(w) = Left(v)
  BY DEF Good, Session, Closed, Left
<1>3. PhaseOK(w)
  BY DEF Good, Session, PhaseOK, Pumping
<1>4. CloserOK(w)
  BY <1>2 DEF Good, Session, CloserOK, Pumping
<1>5. Moves(v, w)
  BY <1>1, <1>3, <1>4 DEF Moves, Good, Session
<1>6. QED
  BY <1>0, <1>5

LEMMA PumpMoves ==
    ASSUME NEW v, Good(v), v.pc = "pump"
    PROVE  /\ Moves(v, Goes(v, "finish"))
           /\ Moves(v, Goes(v, "copy"))
BY DEF Moves, Good, Session, PCs, PhaseOK, CloserOK, Closed, Left, Pumping, Goes, PumpEnded

LEMMA CopyMoves ==
    ASSUME NEW v, Good(v), v.pc = "copy"
    PROVE  /\ v.toTarget = "run" => Moves(v, [v EXCEPT !.toTarget = "eof"])
           /\ v.toCarrier = "run" => Moves(v, [v EXCEPT !.toCarrier = "eof"])
           /\ v.toTarget = "run" => Moves(v, [v EXCEPT !.toTarget = "error"])
           /\ v.toCarrier = "run" => Moves(v, [v EXCEPT !.toCarrier = "error"])
BY DEF Moves, Good, Session, PCs, PhaseOK, CloserOK, Closed, Left, Pumping, Goes, PumpEnded

LEMMA CleanIsStored ==
    ASSUME NEW v, Good(v), PumpEnded(v)
    PROVE  /\ {v.toTarget, v.toCarrier} = {"eof"} =>
             Moves(v, [v EXCEPT !.pc = "finish", !.clean = TRUE])
           /\ {v.toTarget, v.toCarrier} # {"eof"} =>
             Moves(v, [v EXCEPT !.pc = "finish", !.toTarget = "error", !.toCarrier = "error"])
<1>1. ASSUME {v.toTarget, v.toCarrier} = {"eof"}
      PROVE  Moves(v, [v EXCEPT !.pc = "finish", !.clean = TRUE])
  <2> DEFINE w == [v EXCEPT !.pc = "finish", !.clean = TRUE]
  <2>1. w \in Session
    BY ZenonT(60) DEF Good, Session, PCs
  <2>2. Closed(w) = Closed(v) /\ Left(w) = Left(v)
    BY DEF Good, Session, Closed, Left, PumpEnded
  <2>3. PhaseOK(w)
    BY DEF Good, Session, PhaseOK, Pumping, PumpEnded
  <2>4. CloserOK(w)
    BY <1>1, <2>2 DEF Good, Session, CloserOK, Pumping, PumpEnded
  <2>5. QED
    BY <2>1, <2>3, <2>4 DEF Moves, Good, Session
<1>2. ASSUME {v.toTarget, v.toCarrier} # {"eof"}
      PROVE  Moves(v, [v EXCEPT !.pc = "finish", !.toTarget = "error", !.toCarrier = "error"])
  <2>0. ~v.clean
    BY <1>2 DEF Good, CloserOK
  <2> DEFINE w == [v EXCEPT !.pc = "finish", !.toTarget = "error", !.toCarrier = "error"]
  <2>1. w \in Session
    BY ZenonT(60) DEF Good, Session, PCs
  <2>2. Closed(w) = Closed(v) /\ Left(w) = Left(v)
    BY DEF Good, Session, Closed, Left, PumpEnded
  <2>3. PhaseOK(w)
    BY DEF Good, Session, PhaseOK, Pumping, PumpEnded
  <2>4. CloserOK(w)
    BY <2>0, <2>2 DEF Good, Session, CloserOK, Pumping, PumpEnded
  <2>5. QED
    BY <2>1, <2>3, <2>4 DEF Moves, Good, Session
<1>3. QED
  BY <1>1, <1>2

LEMMA WorkIsFinished ==
    ASSUME NEW v, Good(v), v.pc = "finish"
    PROVE  Moves(v, [v EXCEPT !.pc = "stop", !.work = @ - 1])
<1> DEFINE w == [v EXCEPT !.pc = "stop", !.work = 0]
<1>0. v.work = 1
  BY DEF Good, PhaseOK, Pumping
<1>1. w \in Session
  <2>1. 0 \in 0..1 /\ "stop" \in PCs
    BY DEF PCs
  <2>2. v \in Session
    BY DEF Good
  <2>3. QED
    BY <2>1, <2>2, Zenon DEF Session
<1>2. Closed(w) = Closed(v) /\ Left(w) = Left(v)
  BY DEF Good, Session, Closed, Left
<1>3. PhaseOK(w)
  BY DEF Good, Session, PhaseOK, Pumping
<1>4. CloserOK(w)
  BY <1>2 DEF Good, Session, CloserOK, Pumping
<1>5. Moves(v, w)
  BY <1>1, <1>3, <1>4 DEF Moves, Good, Session
<1>6. QED
  BY <1>0, <1>5

LEMMA StopMoves ==
    ASSUME NEW v, Good(v), v.pc = "stop"
    PROVE  Moves(v, Goes(v, "await"))
BY DEF Moves, Good, Session, PCs, PhaseOK, CloserOK, Closed, Left, Pumping, Goes, PumpEnded

LEMMA AwaitMoves ==
    ASSUME NEW v, Good(v), v.pc = "await"
    PROVE  Moves(v, Goes(v, "leave"))
BY DEF Moves, Good, Session, PCs, PhaseOK, CloserOK, Closed, Left, Pumping, Goes, PumpEnded

LEMMA TargetIsClosed ==
    ASSUME NEW v, Good(v), v.closing = "target"
    PROVE  Moves(v, [v EXCEPT !.closing = "work", !.target = FALSE])
<1> DEFINE w == [v EXCEPT !.closing = "work", !.target = FALSE]
<1>1. w \in Session
  BY DEF Good, Session, PCs, PhaseOK, Pumping
<1>2. Closed(w) = Closed(v) /\ Left(w) = Left(v)
  BY DEF Good, Session, Closed, Left
<1>3. PhaseOK(w)
  BY DEF Good, Session, PhaseOK, Pumping
<1>4. CloserOK(w)
  BY <1>2 DEF Good, Session, CloserOK, Pumping
<1>5. QED
  BY <1>1, <1>3, <1>4 DEF Moves, Good, Session

LEMMA TimerMoves ==
    ASSUME NEW v, Good(v)
    PROVE  /\ Moves(v, [v EXCEPT !.expired = TRUE])
           /\ Moves(v, [v EXCEPT !.timer = "off", !.target = FALSE])
           /\ Moves(v, [v EXCEPT !.timer = "off"])
<1>1. Moves(v, [v EXCEPT !.expired = TRUE])
  <2> DEFINE w == [v EXCEPT !.expired = TRUE]
  <2>1. w \in Session
    BY ZenonT(60) DEF Good, Session, PCs
  <2>2. Closed(w) = Closed(v) /\ Left(w) = Left(v)
    BY DEF Good, Session, Closed, Left
  <2>3. PhaseOK(w)
    BY DEF Good, Session, PhaseOK, Pumping
  <2>4. CloserOK(w)
    BY <2>2 DEF Good, Session, CloserOK, Pumping
  <2>5. QED
    BY <2>1, <2>3, <2>4 DEF Moves, Good, Session
<1>2. Moves(v, [v EXCEPT !.timer = "off", !.target = FALSE])
  <2> DEFINE w == [v EXCEPT !.timer = "off", !.target = FALSE]
  <2>1. w \in Session
    BY ZenonT(60) DEF Good, Session, PCs
  <2>2. Closed(w) = Closed(v) /\ Left(w) = Left(v)
    BY DEF Good, Session, Closed, Left
  <2>3. PhaseOK(w)
    BY DEF Good, Session, PhaseOK, Pumping
  <2>4. CloserOK(w)
    BY <2>2 DEF Good, Session, CloserOK, Pumping
  <2>5. QED
    BY <2>1, <2>3, <2>4 DEF Moves, Good, Session
<1>3. Moves(v, [v EXCEPT !.timer = "off"])
  <2> DEFINE w == [v EXCEPT !.timer = "off"]
  <2>1. w \in Session
    BY ZenonT(60) DEF Good, Session, PCs
  <2>2. Closed(w) = Closed(v) /\ Left(w) = Left(v)
    BY DEF Good, Session, Closed, Left
  <2>3. PhaseOK(w)
    BY DEF Good, Session, PhaseOK, Pumping
  <2>4. CloserOK(w)
    BY <2>2 DEF Good, Session, CloserOK, Pumping
  <2>5. QED
    BY <2>1, <2>3, <2>4 DEF Moves, Good, Session
<1>4. QED
  BY <1>1, <1>2, <1>3

(* A terminal action changes the carrier and the count of the actions.     *)
LEMMA EndsFields ==
    ASSUME NEW v \in Session, v.acts \in 0..1, NEW how \in {"closed", "reset"}
    PROVE  LET w == Ends(v, how) IN
           /\ w \in Session /\ w.acts = v.acts + 1 /\ w.carrier # "live"
           /\ Closed(w) = Closed(v) /\ Left(w) = Left(v)
           /\ PhaseOK(v) => PhaseOK(w)
           /\ \A f \in {"kind", "pc", "registered", "owned", "stopping", "closing", "work",
                        "toTarget", "toCarrier", "clean", "target", "timer", "expired"} :
                 w[f] = v[f]
<1> DEFINE c == IF v.carrier = "live" THEN how ELSE v.carrier
           n == v.acts + 1
           w == [v EXCEPT !.acts = n, !.carrier = c]
<1>1. c \in {"closed", "reset"} /\ n \in 0..2
  BY DEF Session
<1>2. Ends(v, how) = w
  BY DEF Ends
<1> HIDE DEF c, n
<1>3. w \in Session
  BY <1>1, Zenon DEF Session
<1>4. w.acts = n /\ w.carrier = c
  BY DEF Session
<1>5. \A f \in {"kind", "pc", "registered", "owned", "stopping", "closing", "work",
                "toTarget", "toCarrier", "clean", "target", "timer", "expired"} :
         w[f] = v[f]
  BY DEF Session
<1>6. Closed(w) = Closed(v) /\ Left(w) = Left(v)
  BY <1>5 DEF Closed, Left
<1>7. PhaseOK(v) => PhaseOK(w)
  BY <1>5 DEF PhaseOK
<1>8. QED
  BY <1>1, <1>2, <1>3, <1>4, <1>5, <1>6, <1>7 DEF n

(* The closer ends the carrier it took, if there is one.                   *)
LEMMA CarrierIsClosed ==
    ASSUME NEW v, Good(v), v.closing = "carrier", NEW how \in {"closed", "reset"}
    PROVE  LET u == [v EXCEPT !.closing = "target"]
           IN  Moves(v, IF ~u.owned THEN u ELSE Ends(u, how))
<1> DEFINE u == [v EXCEPT !.closing = "target"]
<1>1. u \in Session /\ PhaseOK(u)
  BY DEF Good, Session, PhaseOK
<1>2. u.registered = v.registered /\ u.closing = "target" /\ u.owned = v.owned
  BY DEF Good, Session
<1>3. Left(u) = Left(v) /\ ~Closed(v) /\ (Closed(u) <=> v.owned)
  BY DEF Good, Session, Left, Closed
<1>4. u.acts = v.acts /\ v.acts \in 0..1
  BY <1>3 DEF Good, Session, CloserOK
<1>5. u.stopping /\ u.registered /\ (u.clean => u.toTarget = "eof" /\ u.toCarrier = "eof")
  BY DEF Good, Session, CloserOK
<1> HIDE DEF u
<1>6. CASE ~u.owned
  <2>1. CloserOK(u)
    BY <1>2, <1>3, <1>4, <1>5, <1>6 DEF Good, CloserOK
  <2>2. QED
    BY <1>1, <1>2, <1>6, <2>1 DEF Moves, Good, u
<1>7. CASE u.owned
  <2> DEFINE w == Ends(u, how)
  <2>1. /\ w \in Session /\ w.acts = u.acts + 1 /\ w.carrier # "live" /\ PhaseOK(w)
        /\ Closed(w) = Closed(u) /\ Left(w) = Left(u)
        /\ w.registered = u.registered /\ w.closing = u.closing /\ w.stopping = u.stopping
        /\ w.clean = u.clean /\ w.toTarget = u.toTarget /\ w.toCarrier = u.toCarrier
    BY <1>1, <1>4, EndsFields
  <2> HIDE DEF w
  <2>2. CloserOK(w)
    BY <1>2, <1>3, <1>4, <1>5, <1>7, <2>1 DEF Good, CloserOK
  <2>3. Moves(v, w)
    BY <1>2, <2>1, <2>2 DEF Moves, Good
  <2>4. QED
    BY <1>7, <2>3 DEF w, u
<1>8. QED
  BY <1>6, <1>7

(* The goroutine's defers end a carrier that no session has taken over, or *)
(* the one of an ingress, once.                                            *)
LEMMA LeaveMoves ==
    ASSUME NEW v, Good(v), v.pc = "leave", NEW t \in BOOLEAN, t => v.target
    PROVE  LET u == [v EXCEPT !.pc = "end", !.timer = "off", !.target = t] IN
           /\ ~Left(u) => Moves(v, u)
           /\ \A how \in {"closed", "reset"} : Left(u) => Moves(v, Ends(u, how))
<1> DEFINE u == [v EXCEPT !.pc = "end", !.timer = "off", !.target = t]
<1>1. u \in Session
  BY DEF Good, Session, PCs
<1>2. /\ u.registered = v.registered /\ u.closing = v.closing /\ u.owned = v.owned
      /\ u.stopping = v.stopping /\ u.acts = v.acts /\ u.carrier = v.carrier
      /\ u.clean = v.clean /\ u.toTarget = v.toTarget /\ u.toCarrier = v.toCarrier
      /\ u.pc = "end" /\ u.target = t /\ u.work = v.work /\ u.timer = "off"
  BY DEF Good, Session
<1>3. PhaseOK(u)
  BY <1>2 DEF Good, PhaseOK, Pumping
<1>4. Closed(u) = Closed(v) /\ ~Left(v)
  BY <1>2 DEF Closed, Left
<1>5. v.acts = (IF Closed(v) THEN 1 ELSE 0) /\ v.acts \in 0..1
  BY <1>4 DEF Good, CloserOK
<1> HIDE DEF u
<1>6. ASSUME ~Left(u) PROVE Moves(v, u)
  <2>1. CloserOK(u)
    BY <1>2, <1>4, <1>5, <1>6 DEF Good, CloserOK, Pumping
  <2>2. QED
    BY <1>1, <1>2, <1>3, <2>1 DEF Moves, Good
<1>7. ASSUME NEW how \in {"closed", "reset"}, Left(u) PROVE Moves(v, Ends(u, how))
  <2> DEFINE w == Ends(u, how)
  <2>1. /\ w \in Session /\ w.acts = u.acts + 1 /\ w.carrier # "live" /\ PhaseOK(w)
        /\ Closed(w) = Closed(u) /\ Left(w) = Left(u)
        /\ w.registered = u.registered /\ w.closing = u.closing /\ w.stopping = u.stopping
        /\ w.clean = u.clean /\ w.toTarget = u.toTarget /\ w.toCarrier = u.toCarrier
        /\ w.pc = u.pc /\ w.target = u.target
    BY <1>1, <1>2, <1>3, <1>5, EndsFields
  <2> HIDE DEF w
  <2>2. CloserOK(w)
    BY <1>2, <1>4, <1>5, <1>7, <2>1 DEF Good, CloserOK, Pumping
  <2>3. QED
    BY <1>2, <2>1, <2>2 DEF Moves, Good, w
<1>8. QED
  BY <1>6, <1>7 DEF u

-----------------------------------------------------------------------------
LEMMA SessionsAreGood == SessionInv => \A s \in Sessions : Good(sess[s])
BY DEF SessionInv, TypeOK, Good

(* The steps of the creating goroutine, except the registration.           *)
LEMMA GoroutineKeeps ==
    ASSUME SessionInv, NEW s \in Sessions,
           Open(s) \/ (Goroutine(s) /\ ~NewSession(s))
    PROVE  SessionInv'
<1> DEFINE v == sess[s]
<1>0. Good(v)
  BY SessionsAreGood
<1>1. CASE Open(s)
  BY <1>0, <1>1, OpenMoves, SessionMoves DEF Open
<1>2. CASE Answer(s)
  BY <1>0, <1>2, AnswerMoves, SessionMoves DEF Answer
<1>3. CASE SetActiveCarrier(s)
  BY <1>0, <1>3, CarrierIsSet, GivesUp, SessionMoves DEF SetActiveCarrier, Live
<1>4. CASE TransferTimer(s)
  BY <1>0, <1>4, TimerIsTransferred, SessionMoves DEF TransferTimer
<1>5. CASE AdmitWork(s)
  BY <1>0, <1>5, WorkIsAdmitted, GivesUp, SessionMoves DEF AdmitWork, Live
<1>6. CASE StartPump(s)
  BY <1>0, <1>6, PumpMoves, SessionMoves DEF StartPump
<1>7. CASE StoreClean(s)
  BY <1>0, <1>7, CleanIsStored, SessionMoves DEF StoreClean
<1>8. CASE FinishWork(s)
  BY <1>0, <1>8, WorkIsFinished, SessionMoves DEF FinishWork
<1>9. CASE Stop(s)
  <2> DEFINE u == BeginStop(v)
  <2>1. Moves(v, u) /\ u.pc = "stop"
    <3>1. v.registered
      BY <1>0, <1>9 DEF Stop, Good, PhaseOK
    <3>2. QED
      BY <1>0, <1>9, <3>1, Begins DEF Stop, BeginStop, Good, Session
  <2>2. Good(u)
    BY <2>1 DEF Moves
  <2> HIDE DEF u
  <2>3. Moves(u, Goes(u, "await"))
    BY <2>1, <2>2, StopMoves
  <2>4. Moves(v, Goes(u, "await"))
    BY <2>1, <2>3 DEF Moves
  <2>5. QED
    BY <1>9, <2>4, SessionMoves DEF Stop, u
<1>10. CASE StopReturns(s)
  BY <1>0, <1>10, AwaitMoves, SessionMoves DEF StopReturns
<1>11. CASE Leave(s)
  <2> DEFINE t == v.target /\ s \in Servers /\ v.owned
             u == [v EXCEPT !.pc = "end", !.timer = "off", !.target = t]
  <2>1. t \in BOOLEAN /\ (t => v.target) /\ v.pc = "leave"
    BY <1>0, <1>11 DEF Leave, Good, Session
  <2>2. /\ ~Left(u) => Moves(v, u)
        /\ \A how \in {"closed", "reset"} : Left(u) => Moves(v, Ends(u, how))
    BY <1>0, <2>1, LeaveMoves
  <2>3. u.pc = "end"
    BY <1>0 DEF Good, Session
  <2>4. /\ UNCHANGED tree
        /\ Becomes(s, CASE u.kind = "server" /\ ~u.registered -> Ends(u, "reset")
                        [] u.kind = "client" /\ ~u.owned -> Ends(u, "closed")
                        [] u.kind = "ingress" -> Ends(u, "closed")
                        [] OTHER -> u)
    BY <1>11 DEF Leave
  <2> HIDE DEF u
  <2>5. \E w : Moves(v, w) /\ Becomes(s, w)
    BY <2>2, <2>3, <2>4 DEF Left
  <2>6. QED
    BY <2>4, <2>5, SessionMoves
<1>12. QED
  BY <1>1, <1>2, <1>3, <1>4, <1>5, <1>6, <1>7, <1>8, <1>9, <1>10, <1>11 DEF Goroutine

(* The copying directions and the authorization timer.                     *)
LEMMA EventsKeep ==
    ASSUME SessionInv, NEW s \in Sessions,
           \/ Eof(s) \/ ToTargetFails(s) \/ ToCarrierFails(s)
           \/ Expire(s) \/ TimerFires(s)
    PROVE  SessionInv'
<1> DEFINE v == sess[s]
           u == BeginStop(v)
<1>0. Good(v)
  BY SessionsAreGood
<1>1. ASSUME v.registered
      PROVE  /\ Moves(v, u) /\ Good(u) /\ u.pc = v.pc
             /\ u.toTarget = v.toTarget /\ u.toCarrier = v.toCarrier
  <2>1. Moves(v, u)
    BY <1>0, <1>1, Begins
  <2>2. u.pc = v.pc /\ u.toTarget = v.toTarget /\ u.toCarrier = v.toCarrier
    BY <1>0 DEF BeginStop, Good, Session
  <2>3. QED
    BY <2>1, <2>2 DEF Moves
<1>2. CASE Eof(s)
  BY <1>0, <1>2, CopyMoves, SessionMoves DEF Eof
<1>3. CASE ToTargetFails(s)
  <2>1. v.registered /\ v.pc = "copy" /\ v.toTarget = "run"
    BY <1>0, <1>3 DEF ToTargetFails, Good, PhaseOK, Pumping
  <2> HIDE DEF u
  <2>2. Moves(u, [u EXCEPT !.toTarget = "error"])
    BY <1>1, <2>1, CopyMoves
  <2>3. Moves(v, [u EXCEPT !.toTarget = "error"])
    BY <1>1, <2>1, <2>2 DEF Moves
  <2>4. QED
    BY <1>3, <2>3, SessionMoves DEF ToTargetFails, u
<1>4. CASE ToCarrierFails(s)
  <2>1. v.registered /\ v.pc = "copy" /\ v.toCarrier = "run"
    BY <1>0, <1>4 DEF ToCarrierFails, Good, PhaseOK, Pumping
  <2> HIDE DEF u
  <2>2. Moves(u, [u EXCEPT !.toCarrier = "error"])
    BY <1>1, <2>1, CopyMoves
  <2>3. Moves(v, [u EXCEPT !.toCarrier = "error"])
    BY <1>1, <2>1, <2>2 DEF Moves
  <2>4. QED
    BY <1>4, <2>3, SessionMoves DEF ToCarrierFails, u
<1>5. CASE Expire(s)
  BY <1>0, <1>5, TimerMoves, SessionMoves DEF Expire
<1>6. CASE TimerFires(s) /\ v.timer = "target"
  BY <1>0, <1>6, TimerMoves, SessionMoves DEF TimerFires
<1>7. CASE TimerFires(s) /\ v.timer = "stop"
  <2>1. v.registered
    BY <1>0, <1>7 DEF Good, PhaseOK
  <2> HIDE DEF u
  <2>2. Moves(u, [u EXCEPT !.timer = "off"])
    BY <1>1, <2>1, TimerMoves
  <2>3. Moves(v, [u EXCEPT !.timer = "off"])
    BY <1>1, <2>1, <2>2 DEF Moves
  <2>4. QED
    BY <1>7, <2>3, SessionMoves DEF TimerFires, u
<1>8. QED
  BY <1>2, <1>3, <1>4, <1>5, <1>6, <1>7 DEF TimerFires

(* A session is registered.                                                *)
LEMMA NewSessionKeeps ==
    ASSUME SessionInv, NEW s \in Sessions, NewSession(s)
    PROVE  SessionInv'
<1> DEFINE v == sess[s]
           w == [v EXCEPT !.pc = "set", !.registered = TRUE]
<1>0. Good(v) /\ v.pc = "new"
  BY SessionsAreGood DEF NewSession
<1>1. CASE pipe # "open" \/ cancelled
  BY <1>0, <1>1, GivesUp, SessionMoves DEF NewSession, tree
<1>2. CASE pipe = "open" /\ ~cancelled
  <2>1. ~v.registered /\ ~v.owned /\ ~v.stopping /\ v.closing = "no"
    BY <1>0 DEF Good, PhaseOK, CloserOK
  <2>2. w \in Session
    BY <1>0 DEF Good, Session, PCs
  <2>3. w.registered /\ w.closing = "no"
    BY <1>0, <2>1 DEF Good, Session
  <2>4. PhaseOK(w)
    BY <1>0, <2>1 DEF Good, Session, PhaseOK, Pumping
  <2>5. ~Closed(w) /\ ~Closed(v) /\ ~Left(w) /\ ~Left(v)
    BY <1>0, <2>1 DEF Good, Session, Closed, Left
  <2>6. CloserOK(w)
    BY <1>0, <2>1, <2>5 DEF Good, Session, CloserOK, Pumping
  <2> HIDE DEF w
  <2>7. /\ \A t \in Sessions : sess'[t] = IF t = s THEN w ELSE sess[t]
        /\ sess' \in [Sessions -> Session]
        /\ registry' = registry \cup {s}
        /\ UNCHANGED <<cancelled, node, pipe, toStop, current>>
    BY <1>2, <2>2 DEF NewSession, SessionInv, TypeOK, Becomes, w
  <2>8. TypeOK'
    BY <2>7 DEF SessionInv, TypeOK
  <2>9. TreeOK'
    BY <1>2, <2>3, <2>7 DEF SessionInv, TypeOK, TreeOK
  <2>10. QED
    BY <2>4, <2>6, <2>7, <2>8, <2>9 DEF SessionInv
<1>3. QED
  BY <1>1, <1>2 DEF SessionInv, TypeOK

(* The steps of completeStop.                                              *)
LEMMA CloserKeeps ==
    ASSUME SessionInv, NEW s \in Sessions, Closer(s)
    PROVE  SessionInv'
<1> DEFINE v == sess[s]
<1>0. Good(v)
  BY SessionsAreGood
<1>1. CASE CloseCarrier(s)
  <2> DEFINE u == [v EXCEPT !.closing = "target"]
             how == IF u.clean THEN "closed" ELSE "reset"
  <2>1. Moves(v, IF ~u.owned THEN u ELSE Ends(u, how))
    BY <1>0, <1>1, CarrierIsClosed DEF CloseCarrier
  <2>2. Becomes(s, IF ~u.owned THEN u ELSE Ends(u, how)) /\ UNCHANGED tree
    BY <1>1 DEF CloseCarrier
  <2> HIDE DEF u, how
  <2>3. QED
    BY <2>1, <2>2, SessionMoves
<1>2. CASE CloseTarget(s)
  BY <1>0, <1>2, TargetIsClosed, SessionMoves DEF CloseTarget
<1>3. CASE WorkDone(s)
  <2> DEFINE w == [v EXCEPT !.closing = "done"]
  <2>1. v.closing = "work" /\ v.work = 0 /\ v.pc \notin Pumping /\ v.registered
    BY <1>0, <1>3 DEF WorkDone, Good, PhaseOK, CloserOK
  <2>2. w \in Session /\ w.closing = "done" /\ w.registered
    BY <1>0, <2>1 DEF Good, Session
  <2>3. PhaseOK(w)
    BY <1>0 DEF Good, Session, PhaseOK
  <2>4. Closed(w) = Closed(v) /\ Left(w) = Left(v)
    BY <1>0, <2>1 DEF Good, Session, Closed, Left
  <2>5. CloserOK(w)
    BY <1>0, <2>1, <2>4 DEF Good, Session, CloserOK
  <2> HIDE DEF w
  <2>6. /\ \A t \in Sessions : sess'[t] = IF t = s THEN w ELSE sess[t]
        /\ sess' \in [Sessions -> Session]
        /\ registry' = registry \ {s}
        /\ UNCHANGED <<cancelled, node, pipe, toStop, current>>
    BY <1>3, <2>2 DEF WorkDone, SessionInv, TypeOK, Becomes, w
  <2>7. TypeOK'
    BY <2>6 DEF SessionInv, TypeOK
  <2>8. TreeOK'
    BY <2>2, <2>6 DEF SessionInv, TypeOK, TreeOK
  <2>9. QED
    BY <2>3, <2>5, <2>6, <2>7, <2>8 DEF SessionInv
<1>4. QED
  BY <1>1, <1>2, <1>3 DEF Closer

(* Shutdown.                                                               *)
LEMMA ShutdownKeeps ==
    ASSUME SessionInv, Cancel \/ NodeClose \/ Shutdown
    PROVE  SessionInv'
<1>1. ASSUME NEW s \in Sessions, PipeStops(s) PROVE SessionInv'
  <2> DEFINE w == BeginStop(sess[s])
  <2>1. sess[s].registered /\ Good(sess[s])
    BY <1>1, SessionsAreGood DEF PipeStops, SessionInv, TreeOK
  <2>2. Moves(sess[s], w)
    BY <2>1, Begins
  <2>3. /\ w \in Session /\ PhaseOK(w) /\ CloserOK(w) /\ w.registered
        /\ w.closing = "done" <=> sess[s].closing = "done"
    BY <2>1, <2>2 DEF Moves, Good
  <2> HIDE DEF w
  <2>4. /\ \A t \in Sessions : sess'[t] = IF t = s THEN w ELSE sess[t]
        /\ sess' \in [Sessions -> Session]
        /\ current' = s /\ s \in toStop
        /\ UNCHANGED <<cancelled, node, pipe, registry, toStop>>
    BY <1>1, <2>3 DEF PipeStops, SessionInv, TypeOK, Becomes, w
  <2>5. TypeOK'
    BY <2>4 DEF SessionInv, TypeOK
  <2>6. TreeOK'
    BY <2>1, <2>3, <2>4 DEF SessionInv, TypeOK, TreeOK
  <2>7. QED
    BY <2>3, <2>4, <2>5, <2>6 DEF SessionInv
<1>2. ASSUME Cancel \/ NodeClose \/ PipeClose \/ PipeStopped \/ PipeClosed \/ NodeClosed
      PROVE  SessionInv'
  <2>1. sess' = sess
    BY <1>2 DEF Cancel, NodeClose, PipeClose, PipeStopped, PipeClosed, NodeClosed
  <2>2. TypeOK'
    BY <1>2, <2>1 DEF SessionInv, TypeOK, Cancel, NodeClose, PipeClose, PipeStopped,
                      PipeClosed, NodeClosed
  <2>3. TreeOK'
    <3>1. CASE Cancel \/ NodeClose \/ PipeClosed \/ NodeClosed
      BY <2>1, <3>1 DEF SessionInv, TreeOK, Cancel, NodeClose, PipeClosed, NodeClosed
    <3>2. CASE PipeClose
      BY <2>1, <3>2 DEF SessionInv, TreeOK, PipeClose
    <3>3. CASE PipeStopped
      BY <2>1, <3>3 DEF SessionInv, TypeOK, TreeOK, PipeStopped
    <3>4. QED
      BY <1>2, <3>1, <3>2, <3>3
  <2>4. QED
    BY <2>1, <2>2, <2>3 DEF SessionInv
<1>3. QED
  BY <1>1, <1>2 DEF Shutdown

LEMMA Step == SessionInv /\ [Next]_vars => SessionInv'
<1> SUFFICES ASSUME SessionInv, [Next]_vars PROVE SessionInv'
  OBVIOUS
<1>1. CASE UNCHANGED vars
  BY <1>1 DEF vars, SessionInv, TypeOK, TreeOK
<1>2. CASE Cancel \/ NodeClose \/ Shutdown
  BY <1>2, ShutdownKeeps
<1>3. ASSUME NEW s \in Sessions,
             \/ Open(s) \/ Goroutine(s) \/ Closer(s)
             \/ Eof(s) \/ ToTargetFails(s) \/ ToCarrierFails(s)
             \/ Expire(s) \/ TimerFires(s)
      PROVE  SessionInv'
  BY <1>3, GoroutineKeeps, NewSessionKeeps, CloserKeeps, EventsKeep
<1>4. QED
  BY <1>1, <1>2, <1>3 DEF Next

LEMMA Invariance == Spec => []SessionInv
BY Starts, Step, PTL DEF Spec

-----------------------------------------------------------------------------
(* Whatever says that it has stopped has stopped: Session.Stop and         *)
(* NodeRuntime.Close return only after the pumps have ended, targets are   *)
(* closed, carriers have had their terminal action and no registered       *)
(* session is left, for any number of sessions and however their creation  *)
(* races with the close.                                                   *)
THEOREM StopsAreComplete == Spec => []StoppedIsStopped
<1>1. SessionInv => StoppedIsStopped
  BY DEF SessionInv, StoppedIsStopped, StopIsComplete, CloseIsComplete, TreeOK, TypeOK,
         CloserOK, Closed
<1>2. QED
  BY <1>1, Invariance, PTL

(* No carrier of a stream handler or of the scoped client is ended twice,  *)
(* by whatever closers and deferred calls.                                 *)
THEOREM CarriersEndOnce == Spec => []SingleTerminalAction
<1>1. SessionInv => SingleTerminalAction
  <2> SUFFICES ASSUME SessionInv, NEW s \in Sessions, sess[s].kind # "ingress"
               PROVE  sess[s].acts <= 1
    BY DEF SingleTerminalAction
  <2>1. Good(sess[s])
    BY SessionsAreGood
  <2>2. ~(Closed(sess[s]) /\ Left(sess[s]))
    BY <2>1 DEF Good, PhaseOK, Closed, Left
  <2>3. QED
    BY <2>1, <2>2 DEF Good, CloserOK
<1>2. QED
  BY <1>1, Invariance, PTL

(* Only the closer of a session passes its carrier.                        *)
LEMMA OnlyCloserPasses ==
    ASSUME SessionInv, Next, NEW s \in Sessions,
           sess[s].closing = "carrier", sess'[s].closing = "target"
    PROVE  CloseCarrier(s)
<1> DEFINE v == sess[s]
<1>0. Good(v) /\ v.stopping /\ v.closing # "target"
  BY SessionsAreGood DEF Good, CloserOK
<1>1. sess' # sess
  BY <1>0
<1>2. PICK t \in Sessions :
        \/ PipeStops(t) \/ Open(t) \/ Goroutine(t) \/ Closer(t)
        \/ Eof(t) \/ ToTargetFails(t) \/ ToCarrierFails(t)
        \/ Expire(t) \/ TimerFires(t)
  BY <1>1 DEF Next, Cancel, NodeClose, Shutdown, PipeClose, PipeStopped, PipeClosed, NodeClosed
<1>3. PICK w : Becomes(t, w)
  BY <1>2 DEF PipeStops, Open, Goroutine, Closer, Eof, ToTargetFails, ToCarrierFails, Expire,
     TimerFires, Answer, NewSession, SetActiveCarrier, TransferTimer, AdmitWork, StartPump,
     StoreClean, FinishWork, Stop, StopReturns, Leave, CloseCarrier, CloseTarget, WorkDone
<1>4. t = s
  BY <1>0, <1>3 DEF Becomes, SessionInv, TypeOK
<1>5. BeginStop(v) = v
  BY <1>0 DEF BeginStop
<1>6. \A x : Becomes(s, x) => x.closing = "target"
  BY DEF Becomes, SessionInv, TypeOK
<1>7. ~PipeStops(s)
  BY <1>0, <1>5, <1>6 DEF PipeStops
<1>8. ~Open(s) /\ ~Answer(s) /\ ~NewSession(s) /\ ~SetActiveCarrier(s) /\ ~TransferTimer(s)
  <2>1. ~Open(s)
    <3> DEFINE w1 == [v EXCEPT !.pc = "opening", !.timer = "target"]
               w2 == Goes(v, "new")
    <3>1. w1.closing = "carrier" /\ w2.closing = "carrier"
      BY <1>0 DEF Good, Session, Goes
    <3>2. Open(s) => Becomes(s, w1) \/ Becomes(s, w2)
      BY DEF Open
    <3> HIDE DEF w1, w2
    <3>3. QED
      BY <1>6, <3>1, <3>2
  <2>2. ~Answer(s)
    BY <1>0, <1>6 DEF Answer, Goes, Good, Session
  <2>3. ~NewSession(s)
    <3> DEFINE w1 == Goes(v, "leave")
               w2 == [v EXCEPT !.pc = "set", !.registered = TRUE]
    <3>1. w1.closing = "carrier" /\ w2.closing = "carrier"
      BY <1>0 DEF Good, Session, Goes
    <3>2. NewSession(s) => Becomes(s, w1) \/ Becomes(s, w2)
      BY DEF NewSession
    <3> HIDE DEF w1, w2
    <3>3. QED
      BY <1>6, <3>1, <3>2
  <2>4. ~SetActiveCarrier(s)
    <3> DEFINE w1 == [v EXCEPT !.owned = TRUE, !.pc = IF s \in Servers THEN "transfer" ELSE "admit"]
               w2 == Goes(v, "leave")
    <3>1. w1.closing = "carrier" /\ w2.closing = "carrier"
      BY <1>0 DEF Good, Session, Goes
    <3>2. SetActiveCarrier(s) => Becomes(s, w1) \/ Becomes(s, w2)
      BY DEF SetActiveCarrier
    <3> HIDE DEF w1, w2
    <3>3. QED
      BY <1>6, <3>1, <3>2
  <2>5. ~TransferTimer(s)
    <3> DEFINE w1 == [v EXCEPT !.pc = "admit", !.timer = "stop"]
    <3>1. w1.closing = "carrier"
      BY <1>0 DEF Good, Session
    <3>2. TransferTimer(s) => Becomes(s, w1)
      BY DEF TransferTimer
    <3> HIDE DEF w1
    <3>3. QED
      BY <1>6, <3>1, <3>2
  <2>6. QED
    BY <2>1, <2>2, <2>3, <2>4, <2>5
<1>9. ~AdmitWork(s) /\ ~StartPump(s) /\ ~StoreClean(s) /\ ~FinishWork(s)
  <2>1. ~AdmitWork(s)
    <3> DEFINE w1 == [v EXCEPT !.pc = "pump", !.work = @ + 1]
               w2 == Goes(v, "leave")
    <3>1. w1.closing = "carrier" /\ w2.closing = "carrier"
      BY <1>0 DEF Good, Session, Goes
    <3>2. AdmitWork(s) => Becomes(s, w1) \/ Becomes(s, w2)
      BY DEF AdmitWork
    <3> HIDE DEF w1, w2
    <3>3. QED
      BY <1>6, <3>1, <3>2
  <2>2. ~StartPump(s)
    BY <1>0, <1>6 DEF StartPump, Goes, Good, Session
  <2>3. ~StoreClean(s)
    <3> DEFINE w1 == [v EXCEPT !.pc = "finish", !.clean = TRUE]
               w2 == [v EXCEPT !.pc = "finish", !.toTarget = "error", !.toCarrier = "error"]
    <3>1. w1.closing = "carrier" /\ w2.closing = "carrier"
      BY <1>0 DEF Good, Session
    <3>2. StoreClean(s) => Becomes(s, w1) \/ Becomes(s, w2)
      BY DEF StoreClean
    <3> HIDE DEF w1, w2
    <3>3. QED
      BY <1>6, <3>1, <3>2
  <2>4. ~FinishWork(s)
    <3> DEFINE w1 == [v EXCEPT !.pc = "stop", !.work = @ - 1]
    <3>1. w1.closing = "carrier"
      BY <1>0 DEF Good, Session
    <3>2. FinishWork(s) => Becomes(s, w1)
      BY DEF FinishWork
    <3> HIDE DEF w1
    <3>3. QED
      BY <1>6, <3>1, <3>2
  <2>5. QED
    BY <2>1, <2>2, <2>3, <2>4
<1>10. ~Stop(s) /\ ~StopReturns(s)
  BY <1>0, <1>5, <1>6 DEF Stop, StopReturns, Goes, Good, Session
<1>11. ~Leave(s)
  <2> DEFINE t1 == v.target /\ s \in Servers /\ v.owned
             u == [v EXCEPT !.pc = "end", !.timer = "off", !.target = t1]
  <2>1. u.closing = "carrier" /\ \A how : Ends(u, how).closing = "carrier"
    BY <1>0 DEF Ends, Good, Session
  <2>2. Leave(s) => Becomes(s, CASE u.kind = "server" /\ ~u.registered -> Ends(u, "reset")
                                 [] u.kind = "client" /\ ~u.owned -> Ends(u, "closed")
                                 [] u.kind = "ingress" -> Ends(u, "closed")
                                 [] OTHER -> u)
    BY DEF Leave
  <2> HIDE DEF u
  <2>3. QED
    BY <1>6, <2>1, <2>2
<1>12. ~Eof(s) /\ ~ToTargetFails(s) /\ ~ToCarrierFails(s) /\ ~Expire(s) /\ ~TimerFires(s)
  <2>1. ~Eof(s)
    BY <1>0, <1>5, <1>6 DEF Eof, Good, Session
  <2>2. ~ToTargetFails(s)
    BY <1>0, <1>5, <1>6 DEF ToTargetFails, Good, Session
  <2>3. ~ToCarrierFails(s)
    BY <1>0, <1>5, <1>6 DEF ToCarrierFails, Good, Session
  <2>4. ~Expire(s)
    BY <1>0, <1>5, <1>6 DEF Expire, Good, Session
  <2>5. ~TimerFires(s)
    <3> DEFINE w1 == [v EXCEPT !.timer = "off", !.target = FALSE]
               w2 == [v EXCEPT !.timer = "off"]
    <3>1. w1.closing = "carrier" /\ w2.closing = "carrier"
      BY <1>0 DEF Good, Session
    <3>2. TimerFires(s) => Becomes(s, w1) \/ Becomes(s, w2)
      BY <1>5 DEF TimerFires
    <3> HIDE DEF w1, w2
    <3>3. QED
      BY <1>6, <3>1, <3>2
  <2>6. QED
    BY <2>1, <2>2, <2>3, <2>4, <2>5
<1>13. ~CloseTarget(s) /\ ~WorkDone(s)
  BY DEF CloseTarget, WorkDone
<1>14. QED
  BY <1>2, <1>4, <1>7, <1>8, <1>9, <1>10, <1>11, <1>12, <1>13 DEF Goroutine, Closer

(* A session closes its carrier gracefully only after EOF in both          *)
(* directions: completedCleanly is never stored early, and nothing else    *)
(* lets the closer pass the carrier.                                       *)
THEOREM GracefulIsClean == Spec => GracefulOnlyIfClean
<1> DEFINE Graceful ==
      \A s \in Sessions :
         sess[s].closing = "carrier" /\ sess[s].carrier = "live"
           /\ sess'[s].carrier = "closed" /\ sess'[s].closing = "target"
             => sess[s].toTarget = "eof" /\ sess[s].toCarrier = "eof"
<1>1. SessionInv /\ [Next]_vars => [Graceful]_vars
  <2> SUFFICES ASSUME SessionInv, Next, NEW s \in Sessions,
                      sess[s].closing = "carrier", sess[s].carrier = "live",
                      sess'[s].carrier = "closed", sess'[s].closing = "target"
               PROVE  sess[s].toTarget = "eof" /\ sess[s].toCarrier = "eof"
    OBVIOUS
  <2> DEFINE v == sess[s]
             u == [v EXCEPT !.closing = "target"]
  <2>1. CloseCarrier(s)
    BY OnlyCloserPasses
  <2>2. Good(v)
    BY SessionsAreGood
  <2>3. u \in Session /\ u.carrier = "live" /\ u.clean = v.clean
    BY <2>2 DEF Good, Session
  <2>4. sess'[s] = IF ~u.owned THEN u ELSE Ends(u, IF u.clean THEN "closed" ELSE "reset")
    BY <2>1 DEF CloseCarrier, Becomes, SessionInv, TypeOK
  <2> HIDE DEF u
  <2>5. \A how : Ends(u, how).carrier = how
    BY <2>3 DEF Ends, Session
  <2>6. v.clean
    BY <2>3, <2>4, <2>5
  <2>7. QED
    BY <2>2, <2>6 DEF Good, CloserOK
<1>2. QED
  BY <1>1, Invariance, PTL DEF Spec, GracefulOnlyIfClean

-----------------------------------------------------------------------------
(* What keeps a session from waiting in vain: whoever awaits a stop, the   *)
(* goroutine or PipeRuntime.Close, awaits one that has begun, and on the   *)
(* server a timer is armed all the way, except that the one of the target  *)
(* may have fired before the hand-over.                                    *)
Watched(s, v) ==
    /\ v.pc = "await" => v.stopping
    /\ s \in Servers /\ v.pc \in Pumping \cup {"admit", "stop"} =>
          v.timer = "stop" \/ v.stopping

WatchInv ==
    /\ SessionInv
    /\ \A s \in Sessions : Watched(s, sess[s])
    /\ current # None => sess[current].stopping

(* A step of session s from v to w: a stop that has begun is not undone.   *)
Advances(s, v, w) == Watched(s, w) /\ (v.stopping => w.stopping)

LEMMA SessionAdvances ==
    ASSUME WatchInv, SessionInv', NEW s \in Sessions, NEW w, Becomes(s, w),
           Advances(s, sess[s], w), current' # None => current' = current \/ current' = s,
           current' = s /\ current' # current => w.stopping
    PROVE  WatchInv'
<1>1. \A t \in Sessions : sess'[t] = IF t = s THEN w ELSE sess[t]
  BY DEF WatchInv, SessionInv, TypeOK, Becomes
<1>2. \A t \in Sessions : Watched(t, sess'[t])
  BY <1>1 DEF WatchInv, Advances
<1>3. current' # None => sess'[current'].stopping
  BY <1>1, SessionAssumption DEF WatchInv, SessionInv, TypeOK, Advances
<1>4. QED
  BY <1>2, <1>3 DEF WatchInv, Watched

(* A step that leaves the fields alone that Watched speaks of, or goes to  *)
(* a place it does not speak of.                                           *)
LEMMA PlainAdvances ==
    ASSUME NEW s, NEW v, Watched(s, v), NEW w, w.stopping = v.stopping,
           \/ w.pc \in {"opening", "new", "set", "transfer", "leave", "end"}
           \/ w.pc = v.pc /\ w.timer = v.timer
           \/ /\ w.pc \in Pumping \cup {"stop"} /\ v.pc \in Pumping \cup {"admit"}
              /\ w.timer = v.timer
    PROVE  Advances(s, v, w)
BY DEF Advances, Watched, Pumping

(* A stop that has begun satisfies Watched wherever the goroutine is.      *)
LEMMA StoppingAdvances ==
    ASSUME NEW s, NEW v, NEW w, w.stopping
    PROVE  Advances(s, v, w)
BY DEF Advances, Watched

LEMMA BeginStopFields ==
    ASSUME NEW v \in Session
    PROVE  BeginStop(v) \in Session /\ BeginStop(v).stopping
<1> DEFINE w == [v EXCEPT !.stopping = TRUE, !.closing = "carrier"]
<1>1. w \in Session /\ w.stopping
  BY DEF Session
<1>2. QED
  BY <1>1 DEF BeginStop

LEMMA GoroutineAdvances ==
    ASSUME SessionInv, NEW s \in Sessions, Watched(s, sess[s]), Open(s) \/ Goroutine(s)
    PROVE  \E w : Becomes(s, w) /\ Advances(s, sess[s], w)
<1> DEFINE v == sess[s]
<1>0. Good(v) /\ v \in Session /\ Watched(s, v)
  BY SessionsAreGood DEF Good
<1>1. CASE Open(s)
  <2> DEFINE w1 == [v EXCEPT !.pc = "opening", !.timer = "target"]
             w2 == Goes(v, "new")
  <2>1. /\ w1.stopping = v.stopping /\ w1.pc = "opening"
        /\ w2.stopping = v.stopping /\ w2.pc = "new"
    BY <1>0 DEF Goes, Session
  <2>2. Becomes(s, w1) \/ Becomes(s, w2)
    BY <1>1 DEF Open
  <2> HIDE DEF w1, w2
  <2>3. QED
    BY <1>0, <2>1, <2>2, PlainAdvances
<1>2. CASE Answer(s)
  <2> DEFINE w1 == Goes(v, "new")
             w2 == Goes(v, "leave")
  <2>1. /\ w1.stopping = v.stopping /\ w1.pc = "new"
        /\ w2.stopping = v.stopping /\ w2.pc = "leave"
    BY <1>0 DEF Goes, Session
  <2>2. Becomes(s, w1) \/ Becomes(s, w2)
    BY <1>2 DEF Answer
  <2> HIDE DEF w1, w2
  <2>3. QED
    BY <1>0, <2>1, <2>2, PlainAdvances
<1>3. CASE NewSession(s)
  <2> DEFINE w1 == Goes(v, "leave")
             w2 == [v EXCEPT !.pc = "set", !.registered = TRUE]
  <2>1. /\ w1.stopping = v.stopping /\ w1.pc = "leave"
        /\ w2.stopping = v.stopping /\ w2.pc = "set"
    BY <1>0 DEF Goes, Session
  <2>2. Becomes(s, w1) \/ Becomes(s, w2)
    BY <1>3 DEF NewSession
  <2> HIDE DEF w1, w2
  <2>3. QED
    BY <1>0, <2>1, <2>2, PlainAdvances
<1>4. CASE SetActiveCarrier(s)
  <2> DEFINE w1 == [v EXCEPT !.owned = TRUE, !.pc = IF s \in Servers THEN "transfer" ELSE "admit"]
             w2 == Goes(v, "leave")
  <2>1. /\ w1.stopping = v.stopping /\ w1.pc = IF s \in Servers THEN "transfer" ELSE "admit"
        /\ w2.stopping = v.stopping /\ w2.pc = "leave"
    BY <1>0 DEF Goes, Session
  <2>2. Becomes(s, w1) \/ Becomes(s, w2)
    BY <1>4 DEF SetActiveCarrier
  <2> HIDE DEF w1, w2
  <2>3. Advances(s, v, w1)
    BY <2>1 DEF Advances, Watched, Pumping
  <2>4. QED
    BY <1>0, <2>1, <2>2, <2>3, PlainAdvances
<1>5. CASE TransferTimer(s)
  <2> DEFINE w1 == [v EXCEPT !.pc = "admit", !.timer = "stop"]
  <2>1. w1.stopping = v.stopping /\ w1.pc = "admit" /\ w1.timer = "stop"
    BY <1>0 DEF Session
  <2>2. Becomes(s, w1)
    BY <1>5 DEF TransferTimer
  <2> HIDE DEF w1
  <2>3. QED
    BY <2>1, <2>2 DEF Advances, Watched
<1>6. CASE AdmitWork(s)
  <2> DEFINE w1 == [v EXCEPT !.pc = "pump", !.work = @ + 1]
             w2 == Goes(v, "leave")
  <2>1. /\ w1.stopping = v.stopping /\ w1.pc = "pump" /\ w1.timer = v.timer
        /\ w2.stopping = v.stopping /\ w2.pc = "leave" /\ v.pc = "admit"
    BY <1>0, <1>6 DEF Goes, Session, AdmitWork
  <2>2. Becomes(s, w1) \/ Becomes(s, w2)
    BY <1>6 DEF AdmitWork
  <2> HIDE DEF w1, w2
  <2>3. QED
    BY <1>0, <2>1, <2>2, PlainAdvances DEF Pumping
<1>7. CASE StartPump(s)
  <2> DEFINE w1 == Goes(v, "finish")
             w2 == Goes(v, "copy")
  <2>1. /\ w1.stopping = v.stopping /\ w1.pc = "finish" /\ w1.timer = v.timer
        /\ w2.stopping = v.stopping /\ w2.pc = "copy" /\ w2.timer = v.timer
        /\ v.pc = "pump"
    BY <1>0, <1>7 DEF Goes, Session, StartPump
  <2>2. Becomes(s, w1) \/ Becomes(s, w2)
    BY <1>7 DEF StartPump
  <2> HIDE DEF w1, w2
  <2>3. QED
    BY <1>0, <2>1, <2>2, PlainAdvances DEF Pumping
<1>8. CASE StoreClean(s)
  <2> DEFINE w1 == [v EXCEPT !.pc = "finish", !.clean = TRUE]
             w2 == [v EXCEPT !.pc = "finish", !.toTarget = "error", !.toCarrier = "error"]
  <2>1. /\ w1.stopping = v.stopping /\ w1.pc = "finish" /\ w1.timer = v.timer
        /\ w2.stopping = v.stopping /\ w2.pc = "finish" /\ w2.timer = v.timer
        /\ v.pc = "copy"
    BY <1>0, <1>8 DEF Session, StoreClean, PumpEnded
  <2>2. Becomes(s, w1) \/ Becomes(s, w2)
    BY <1>8 DEF StoreClean
  <2> HIDE DEF w1, w2
  <2>3. QED
    BY <1>0, <2>1, <2>2, PlainAdvances DEF Pumping
<1>9. CASE FinishWork(s)
  <2> DEFINE w1 == [v EXCEPT !.pc = "stop", !.work = @ - 1]
  <2>1. w1.stopping = v.stopping /\ w1.pc = "stop" /\ w1.timer = v.timer /\ v.pc = "finish"
    BY <1>0, <1>9 DEF Session, FinishWork
  <2>2. Becomes(s, w1)
    BY <1>9 DEF FinishWork
  <2> HIDE DEF w1
  <2>3. QED
    BY <1>0, <2>1, <2>2, PlainAdvances DEF Pumping
<1>10. CASE Stop(s)
  <2> DEFINE w1 == Goes(BeginStop(v), "await")
  <2>1. w1.stopping
    BY <1>0, BeginStopFields DEF Goes, Session
  <2>2. Becomes(s, w1)
    BY <1>10 DEF Stop
  <2> HIDE DEF w1
  <2>3. QED
    BY <2>1, <2>2, StoppingAdvances
<1>11. CASE StopReturns(s)
  <2> DEFINE w1 == Goes(v, "leave")
  <2>1. w1.stopping = v.stopping /\ w1.pc = "leave"
    BY <1>0 DEF Goes, Session
  <2>2. Becomes(s, w1)
    BY <1>11 DEF StopReturns
  <2> HIDE DEF w1
  <2>3. QED
    BY <1>0, <2>1, <2>2, PlainAdvances
<1>12. CASE Leave(s)
  <2> DEFINE t1 == v.target /\ s \in Servers /\ v.owned
             u == [v EXCEPT !.pc = "end", !.timer = "off", !.target = t1]
  <2>1. /\ u.pc = "end" /\ u.stopping = v.stopping
        /\ \A how : Ends(u, how).pc = "end" /\ Ends(u, how).stopping = v.stopping
    BY <1>0 DEF Ends, Session
  <2>2. Becomes(s, CASE u.kind = "server" /\ ~u.registered -> Ends(u, "reset")
                     [] u.kind = "client" /\ ~u.owned -> Ends(u, "closed")
                     [] u.kind = "ingress" -> Ends(u, "closed")
                     [] OTHER -> u)
    BY <1>12 DEF Leave
  <2> HIDE DEF u
  <2>3. Becomes(s, u) \/ \E how : Becomes(s, Ends(u, how))
    BY <2>2
  <2>4. QED
    BY <1>0, <2>1, <2>3, PlainAdvances
<1>13. QED
  BY <1>1, <1>2, <1>3, <1>4, <1>5, <1>6, <1>7, <1>8, <1>9, <1>10, <1>11, <1>12 DEF Goroutine

LEMMA EventsAdvance ==
    ASSUME SessionInv, NEW s \in Sessions, Watched(s, sess[s]),
           \/ Eof(s) \/ ToTargetFails(s) \/ ToCarrierFails(s) \/ Expire(s) \/ TimerFires(s)
           \/ Closer(s)
    PROVE  \E w : Becomes(s, w) /\ Advances(s, sess[s], w)
<1> DEFINE v == sess[s]
           b == BeginStop(v)
<1>0. Good(v) /\ v \in Session /\ Watched(s, v)
  BY SessionsAreGood DEF Good
<1>1. b \in Session /\ b.stopping
  BY <1>0, BeginStopFields
<1>2. CASE Eof(s)
  <2> DEFINE w1 == [v EXCEPT !.toTarget = "eof"]
             w2 == [v EXCEPT !.toCarrier = "eof"]
  <2>1. /\ w1.stopping = v.stopping /\ w1.pc = v.pc /\ w1.timer = v.timer
        /\ w2.stopping = v.stopping /\ w2.pc = v.pc /\ w2.timer = v.timer
    BY <1>0 DEF Session
  <2>2. Becomes(s, w1) \/ Becomes(s, w2)
    BY <1>2 DEF Eof
  <2> HIDE DEF w1, w2
  <2>3. QED
    BY <1>0, <2>1, <2>2, PlainAdvances
<1>3. CASE ToTargetFails(s) \/ ToCarrierFails(s) \/ (TimerFires(s) /\ v.timer = "stop")
  <2> DEFINE w1 == [b EXCEPT !.toTarget = "error"]
             w2 == [b EXCEPT !.toCarrier = "error"]
             w3 == [b EXCEPT !.timer = "off"]
  <2>1. Becomes(s, w1) \/ Becomes(s, w2) \/ Becomes(s, w3)
    BY <1>3 DEF ToTargetFails, ToCarrierFails, TimerFires
  <2> HIDE DEF b
  <2>2. w1.stopping /\ w2.stopping /\ w3.stopping
    BY <1>1 DEF Session
  <2> HIDE DEF w1, w2, w3
  <2>3. QED
    BY <2>1, <2>2, StoppingAdvances
<1>4. CASE Expire(s)
  <2> DEFINE w1 == [v EXCEPT !.expired = TRUE]
  <2>1. w1.stopping = v.stopping /\ w1.pc = v.pc /\ w1.timer = v.timer
    BY <1>0 DEF Session
  <2>2. Becomes(s, w1)
    BY <1>4 DEF Expire
  <2> HIDE DEF w1
  <2>3. QED
    BY <1>0, <2>1, <2>2, PlainAdvances
<1>5. CASE TimerFires(s) /\ v.timer = "target"
  <2> DEFINE w1 == [v EXCEPT !.timer = "off", !.target = FALSE]
  <2>1. w1.stopping = v.stopping /\ w1.pc = v.pc
    BY <1>0 DEF Session
  <2>2. Becomes(s, w1)
    BY <1>5 DEF TimerFires
  <2> HIDE DEF w1
  <2>3. QED
    BY <1>0, <1>5, <2>1, <2>2 DEF Advances, Watched
<1>6. CASE Closer(s)
  <2> DEFINE u == [v EXCEPT !.closing = "target"]
             w1 == [v EXCEPT !.closing = "work", !.target = FALSE]
             w2 == [v EXCEPT !.closing = "done"]
  <2>1. v.stopping
    BY <1>0, <1>6 DEF Closer, CloseCarrier, CloseTarget, WorkDone, Good, CloserOK
  <2>2. /\ u.stopping /\ w1.stopping /\ w2.stopping
        /\ \A how : Ends(u, how).stopping
    BY <1>0, <2>1 DEF Session, Ends
  <2>3. CloseCarrier(s) => Becomes(s, IF ~u.owned THEN u
                                      ELSE Ends(u, IF u.clean THEN "closed" ELSE "reset"))
    BY DEF CloseCarrier
  <2>4. (CloseTarget(s) => Becomes(s, w1)) /\ (WorkDone(s) => Becomes(s, w2))
    BY DEF CloseTarget, WorkDone
  <2> HIDE DEF u, w1, w2
  <2>5. \E w : Becomes(s, w) /\ w.stopping
    BY <1>6, <2>2, <2>3, <2>4 DEF Closer
  <2>6. QED
    BY <2>5, StoppingAdvances
<1>7. QED
  BY <1>2, <1>3, <1>4, <1>5, <1>6 DEF TimerFires

LEMMA WatchStep == WatchInv /\ [Next]_vars => WatchInv'
<1> SUFFICES ASSUME WatchInv, [Next]_vars PROVE WatchInv'
  OBVIOUS
<1>0. SessionInv /\ SessionInv' /\ \A s \in Sessions : Watched(s, sess[s])
  BY Step DEF WatchInv
<1>1. CASE UNCHANGED vars
  BY <1>0, <1>1 DEF vars, WatchInv, Watched
<1>2. ASSUME NEW s \in Sessions,
             \/ Open(s) \/ Goroutine(s) \/ Closer(s)
             \/ Eof(s) \/ ToTargetFails(s) \/ ToCarrierFails(s)
             \/ Expire(s) \/ TimerFires(s)
      PROVE  WatchInv'
  <2>1. PICK w : Becomes(s, w) /\ Advances(s, sess[s], w)
    BY <1>0, <1>2, GoroutineAdvances, EventsAdvance
  <2>2. current' = current
    BY <1>2 DEF Open, Goroutine, Closer, Eof, ToTargetFails, ToCarrierFails, Expire,
       TimerFires, Answer, NewSession, SetActiveCarrier, TransferTimer, AdmitWork, StartPump,
       StoreClean, FinishWork, Stop, StopReturns, Leave, CloseCarrier, CloseTarget, WorkDone,
       tree
  <2>3. QED
    BY <1>0, <2>1, <2>2, SessionAdvances
<1>3. ASSUME NEW s \in Sessions, PipeStops(s) PROVE WatchInv'
  <2> DEFINE w == BeginStop(sess[s])
  <2>1. w.stopping
    BY <1>0, SessionsAreGood, BeginStopFields DEF Good
  <2>2. Becomes(s, w) /\ current' = s
    BY <1>3 DEF PipeStops
  <2> HIDE DEF w
  <2>3. Advances(s, sess[s], w)
    BY <2>1, StoppingAdvances
  <2>4. QED
    BY <1>0, <2>1, <2>2, <2>3, SessionAdvances
<1>4. CASE Cancel \/ NodeClose \/ PipeClose \/ PipeStopped \/ PipeClosed \/ NodeClosed
  <2>1. sess' = sess /\ (current' = current \/ current' = None)
    BY <1>4 DEF Cancel, NodeClose, PipeClose, PipeStopped, PipeClosed, NodeClosed
  <2>2. QED
    BY <1>0, <2>1 DEF WatchInv, Watched
<1>5. QED
  BY <1>1, <1>2, <1>3, <1>4 DEF Next, Shutdown

LEMMA WatchInvariance == Spec => []WatchInv
<1>1. Init => WatchInv
  <2> SUFFICES ASSUME Init PROVE WatchInv
    OBVIOUS
  <2>1. \A s \in Sessions : sess[s].pc = "idle"
    BY DEF Init, Newborn
  <2>2. QED
    BY <2>1, Starts DEF Init, WatchInv, Watched, Pumping
<1>2. QED
  BY <1>1, WatchStep, PTL DEF Spec

(* A stop can go on without waiting for anybody: by its closer, or by the  *)
(* pump the closer waits for, whose remaining copies have a closed end.    *)
StopGoesOn(v) ==
    \/ v.closing \in {"carrier", "target"}
    \/ v.closing = "work" /\ v.work = 0
    \/ v.pc \in {"pump", "finish"}
    \/ PumpEnded(v)
    \/ v.pc = "copy" /\ v.toTarget = "run" /\ v.carrier # "live"
    \/ v.pc = "copy" /\ v.toCarrier = "run" /\ ~v.target

(* The same for NodeRuntime.Close: it can go on, or the session it has     *)
(* stopped and waits for can.                                              *)
CloseGoesOn ==
    \/ pipe # "closing" \/ toStop = {} \/ current = None
    \/ sess[current].closing = "done" \/ StopGoesOn(sess[current])

(* Nobody who waits for the end of a session waits in a circle.            *)
NoCircularWait ==
    /\ \A s \in Sessions :
          sess[s].pc = "await" \/ sess[s].stopping =>
            sess[s].closing = "done" \/ StopGoesOn(sess[s])
    /\ CloseGoesOn

(* No deadlock among the goroutine, the closer, the pumps and              *)
(* NodeRuntime.Close, for any number of sessions: whenever one of them     *)
(* waits for a stop (stopDone, workDone, the end of a copy), a step that   *)
(* waits for nobody is possible and leads on to it.  This is what          *)
(* StopsReturn needs besides fairness.                                     *)
THEOREM WaitsEnd == Spec => []NoCircularWait
<1>1. WatchInv => NoCircularWait
  <2> SUFFICES ASSUME WatchInv PROVE NoCircularWait
    OBVIOUS
  <2>1. ASSUME NEW s \in Sessions, sess[s].stopping
        PROVE  sess[s].closing = "done" \/ StopGoesOn(sess[s])
    <3> DEFINE v == sess[s]
    <3>1. Good(v) /\ v.closing \in {"carrier", "target", "work", "done"}
      BY <2>1, SessionsAreGood DEF WatchInv, Good, CloserOK, Session
    <3> HIDE DEF v
    <3>2. CASE v.closing = "work" /\ v.pc \in Pumping
      <4>1. ~v.target /\ v.carrier # "live"
        BY <3>1, <3>2 DEF Good, PhaseOK, CloserOK, Closed
      <4>2. QED
        BY <3>2, <4>1 DEF StopGoesOn, PumpEnded, Pumping, v
    <3>3. CASE v.closing = "work" /\ v.pc \notin Pumping
      BY <3>1, <3>3 DEF Good, PhaseOK, StopGoesOn, v
    <3>4. QED
      BY <3>1, <3>2, <3>3 DEF StopGoesOn, v
  <2>2. CloseGoesOn
    BY <2>1 DEF WatchInv, SessionInv, TypeOK, CloseGoesOn
  <2>3. QED
    BY <2>1, <2>2 DEF NoCircularWait, WatchInv, Watched
<1>2. QED
  BY <1>1, WatchInvariance, PTL

(* No server pumps data for a session that nothing will end at the expiry  *)
(* of its lease.                                                           *)
PumpsAreTimed ==
    \A s \in Servers : sess[s].pc \in Pumping => sess[s].timer = "stop" \/ sess[s].stopping

(* Wherever expiry falls in the hand-over from the raw timer, which closes *)
(* the target, to Session.Stop (transferSessionAuthorizationTimer), it is  *)
(* noticed: while a server's session carries data its timer is armed, or   *)
(* its stop has begun.                                                     *)
THEOREM ExpiryIsNoticed == Spec => []PumpsAreTimed
<1>1. WatchInv => PumpsAreTimed
  BY DEF WatchInv, Watched, PumpsAreTimed, Sessions
<1>2. QED
  BY <1>1, WatchInvariance, PTL

=============================================================================
