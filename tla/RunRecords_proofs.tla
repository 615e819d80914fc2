-------------------------- MODULE RunRecords_proofs ---------------------------
(***************************************************************************)
(* TLAPS proofs about RunRecords, for any number of processes and          *)
(* commands.  The invariant has two halves.  Sound holds whatever happens: *)
(* a record names a process only if that process has been ready, and a     *)
(* command reports on its child what is true of it.  Exclusive holds       *)
(* until an interleaving that history records: one command is at work, at  *)
(* most one process holds the record, and the registry or launchd knows    *)
(* that holder.                                                            *)
(***************************************************************************)
EXTENDS RunRecords, TLAPS

(* The types of the processes and of the commands.                         *)
Proc == [pc: {"unused", "boot", "open", "bound", "ready", "serving", "closing", "cleanup",
              "cleanupDelete", "dead"},
         source: {"none", "foreground", "detached", "launchd"}, intr: BOOLEAN,
         status: {"ready", "degraded"}, rec: {"idle", "ready", "degraded"},
         copy: Run \cup {NoRow}, served: BOOLEAN]

Stages == {"idle", "definition", "supervisor", "read", "check", "delete", "reserve", "spawn",
           "poll", "rollback", "restarted", "stopRead", "stopCheck", "signal", "wait",
           "undefine", "unit", "register", "waitReady", "undo", "bootout", "removeUnit",
           "done", "failed"}

Cmd == [op: Ops \cup {"none"}, pc: Stages, seen: Run \cup {NoRow}, child: 0..MaxProcs,
        killed: BOOLEAN]

Launchd == [file: BOOLEAN, loaded: BOOLEAN, sup: BOOLEAN]
History == [overlap: BOOLEAN, booting: BOOLEAN, passed: BOOLEAN, orphan: BOOLEAN]

Types ==
    /\ row \in Run \cup {NoRow}
    /\ defined \in BOOLEAN
    /\ launchd \in Launchd
    /\ proc \in [Procs -> Proc]
    /\ cmd \in [Commands -> Cmd]
    /\ history \in History

(* A record, or the copy of one, that names a process names one that has   *)
(* been ready; only a reservation says "starting".                         *)
RunOK(run, procs) ==
    run # NoRow /\ run.owner # 0 => run.status # "starting" /\ procs[run.owner].served

(* Where a process is agrees with what it has done.                        *)
Phase(v) ==
    /\ v.pc \in {"unused", "boot", "open", "bound"} => ~v.served
    /\ v.pc \in {"ready", "serving", "closing"} => v.served
    /\ v.pc \in {"cleanup", "cleanupDelete"} => v.source = "foreground"
    /\ v.rec # "idle" => v.pc \in {"ready", "serving", "closing"} /\ v.copy # NoRow

(* A command has a child only once it has spawned it, and reports on it as *)
(* DetachedStartIsHonest says.                                             *)
ChildOK(k, procs) ==
    /\ k.pc = "poll" => k.child # 0
    /\ k.child # 0 =>
         /\ k.op \in {"start", "foreground"}
         /\ k.pc \in {"poll", "done", "rollback", "failed"}
         /\ k.op = "start" /\ ~k.killed =>
              /\ k.pc = "done" => procs[k.child].served
              /\ k.pc \in {"rollback", "failed"} => procs[k.child].pc = "dead"

(* The first half of the invariant holds whatever commands overlap.        *)
Sound ==
    /\ Types
    /\ RunOK(row, proc)
    /\ \A p \in Procs : Phase(proc[p]) /\ RunOK(proc[p].copy, proc)
    /\ \A c \in Commands : ChildOK(cmd[c], proc)

-----------------------------------------------------------------------------
(* A process holds the record if it may still write or delete it.          *)
Holding(v) ==
    /\ v.pc \notin {"unused", "dead"}
    /\ \/ v.served
       \/ v.pc \in {"boot", "open", "bound", "cleanup"} /\ ~v.intr
       \/ v.pc = "cleanupDelete"

Holders == {p \in Procs : Holding(proc[p])}

(* What the registry and launchd know of the holder p: its record, before  *)
(* it is ready the reservation made for it, or that launchd has it.        *)
Known(p, v, run, loaded) ==
    IF v.served THEN run # NoRow /\ run.owner = p
    ELSE IF v.source = "launchd" THEN loaded
    ELSE run = [status |-> "starting", owner |-> 0]

(* The record a command has read is that of the holder, or is a            *)
(* reservation.                                                            *)
InSight(run, p) == run # NoRow /\ (run.owner = p \/ run.status = "starting")

(* What a command relies on at each stage if it runs alone.                *)
Orderly(k, run, loaded, holders) ==
    /\ k.pc \in {"check", "delete", "reserve", "spawn", "poll", "rollback", "unit", "wait",
                 "stopRead", "stopCheck", "signal"} => ~loaded
    /\ k.pc = "read" /\ k.op # "stale" => ~loaded
    /\ k.pc \in {"check", "stopCheck", "signal", "wait", "delete"} =>
         \A p \in holders : InSight(k.seen, p)
    /\ k.pc = "supervisor" /\ k.op = "stale" =>
         \A p \in holders : InSight(k.seen, p) \/ loaded
    /\ k.pc = "delete" /\ k.op \notin Starts =>
         \A p \in holders : k.seen.status = "starting"
    /\ k.pc \in {"spawn", "rollback", "unit"} => holders = {}
    /\ k.pc = "spawn" => run = [status |-> "starting", owner |-> 0]
    /\ k.pc = "poll" => holders \subseteq {k.child}
    /\ k.pc = "definition" => k.op # "stale"
    /\ k.pc \in {"register", "undo"} => k.op = "install"

Working(k) == k.pc \notin {"idle", "done", "failed"}

(* The second half: as long as nothing out of order has happened.          *)
Alone == \A c, d \in Commands : Working(cmd[c]) /\ Working(cmd[d]) => c = d

OneHolder ==
    /\ \A p, q \in Holders : p = q
    /\ \A p \in Holders : Known(p, proc[p], row, launchd.loaded)
    /\ \A p \in Holders : launchd.loaded => proc[p].source = "launchd"
    /\ \A p \in Procs : proc[p].rec # "idle" => proc[p].copy.owner = p

Supervised ==
    launchd.loaded => launchd.sup \/ \E c \in Commands : cmd[c].pc \in {"register", "undo"}

Exclusive ==
    /\ Alone
    /\ OneHolder
    /\ Supervised
    /\ \A c \in Commands : Orderly(cmd[c], row, launchd.loaded, Holders)

RunInv == Sound /\ (history = InitHistory => Exclusive)

-----------------------------------------------------------------------------
(* The empty registry satisfies the invariant.                             *)
LEMMA RunStarts == Init => RunInv
<1> SUFFICES ASSUME Init PROVE RunInv
  OBVIOUS
<1>1. NewProc \in Proc /\ Idle \in Cmd /\ InitHistory \in History
  BY RunRecordsAssumption DEF NewProc, Idle, InitHistory, Proc, Cmd, Stages, History
<1>2. Types
  BY Zenon, <1>1 DEF Init, Types, Launchd
<1>3. \A p \in Procs : proc[p] = NewProc
  BY Zenon DEF Init
<1>4. \A c \in Commands : cmd[c] = Idle
  BY Zenon DEF Init
<1>5. row = NoRow /\ ~launchd.loaded
  BY Zenon DEF Init
<1>6. /\ Phase(NewProc) /\ NewProc.copy = NoRow /\ ~Holding(NewProc) /\ NewProc.rec = "idle"
  BY Zenon DEF Phase, NewProc, Holding
<1>7. Idle.pc = "idle" /\ Idle.child = 0
  BY Zenon DEF Idle
<1>8. Sound
  BY Zenon, <1>2, <1>3, <1>4, <1>5, <1>6, <1>7 DEF Sound, RunOK, ChildOK
<1>9. Holders = {}
  BY Zenon, <1>3, <1>6 DEF Holders
<1>10. Exclusive
  BY Zenon, <1>3, <1>4, <1>5, <1>6, <1>7, <1>9 DEF Exclusive, Alone, OneHolder, Supervised, Orderly, Working
<1> QED
  BY Zenon, <1>8, <1>10 DEF RunInv

-----------------------------------------------------------------------------
(* A step of a live process that holds no more than before.                *)
LEMMA RuntimeMoves ==
  ASSUME RunInv, NEW p \in Procs, NEW w \in Proc,
         proc[p].pc \notin {"unused", "dead"}, w.pc # "unused",
         proc' = [proc EXCEPT ![p] = w],
         UNCHANGED <<defined, launchd, cmd, history>>,
         proc[p].served => w.served,
         Phase(w), RunOK(w.copy, proc'),
         row' \in Run \cup {NoRow}, RunOK(row', proc'),
         row' = row \/ Holding(proc[p]),
         Holding(w) => Holding(proc[p]) /\ w.source = proc[p].source,
         history = InitHistory =>
           /\ Holding(w) => Known(p, w, row', launchd.loaded)
           /\ w.rec # "idle" => w.copy.owner = p
  PROVE  RunInv'
<1>1. /\ proc \in [Procs -> Proc] /\ cmd \in [Commands -> Cmd]
      /\ \A q \in Procs : Phase(proc[q]) /\ RunOK(proc[q].copy, proc)
      /\ \A c \in Commands : ChildOK(cmd[c], proc)
  BY Zenon DEF RunInv, Sound, Types
<1>2. /\ proc' \in [Procs -> Proc] /\ proc'[p] = w
      /\ \A q \in Procs \ {p} : proc'[q] = proc[q]
  BY Zenon, <1>1
<1>3. \A q \in Procs : proc[q].served => proc'[q].served
  BY Zenon, <1>2
<1>4. \A q \in Procs : proc[q].pc = "dead" => proc'[q].pc = "dead"
  BY Zenon, <1>2
<1>5. Types'
  BY Zenon, <1>2 DEF RunInv, Sound, Types
<1>6. ASSUME NEW run \in Run \cup {NoRow}, RunOK(run, proc) PROVE RunOK(run, proc')
  <2>1. run # NoRow /\ run.owner # 0 => run.owner \in Procs
    BY RunRecordsAssumption DEF Run, Procs
  <2> QED
    BY Zenon, <1>3, <1>6, <2>1 DEF RunOK
<1>7. \A q \in Procs : Phase(proc'[q]) /\ RunOK(proc'[q].copy, proc')
  <2>1. \A q \in Procs : proc[q].copy \in Run \cup {NoRow}
    BY Zenon, <1>1 DEF Proc
  <2> QED
    BY ZenonT(60), <1>1, <1>2, <1>6, <2>1
<1>8. ASSUME NEW c \in Commands PROVE ChildOK(cmd'[c], proc')
  <2>1. cmd[c].child # 0 => cmd[c].child \in Procs
    BY <1>1, RunRecordsAssumption DEF Cmd, Stages, Procs
  <2> QED
    BY Zenon, <1>1, <1>3, <1>4, <2>1 DEF ChildOK
<1>9. Sound'
  BY ZenonT(60), <1>5, <1>7, <1>8 DEF Sound
<1>10. ASSUME Exclusive, history = InitHistory PROVE Exclusive'
  <2>1. Holders' \subseteq Holders
    BY Zenon, <1>2 DEF Holders
  <2>2. \A q \in Holders \ {p} : row' = row
    BY Zenon, <1>10 DEF Exclusive, OneHolder, Holders
  <2>3. Alone' /\ Supervised'
    BY Zenon, <1>10 DEF Exclusive, Alone, Supervised
  <2>4. ASSUME NEW q \in Holders'
        PROVE  /\ Known(q, proc'[q], row', launchd'.loaded)
               /\ launchd'.loaded => proc'[q].source = "launchd"
    <3>1. CASE q = p
      BY Zenon, <1>2, <1>10, <2>1, <3>1 DEF Exclusive, OneHolder, Holders
    <3>2. CASE q # p
      <4>1. q \in Holders /\ proc'[q] = proc[q] /\ row' = row
        BY Zenon, <1>2, <2>1, <2>2, <3>2 DEF Holders
      <4> QED
        BY Zenon, <1>10, <4>1 DEF Exclusive, OneHolder
    <3> QED
      BY Zenon, <3>1, <3>2
  <2>5. \A q \in Procs : proc'[q].rec # "idle" => proc'[q].copy.owner = q
    BY Zenon, <1>2, <1>10 DEF Exclusive, OneHolder
  <2>6. \A q, r \in Holders' : q = r
    BY Zenon, <2>1, <1>10 DEF Exclusive, OneHolder
  <2>7. OneHolder'
    BY Zenon, <2>4, <2>5, <2>6 DEF OneHolder
  <2>8. ASSUME NEW c \in Commands PROVE Orderly(cmd'[c], row', launchd'.loaded, Holders')
    <3>1. Orderly(cmd[c], row, launchd.loaded, Holders)
      BY Zenon, <1>10 DEF Exclusive
    <3>2. Holders = {} => row' = row
      BY Zenon DEF Holders
    <3> QED
      BY Zenon, <2>1, <3>1, <3>2 DEF Orderly
  <2> QED
    BY Zenon, <2>3, <2>7, <2>8 DEF Exclusive
<1> QED
  BY Zenon, <1>9, <1>10 DEF RunInv

(* A process of launchd or of a command starts: the only holder.           *)
LEMMA RuntimeStarts ==
  ASSUME RunInv, NEW p \in Procs, NEW source \in {"foreground", "detached", "launchd"},
         Spawnable(p), proc' = [proc EXCEPT ![p] = Booting(source)]
  PROVE  /\ proc' \in [Procs -> Proc]
         /\ \A q \in Procs \ {p} : proc'[q] = proc[q]
         /\ proc'[p] = Booting(source)
         /\ Phase(Booting(source)) /\ Booting(source).copy = NoRow
         /\ Booting(source).source = source /\ ~Booting(source).served
         /\ Booting(source).rec = "idle"
         /\ RunOK(row, proc')
         /\ \A q \in Procs : Phase(proc'[q]) /\ RunOK(proc'[q].copy, proc')
         /\ \A c \in Commands : ChildOK(cmd[c], proc')
         /\ Holders' \subseteq Holders \cup {p}
<1>1. /\ proc \in [Procs -> Proc] /\ cmd \in [Commands -> Cmd]
      /\ row \in Run \cup {NoRow} /\ RunOK(row, proc)
      /\ \A q \in Procs : Phase(proc[q]) /\ RunOK(proc[q].copy, proc)
      /\ \A c \in Commands : ChildOK(cmd[c], proc)
  BY Zenon DEF RunInv, Sound, Types
<1>2. Booting(source) \in Proc
  BY DEF Booting, NewProc, Proc
<1>3. /\ Phase(Booting(source)) /\ Booting(source).copy = NoRow /\ Booting(source).rec = "idle"
      /\ Booting(source).source = source /\ ~Booting(source).served
  BY Zenon DEF Booting, NewProc, Phase
<1>4. proc[p].pc = "unused" /\ ~proc[p].served
  BY Zenon, <1>1 DEF Spawnable, Phase
<1>5. /\ proc' \in [Procs -> Proc] /\ proc'[p] = Booting(source)
      /\ \A q \in Procs \ {p} : proc'[q] = proc[q]
  BY Zenon, <1>1, <1>2
<1>6. ASSUME NEW run \in Run \cup {NoRow}, RunOK(run, proc) PROVE RunOK(run, proc')
  <2>1. run # NoRow /\ run.owner # 0 => run.owner \in Procs \ {p}
    BY <1>4, <1>6, RunRecordsAssumption DEF Run, Procs, RunOK
  <2> QED
    BY Zenon, <1>5, <1>6, <2>1 DEF RunOK
<1>7. \A q \in Procs : Phase(proc'[q]) /\ RunOK(proc'[q].copy, proc')
  <2>1. \A q \in Procs : proc[q].copy \in Run \cup {NoRow}
    BY Zenon, <1>1 DEF Proc
  <2>2. RunOK(NoRow, proc')
    BY Zenon DEF RunOK
  <2> QED
    BY ZenonT(60), <1>1, <1>3, <1>5, <1>6, <2>1, <2>2
<1>8. ASSUME NEW c \in Commands PROVE ChildOK(cmd[c], proc')
  <2>1. cmd[c].child # 0 => cmd[c].child \in Procs
    BY <1>1, RunRecordsAssumption DEF Cmd, Stages, Procs
  <2> QED
    BY Zenon, <1>1, <1>4, <1>5, <2>1 DEF ChildOK
<1> QED
  BY ZenonT(60), <1>1, <1>3, <1>5, <1>6, <1>7, <1>8 DEF Holders

-----------------------------------------------------------------------------
(* The runtime's own steps.                                                *)

(* What is known of a process.                                             *)
LEMMA ProcessOK ==
  ASSUME RunInv, NEW p \in Procs
  PROVE  /\ proc[p] \in Proc /\ Phase(proc[p]) /\ RunOK(proc[p].copy, proc)
         /\ proc \in [Procs -> Proc]
         /\ row \in Run \cup {NoRow} /\ RunOK(row, proc)
         /\ history = InitHistory =>
              /\ Holding(proc[p]) => Known(p, proc[p], row, launchd.loaded)
              /\ proc[p].rec # "idle" => proc[p].copy.owner = p
BY Zenon DEF RunInv, Sound, Types, Exclusive, OneHolder, Holders

(* A record stays sound while processes only become ready.                 *)
LEMMA RecordStaysOK ==
  ASSUME RunInv, NEW p \in Procs, NEW w \in Proc, proc' = [proc EXCEPT ![p] = w],
         proc[p].served => w.served,
         NEW run \in Run \cup {NoRow}, RunOK(run, proc)
  PROVE  RunOK(run, proc')
<1>1. run # NoRow /\ run.owner # 0 => run.owner \in Procs
  BY RunRecordsAssumption DEF Run, Procs
<1>2. proc \in [Procs -> Proc]
  BY Zenon, ProcessOK
<1> QED
  BY Zenon, <1>1, <1>2 DEF RunOK

(* A process that ends, or goes on without touching the record.            *)
LEMMA RuntimeSteps ==
  ASSUME RunInv, NEW p \in Procs, NEW to \in {"open", "bound", "serving", "cleanup", "cleanupDelete",
                                              "dead"},
         proc[p].pc \notin {"unused", "dead"}, Step(p, to),
         UNCHANGED <<row, defined, launchd, cmd, history>>,
         \/ to = "dead"
         \/ to = "open" /\ proc[p].pc = "boot"
         \/ to = "bound" /\ proc[p].pc = "open"
         \/ to = "serving" /\ proc[p].pc = "ready"
         \/ to = "cleanup" /\ proc[p].source = "foreground" /\ proc[p].rec = "idle"
              /\ proc[p].pc \in {"boot", "open", "bound", "closing"}
         \/ to = "cleanupDelete" /\ proc[p].pc = "cleanup" /\ ~proc[p].intr
  PROVE  RunInv'
<1> DEFINE v == proc[p]
           w == IF to = "dead" THEN Dead(p) ELSE [v EXCEPT !.pc = to]
<1>1. /\ v \in Proc /\ Phase(v) /\ RunOK(v.copy, proc)
      /\ row \in Run \cup {NoRow} /\ RunOK(row, proc)
      /\ history = InitHistory =>
           /\ Holding(v) => Known(p, v, row, launchd.loaded)
           /\ v.rec # "idle" => v.copy.owner = p
      /\ proc \in [Procs -> Proc]
  BY Zenon, ProcessOK
<1>2. proc' = [proc EXCEPT ![p] = w]
  BY Zenon, <1>1 DEF Step
<1>3. to = "dead" => /\ w \in Proc /\ w.pc = "dead" /\ w.served = v.served
                     /\ w.rec = "idle" /\ w.copy = NoRow
  BY ZenonT(60), <1>1 DEF Dead, NewProc, Proc
<1>4. to # "dead" => /\ w \in Proc /\ w.pc = to /\ w.served = v.served
                     /\ w.rec = v.rec /\ w.copy = v.copy
                     /\ w.source = v.source /\ w.intr = v.intr
  BY Zenon, <1>1 DEF Proc
<1>5. Phase(w)
  BY Zenon, <1>1, <1>3, <1>4 DEF Phase
<1> HIDE DEF w
<1>6. RunOK(w.copy, proc) /\ w.copy \in Run \cup {NoRow}
  BY Zenon, <1>1, <1>3, <1>4 DEF RunOK, Proc
<1>7. w \in Proc /\ w.pc # "unused" /\ w.served = v.served
  BY Zenon, <1>3, <1>4
<1>8. RunOK(w.copy, proc') /\ RunOK(row, proc')
  BY ZenonT(60), <1>1, <1>2, <1>6, <1>7, RecordStaysOK
<1>9. Holding(w) => Holding(v) /\ w.source = v.source
  BY Zenon, <1>1, <1>3, <1>4 DEF Holding, Phase
<1>10. Holding(w) /\ history = InitHistory => Known(p, w, row, launchd.loaded)
  BY Zenon, <1>1, <1>7, <1>9 DEF Known
<1>11. w.rec # "idle" /\ history = InitHistory => w.copy.owner = p
  BY Zenon, <1>1, <1>3, <1>4
<1> QED
  BY ZenonT(60), <1>1, <1>2, <1>5, <1>7, <1>8, <1>9, <1>10, <1>11, RuntimeMoves

(* A process that has been ready, or is becoming it, writes its record.    *)
LEMMA RuntimeWrites ==
  ASSUME RunInv, NEW p \in Procs, NEW w \in Proc,
         Holding(proc[p]), w.pc # "unused",
         proc' = [proc EXCEPT ![p] = w],
         UNCHANGED <<defined, launchd, cmd, history>>,
         Phase(w), w.served, w.source = proc[p].source,
         w.copy = proc[p].copy \/ w.copy = NoRow,
         w.rec # "idle" => w.copy = proc[p].copy /\ w.rec = proc[p].rec,
         NEW said \in {"ready", "degraded", "stopped"}, NEW owner \in 0..MaxProcs,
         PutRun(said, owner),
         owner = p \/ (owner = proc[p].copy.owner /\ proc[p].rec # "idle")
  PROVE  RunInv'
<1>1. /\ proc[p] \in Proc /\ Phase(proc[p]) /\ RunOK(proc[p].copy, proc)
      /\ history = InitHistory =>
           /\ proc[p].rec # "idle" => proc[p].copy.owner = p
      /\ proc \in [Procs -> Proc] /\ proc[p].copy \in Run \cup {NoRow}
  BY Zenon, ProcessOK DEF Proc
<1>2. row' = [status |-> said, owner |-> owner] /\ row' \in Run /\ row' # NoRow
  BY RunRecordsAssumption DEF PutRun, Run
<1>3. row'.status # "starting" /\ row'.owner = owner
  BY Zenon, <1>2
<1>4. RunOK(w.copy, proc')
  <2>1. RunOK(proc[p].copy, proc')
    BY ZenonT(60), <1>1, RecordStaysOK
  <2>2. RunOK(NoRow, proc')
    BY Zenon DEF RunOK
  <2> QED
    BY Zenon, <2>1, <2>2
<1>5. RunOK(row', proc')
  <2>1. CASE owner = p
    BY Zenon, <1>1, <1>2, <1>3, <2>1 DEF RunOK
  <2>2. CASE owner = proc[p].copy.owner /\ proc[p].rec # "idle"
    <3>1. RunOK(proc[p].copy, proc') /\ proc[p].copy # NoRow
      BY ZenonT(60), <1>1, <2>2, RecordStaysOK DEF Phase
    <3> QED
      BY Zenon, <1>3, <2>2, <3>1 DEF RunOK
  <2> QED
    BY Zenon, <2>1, <2>2
<1>6. history = InitHistory => row'.owner = p
  BY Zenon, <1>1, <1>3
<1>7. history = InitHistory /\ Holding(w) => Known(p, w, row', launchd.loaded)
  BY Zenon, <1>2, <1>6 DEF Known
<1>8. history = InitHistory /\ w.rec # "idle" => w.copy.owner = p
  BY Zenon, <1>1
<1>9. proc[p].pc \notin {"unused", "dead"}
  BY Zenon DEF Holding
<1> QED
  BY ZenonT(60), <1>2, <1>4, <1>5, <1>7, <1>8, <1>9, RuntimeMoves

(* The steps of a runtime process.                                         *)
LEMMA RuntimePreserves ==
  ASSUME RunInv, NEW p \in Procs,
         \/ Boot(p) \/ Listen(p) \/ Ready(p) \/ StartScopeSync(p) \/ Maintain(p)
         \/ SetRunStatusRead(p) \/ SetRunStatusWrite(p) \/ Stopped(p) \/ Close(p)
         \/ CleanupRead(p) \/ CleanupDelete(p) \/ CtrlC(p) \/ Crash(p)
  PROVE  RunInv'
<1> DEFINE v == proc[p]
<1>1. /\ v \in Proc /\ Phase(v) /\ RunOK(v.copy, proc) /\ v.copy \in Run \cup {NoRow}
      /\ row \in Run \cup {NoRow} /\ RunOK(row, proc)
      /\ history = InitHistory =>
           /\ Holding(v) => Known(p, v, row, launchd.loaded)
           /\ v.rec # "idle" => v.copy.owner = p
      /\ proc \in [Procs -> Proc]
  BY Zenon, ProcessOK DEF Proc
<1>2. UNCHANGED <<defined, launchd, cmd, history>>
  BY Zenon DEF Boot, Listen, Ready, StartScopeSync, Maintain, SetRunStatusRead, SetRunStatusWrite,
         Stopped, Close, CleanupRead, CleanupDelete, CtrlC, Crash
<1>3. ASSUME Leave(p), UNCHANGED row, v.pc \in {"boot", "open", "bound", "closing"},
             v.rec = "idle"
      PROVE  RunInv'
  BY Zenon, <1>2, <1>3, RuntimeSteps DEF Leave
<1>4. v.pc \in {"boot", "open", "bound"} => v.rec = "idle"
  BY Zenon, <1>1 DEF Phase
<1>5. CASE Boot(p)
  BY Zenon, <1>2, <1>3, <1>4, <1>5, RuntimeSteps DEF Boot
<1>6. CASE Listen(p)
  BY Zenon, <1>2, <1>3, <1>4, <1>6, RuntimeSteps DEF Listen
<1>7. CASE Ready(p)
  <2>1. CASE ~v.intr
    <3> DEFINE w == [v EXCEPT !.pc = "ready", !.served = TRUE]
    <3>1. /\ w \in Proc /\ w.pc = "ready" /\ w.served /\ w.source = v.source
          /\ w.copy = v.copy /\ w.rec = v.rec
      BY ZenonT(60), <1>1 DEF Proc
    <3>2. proc' = [proc EXCEPT ![p] = w] /\ PutRun("ready", p)
      BY ZenonT(60), <1>1, <1>7, <2>1 DEF Ready
    <3>3. Holding(v) /\ Phase(w)
      BY Zenon, <1>1, <1>7, <2>1, <3>1 DEF Ready, Holding, Phase
    <3> HIDE DEF w
    <3>4. p \in 0..MaxProcs
      BY RunRecordsAssumption DEF Procs
    <3> QED
      BY ZenonT(60), <1>2, <3>1, <3>2, <3>3, <3>4, RuntimeWrites
  <2>2. CASE v.intr
    BY Zenon, <1>3, <1>4, <1>7, <2>2 DEF Ready
  <2> QED
    BY Zenon, <2>1, <2>2
<1>8. ASSUME NEW to \in {"ready", "serving", "closing"},
             NEW said \in {"ready", "degraded", "stopped"}, PutRun(said, p), Serving(p),
             \/ proc' = [proc EXCEPT ![p].pc = to]
             \/ proc' = [proc EXCEPT ![p].status = said] /\ said # "stopped"
      PROVE  RunInv'
  <2> DEFINE w1 == [v EXCEPT !.pc = to]
             w2 == [v EXCEPT !.status = said]
  <2>1. /\ w1 \in Proc /\ w1.pc = to /\ w1.served = v.served /\ w1.source = v.source
        /\ w1.copy = v.copy /\ w1.rec = v.rec
    BY Zenon, <1>1 DEF Proc
  <2>2. said # "stopped" =>
        /\ w2 \in Proc /\ w2.pc = v.pc /\ w2.served = v.served /\ w2.source = v.source
        /\ w2.copy = v.copy /\ w2.rec = v.rec
    BY Zenon, <1>1 DEF Proc
  <2>3. v.served /\ Holding(v)
    BY Zenon, <1>1, <1>8 DEF Serving, Phase, Holding
  <2>4. Phase(w1)
    BY Zenon, <1>1, <2>1, <2>3 DEF Phase
  <2>5. said # "stopped" => Phase(w2) /\ w2.pc # "unused"
    BY Zenon, <1>1, <1>8, <2>2, <2>3 DEF Phase, Serving
  <2>6. p \in 0..MaxProcs
    BY RunRecordsAssumption DEF Procs
  <2>7. \/ proc' = [proc EXCEPT ![p] = w1]
        \/ proc' = [proc EXCEPT ![p] = w2] /\ said # "stopped"
    BY Zenon, <1>1, <1>8
  <2> HIDE DEF w1, w2
  <2> QED
    BY ZenonT(60), <1>2, <1>8, <2>1, <2>2, <2>3, <2>4, <2>5, <2>6, <2>7, RuntimeWrites
<1>9. CASE StartScopeSync(p)
  <2>1. CASE Step(p, "serving") /\ UNCHANGED row
    BY Zenon, <1>2, <1>9, <2>1, RuntimeSteps DEF StartScopeSync
  <2>2. CASE PutRun("stopped", p) /\ Step(p, "closing")
    BY Zenon, <1>8, <1>9, <2>2 DEF StartScopeSync, Step, Serving
  <2> QED
    BY Zenon, <1>9, <2>1, <2>2 DEF StartScopeSync
<1>10. CASE Maintain(p)
  BY ZenonT(60), <1>8, <1>10 DEF Maintain, Serving
<1>11. CASE SetRunStatusRead(p)
  <2>1. PICK said \in {"ready", "degraded"} :
           row # NoRow /\ proc' = [proc EXCEPT ![p].copy = row, ![p].rec = said]
    BY ZenonT(60), <1>11 DEF SetRunStatusRead
  <2> DEFINE w == [v EXCEPT !.copy = row, !.rec = said]
  <2>2. /\ w \in Proc /\ w.pc = v.pc /\ w.served = v.served /\ w.source = v.source
        /\ w.copy = row /\ w.rec = said /\ w.intr = v.intr
    BY ZenonT(60), <1>1 DEF Proc
  <2>3. proc' = [proc EXCEPT ![p] = w] /\ UNCHANGED row
    BY ZenonT(60), <1>1, <1>11, <2>1 DEF SetRunStatusRead
  <2>4. v.pc \in {"ready", "serving", "closing"} /\ v.served /\ Holding(v)
    BY Zenon, <1>1, <1>11 DEF SetRunStatusRead, Serving, Phase, Holding
  <2> HIDE DEF w
  <2>5. Phase(w)
    BY Zenon, <2>1, <2>2, <2>4 DEF Phase
  <2>6. RunOK(w.copy, proc') /\ RunOK(row', proc')
    BY ZenonT(60), <1>1, <2>2, <2>3, RecordStaysOK
  <2>7. history = InitHistory => row.owner = p /\ Known(p, w, row', launchd.loaded)
    BY Zenon, <1>1, <2>2, <2>3, <2>4 DEF Known
  <2> QED
    BY ZenonT(60), <1>1, <1>2, <2>2, <2>3, <2>4, <2>5, <2>6, <2>7, RuntimeMoves
<1>12. CASE SetRunStatusWrite(p)
  <2> DEFINE w == [v EXCEPT !.rec = "idle", !.copy = NoRow]
  <2>1. /\ w \in Proc /\ w.pc = v.pc /\ w.served = v.served /\ w.source = v.source
        /\ w.copy = NoRow /\ w.rec = "idle"
    BY ZenonT(60), <1>1 DEF Proc
  <2>2. proc' = [proc EXCEPT ![p] = w] /\ PutRun(v.rec, v.copy.owner) /\ v.rec # "idle"
    BY ZenonT(60), <1>1, <1>12 DEF SetRunStatusWrite
  <2>3. v.pc \in {"ready", "serving", "closing"} /\ v.served /\ Holding(v) /\ v.copy # NoRow
    BY Zenon, <1>1, <2>2 DEF Phase, Holding
  <2>4. v.copy.owner \in 0..MaxProcs /\ v.rec \in {"ready", "degraded", "stopped"}
    BY Zenon, <1>1, <2>2, <2>3 DEF Run, Proc
  <2> HIDE DEF w
  <2>5. Phase(w)
    BY Zenon, <2>1, <2>3 DEF Phase
  <2> QED
    BY ZenonT(60), <1>2, <2>1, <2>2, <2>3, <2>4, <2>5, RuntimeWrites
<1>13. CASE Stopped(p)
  BY Zenon, <1>8, <1>13 DEF Stopped, Step
<1>14. CASE Close(p)
  BY Zenon, <1>3, <1>14 DEF Close
<1>15. CASE CleanupRead(p)
  BY Zenon, <1>2, <1>15, RuntimeSteps DEF CleanupRead
<1>16. CASE CleanupDelete(p)
  <2> DEFINE w == Dead(p)
  <2>1. /\ w \in Proc /\ w.pc = "dead" /\ w.served = v.served /\ w.rec = "idle" /\ w.copy = NoRow
    BY ZenonT(60), <1>1 DEF Dead, NewProc, Proc
  <2>2. proc' = [proc EXCEPT ![p] = w] /\ row' = NoRow
    BY Zenon, <1>16 DEF CleanupDelete, Step
  <2> HIDE DEF w
  <2>3. Phase(w) /\ ~Holding(w) /\ Holding(v)
    BY Zenon, <1>16, <2>1 DEF CleanupDelete, Phase, Holding
  <2>4. RunOK(NoRow, proc')
    BY Zenon DEF RunOK
  <2> QED
    BY ZenonT(60), <1>2, <1>16, <2>1, <2>2, <2>3, <2>4, RuntimeMoves DEF CleanupDelete
<1>17. CASE CtrlC(p)
  <2> DEFINE w == [v EXCEPT !.intr = TRUE]
  <2>1. /\ w \in Proc /\ w.pc = v.pc /\ w.served = v.served /\ w.source = v.source
        /\ w.copy = v.copy /\ w.rec = v.rec /\ w.intr
    BY <1>1 DEF Proc
  <2>2. proc' = [proc EXCEPT ![p] = w] /\ UNCHANGED row /\ v.pc \notin {"unused", "dead"}
    BY Zenon, <1>1, <1>17 DEF CtrlC, Live
  <2> HIDE DEF w
  <2>3. Phase(w) /\ (Holding(w) => Holding(v))
    BY Zenon, <1>1, <2>1 DEF Phase, Holding
  <2>4. RunOK(w.copy, proc') /\ RunOK(row', proc')
    BY ZenonT(60), <1>1, <2>1, <2>2, RecordStaysOK
  <2>5. history = InitHistory /\ Holding(w) => Known(p, w, row', launchd.loaded)
    BY Zenon, <1>1, <2>1, <2>2, <2>3 DEF Known
  <2> QED
    BY ZenonT(60), <1>1, <1>2, <2>1, <2>2, <2>3, <2>4, <2>5, RuntimeMoves
<1>18. CASE Crash(p)
  BY Zenon, <1>2, <1>18, RuntimeSteps DEF Crash, Live
<1> QED
  BY Zenon, <1>5, <1>6, <1>7, <1>9, <1>10, <1>11, <1>12, <1>13, <1>14, <1>15, <1>16, <1>17, <1>18


(* launchd restarts its process.                                           *)
LEMMA LaunchdPreserves ==
  ASSUME RunInv, NEW p \in Procs, KeepAlive(p)
  PROVE  RunInv'
<1> DEFINE w == Booting("launchd")
<1>1. /\ proc' = [proc EXCEPT ![p] = w] /\ Spawnable(p) /\ launchd.loaded
      /\ UNCHANGED <<row, defined, launchd, cmd, history>>
      /\ \A q \in Procs : Live(q) => proc[q].source # "launchd"
  BY Zenon DEF KeepAlive
<1>2. /\ proc' \in [Procs -> Proc] /\ proc'[p] = w /\ RunOK(row, proc')
      /\ \A q \in Procs \ {p} : proc'[q] = proc[q]
      /\ w.source = "launchd" /\ ~w.served /\ w.rec = "idle"
      /\ \A q \in Procs : Phase(proc'[q]) /\ RunOK(proc'[q].copy, proc')
      /\ \A c \in Commands : ChildOK(cmd[c], proc')
      /\ Holders' \subseteq Holders \cup {p}
  BY ZenonT(60), <1>1, RuntimeStarts
<1> HIDE DEF w
<1>3. Sound'
  BY ZenonT(60), <1>1, <1>2 DEF RunInv, Sound, Types
<1>4. ASSUME Exclusive PROVE Exclusive'
  <2>1. \A q \in Holders : Live(q)
    BY Zenon DEF Holders, Holding, Live
  <2>2. Holders = {}
    BY Zenon, <1>1, <1>4, <2>1 DEF Exclusive, OneHolder, Holders
  <2>3. Holders' \subseteq {p}
    BY Zenon, <1>2, <2>2
  <2>4. Known(p, w, row', launchd'.loaded)
    BY Zenon, <1>1, <1>2 DEF Known
  <2>5. OneHolder'
    BY ZenonT(60), <1>1, <1>2, <1>4, <2>3, <2>4 DEF OneHolder, Exclusive
  <2>6. Alone' /\ Supervised'
    BY Zenon, <1>1, <1>4 DEF Exclusive, Alone, Supervised
  <2>7. ASSUME NEW c \in Commands PROVE Orderly(cmd'[c], row', launchd'.loaded, Holders')
    <3>1. Orderly(cmd[c], row, launchd.loaded, Holders)
      BY Zenon, <1>4 DEF Exclusive
    <3>2. \/ cmd[c].pc \notin {"check", "delete", "reserve", "spawn", "poll", "rollback", "unit",
                               "wait", "stopRead", "stopCheck", "signal"}
      BY Zenon, <1>1, <3>1 DEF Orderly
    <3> QED
      BY Zenon, <1>1, <3>1, <3>2 DEF Orderly
  <2> QED
    BY Zenon, <2>5, <2>6, <2>7 DEF Exclusive
<1> QED
  BY Zenon, <1>1, <1>3, <1>4 DEF RunInv

-----------------------------------------------------------------------------
(* The commands.                                                           *)

(* A step of the command c, which may end processes, interrupt them or     *)
(* start one.                                                              *)
LEMMA CommandActs ==
  ASSUME RunInv, NEW c \in Commands, NEW k \in Cmd, cmd' = [cmd EXCEPT ![c] = k],
         row' \in Run \cup {NoRow}, defined' \in BOOLEAN, launchd' \in Launchd,
         history' \in History, proc' \in [Procs -> Proc],
         \A q \in Procs : /\ proc[q].served => proc'[q].served
                          /\ proc[q].pc = "dead" => proc'[q].pc = "dead"
                          /\ Phase(proc'[q])
                          /\ proc'[q].copy \in {proc[q].copy, NoRow},
         RunOK(row', proc'), ChildOK(k, proc'),
         history' = InitHistory =>
           /\ history = InitHistory
           /\ Exclusive => /\ \A d \in Commands \ {c} : ~Working(cmd[d])
                           /\ OneHolder'
                           /\ Supervised'
                           /\ Orderly(k, row', launchd'.loaded, Holders')
  PROVE  RunInv'
<1>1. /\ proc \in [Procs -> Proc] /\ cmd \in [Commands -> Cmd]
      /\ \A q \in Procs : RunOK(proc[q].copy, proc)
      /\ \A d \in Commands : ChildOK(cmd[d], proc)
  BY Zenon DEF RunInv, Sound, Types
<1>2. /\ cmd' \in [Commands -> Cmd] /\ cmd'[c] = k
      /\ \A d \in Commands \ {c} : cmd'[d] = cmd[d]
  BY Zenon, <1>1
<1>3. Types'
  BY Zenon, <1>2 DEF Types
<1>4. ASSUME NEW run \in Run \cup {NoRow}, RunOK(run, proc) PROVE RunOK(run, proc')
  <2>1. run # NoRow /\ run.owner # 0 => run.owner \in Procs
    BY RunRecordsAssumption DEF Run, Procs
  <2> QED
    BY Zenon, <1>4, <2>1 DEF RunOK
<1>5. \A q \in Procs : RunOK(proc'[q].copy, proc')
  <2>1. \A q \in Procs : proc[q].copy \in Run \cup {NoRow}
    BY Zenon, <1>1 DEF Proc
  <2>2. RunOK(NoRow, proc')
    BY Zenon DEF RunOK
  <2> QED
    BY Zenon, <1>1, <1>4, <2>1, <2>2
<1>6. ASSUME NEW d \in Commands PROVE ChildOK(cmd'[d], proc')
  <2>1. cmd[d].child # 0 => cmd[d].child \in Procs
    BY <1>1, RunRecordsAssumption DEF Cmd, Stages, Procs
  <2>2. CASE d # c
    BY Zenon, <1>1, <1>2, <2>1, <2>2 DEF ChildOK
  <2> QED
    BY Zenon, <1>2, <2>2
<1>7. Sound'
  BY Zenon, <1>3, <1>5, <1>6 DEF Sound
<1>8. ASSUME history' = InitHistory PROVE Exclusive'
  <2>1. Exclusive
    BY Zenon, <1>8 DEF RunInv
  <2>2. Alone'
    BY Zenon, <1>2, <1>8, <2>1 DEF Alone
  <2>3. ASSUME NEW d \in Commands PROVE Orderly(cmd'[d], row', launchd'.loaded, Holders')
    <3>1. CASE d # c
      <4>1. cmd'[d].pc \in {"idle", "done", "failed"}
        BY Zenon, <1>2, <1>8, <2>1, <3>1 DEF Working
      <4> QED
        BY Zenon, <4>1 DEF Orderly
    <3> QED
      BY Zenon, <1>2, <1>8, <2>1, <3>1
  <2> QED
    BY Zenon, <1>8, <2>1, <2>2, <2>3 DEF Exclusive
<1> QED
  BY Zenon, <1>7, <1>8 DEF RunInv

(* What is known of a command at work.                                     *)
LEMMA CommandOK ==
  ASSUME RunInv, NEW c \in Commands, Working(cmd[c])
  PROVE  /\ cmd[c] \in Cmd /\ ChildOK(cmd[c], proc) /\ cmd \in [Commands -> Cmd]
         /\ proc \in [Procs -> Proc] /\ launchd \in Launchd /\ history \in History
         /\ row \in Run \cup {NoRow} /\ defined \in BOOLEAN /\ RunOK(row, proc)
         /\ \A q \in Procs : Phase(proc[q])
         /\ history = InitHistory =>
              /\ Exclusive
              /\ \A d \in Commands \ {c} : ~Working(cmd[d])
              /\ OneHolder
              /\ Supervised
              /\ Orderly(cmd[c], row, launchd.loaded, Holders)
              /\ launchd.loaded => launchd.sup \/ cmd[c].pc \in {"register", "undo"}
<1>1. /\ cmd[c] \in Cmd /\ ChildOK(cmd[c], proc) /\ cmd \in [Commands -> Cmd]
      /\ proc \in [Procs -> Proc] /\ launchd \in Launchd /\ history \in History
      /\ row \in Run \cup {NoRow} /\ defined \in BOOLEAN /\ RunOK(row, proc)
      /\ \A q \in Procs : Phase(proc[q])
  BY Zenon DEF RunInv, Sound, Types
<1>2. ASSUME history = InitHistory
      PROVE  /\ Exclusive
             /\ \A d \in Commands \ {c} : ~Working(cmd[d])
             /\ OneHolder /\ Supervised
             /\ Orderly(cmd[c], row, launchd.loaded, Holders)
  BY Zenon, <1>2 DEF RunInv, Exclusive, Alone
<1>3. history = InitHistory /\ launchd.loaded => launchd.sup \/ cmd[c].pc \in {"register", "undo"}
  BY Zenon, <1>2 DEF Supervised, Working
<1> QED
  BY Zenon, <1>1, <1>2, <1>3

(* A step of a command on its own state only, or on the definition.        *)
LEMMA CommandGoes ==
  ASSUME RunInv, NEW c \in Commands, NEW k \in Cmd, cmd' = [cmd EXCEPT ![c] = k],
         Working(cmd[c]), UNCHANGED <<row, launchd, proc>>, defined' \in BOOLEAN,
         history' \in History, ChildOK(k, proc),
         history' = InitHistory =>
           /\ history = InitHistory /\ cmd[c].pc \notin {"register", "undo"}
           /\ Exclusive => Orderly(k, row, launchd.loaded, Holders)
  PROVE  RunInv'
<1>1. /\ proc \in [Procs -> Proc] /\ launchd \in Launchd /\ row \in Run \cup {NoRow}
      /\ RunOK(row, proc) /\ \A q \in Procs : Phase(proc[q])
      /\ history = InitHistory =>
           /\ Exclusive /\ OneHolder
           /\ \A d \in Commands \ {c} : ~Working(cmd[d])
           /\ launchd.loaded => launchd.sup \/ cmd[c].pc \in {"register", "undo"}
  BY Zenon, CommandOK
<1>2. Holders' = Holders
  BY Zenon DEF Holders
<1>3. OneHolder => OneHolder'
  BY Zenon, <1>2 DEF OneHolder
<1>4. history' = InitHistory => Supervised'
  BY Zenon, <1>1 DEF Supervised
<1> QED
  BY ZenonT(60), <1>1, <1>2, <1>3, <1>4, CommandActs

(* The stages that commands go to.                                         *)
LEMMA StageNames ==
  /\ "definition" \in Stages /\ "supervisor" \in Stages /\ "read" \in Stages
  /\ "check" \in Stages /\ "delete" \in Stages /\ "reserve" \in Stages
  /\ "spawn" \in Stages /\ "poll" \in Stages /\ "rollback" \in Stages
  /\ "restarted" \in Stages /\ "stopRead" \in Stages /\ "stopCheck" \in Stages
  /\ "signal" \in Stages /\ "wait" \in Stages /\ "undefine" \in Stages
  /\ "unit" \in Stages /\ "register" \in Stages /\ "waitReady" \in Stages
  /\ "undo" \in Stages /\ "bootout" \in Stages /\ "removeUnit" \in Stages
  /\ "done" \in Stages /\ "failed" \in Stages
  BY Zenon DEF Stages

(* What Go does.                                                           *)
LEMMA Goes ==
  ASSUME RunInv, NEW c \in Commands, Working(cmd[c]),
         NEW to \in Stages,
         Go(c, to)
  PROVE  \E k \in Cmd : /\ cmd' = [cmd EXCEPT ![c] = k]
                        /\ k.pc = to /\ k.op = cmd[c].op /\ k.child = cmd[c].child
                        /\ k.killed = cmd[c].killed
                        /\ k.seen = IF to \in {"done", "failed"} THEN NoRow ELSE cmd[c].seen
<1>1. cmd[c] \in Cmd /\ cmd \in [Commands -> Cmd]
  BY Zenon, CommandOK
<1> DEFINE k == [cmd[c] EXCEPT !.pc = to,
                               !.seen = IF to \in {"done", "failed"} THEN NoRow ELSE @]
<1>2. k \in Cmd /\ k.pc = to /\ k.op = cmd[c].op /\ k.child = cmd[c].child
      /\ k.killed = cmd[c].killed
      /\ k.seen = IF to \in {"done", "failed"} THEN NoRow ELSE cmd[c].seen
  BY ZenonT(60), <1>1 DEF Cmd, Stages
<1>3. cmd' = [cmd EXCEPT ![c] = k]
  BY ZenonT(60), <1>1 DEF Go
<1> HIDE DEF k
<1> QED
  BY ZenonT(60), <1>2, <1>3


(* What a command can conclude about the holder, if it runs alone.         *)
LEMMA HolderSeen ==
  ASSUME OneHolder, NEW p \in Holders
  PROVE  /\ Live(p)
         /\ ~launchd.loaded => InSight(row, p)
         /\ row = NoRow => launchd.loaded
<1>1. p \in Procs /\ Holding(proc[p]) /\ Known(p, proc[p], row, launchd.loaded)
  BY Zenon DEF OneHolder, Holders
<1>2. NoRow # [status |-> "starting", owner |-> 0]
  BY RunRecordsAssumption DEF Run
<1> QED
  BY <1>1, <1>2 DEF Live, Holding, Known, InSight

(* The steps of a command that read, ask or decide.                        *)
LEMMA DecisionsPreserve ==
  ASSUME RunInv, NEW c \in Commands,
         \/ Definition(c) \/ Supervisor(c) \/ CheckStart(c) \/ Check(c) \/ CheckStale(c)
         \/ StopCheck(c) \/ Ended(c) \/ WaitTimeout(c) \/ Undefine(c) \/ WaitReady(c)
  PROVE  RunInv'
<1> DEFINE v == cmd[c]
<1>1. /\ Working(v) /\ v.op \in Ops
      /\ v.pc \notin {"poll", "rollback", "register", "undo"}
      /\ UNCHANGED <<row, launchd, proc>>
  BY Zenon DEF Definition, Supervisor, CheckStart, Check, CheckStale, StopCheck, Ended, WaitTimeout,
         Undefine, WaitReady, At, Working, Ops, Starts, Removes
<1>2. /\ v \in Cmd /\ ChildOK(v, proc) /\ history \in History /\ defined \in BOOLEAN
      /\ history = InitHistory =>
           /\ OneHolder
           /\ Orderly(v, row, launchd.loaded, Holders)
           /\ launchd.loaded => launchd.sup
  BY Zenon, <1>1, CommandOK
<1>3. v.child = 0
  BY Zenon, <1>1, <1>2 DEF ChildOK, Working
<1>4. /\ history' \in History /\ defined' \in BOOLEAN
      /\ history' = InitHistory => history = InitHistory
  <2>1. CASE WaitTimeout(c)
    BY ZenonT(60), <1>2, <2>1 DEF WaitTimeout, History, InitHistory
  <2>2. CASE Undefine(c)
    BY ZenonT(60), <1>2, <2>2 DEF Undefine
  <2> QED
    BY Zenon, <1>2, <2>1, <2>2 DEF Definition, Supervisor, CheckStart, Check, CheckStale, StopCheck,
                            Ended, WaitReady
<1>5. ASSUME NEW to \in {"supervisor", "read", "check", "delete", "stopRead", "signal", "bootout",
                         "removeUnit", "undo", "done", "failed"}, Go(c, to),
             history = InitHistory =>
               /\ to = "read" => ~launchd.loaded
               /\ to \in {"check", "delete", "stopRead", "signal"} => ~launchd.loaded
               /\ to \in {"check", "delete", "signal"} =>
                    \A p \in Holders : InSight(v.seen, p)
               /\ to = "supervisor" => v.op # "stale"
               /\ to = "undo" => v.op = "install"
               /\ to = "delete" /\ v.op \notin Starts =>
                    \A p \in Holders : v.seen.status = "starting"
      PROVE  RunInv'
  <2>1. PICK k \in Cmd :
          /\ cmd' = [cmd EXCEPT ![c] = k]
          /\ k.pc = to /\ k.op = v.op /\ k.child = v.child
          /\ k.seen = IF to \in {"done", "failed"} THEN NoRow ELSE v.seen
    BY SMTT(30), <1>1, <1>5, Goes, StageNames
  <2>2. ChildOK(k, proc)
    BY Zenon, <1>3, <1>5, <2>1 DEF ChildOK
  <2>3. history = InitHistory => Orderly(k, row, launchd.loaded, Holders)
    BY Zenon, <1>5, <2>1 DEF Orderly
  <2> QED
    BY ZenonT(60), <1>1, <1>4, <2>1, <2>2, <2>3, CommandGoes
<1>6. ASSUME history = InitHistory, ~LiveRun(v.seen), \A p \in Holders : InSight(v.seen, p)
      PROVE  \A p \in Holders : v.seen.status = "starting"
  BY Zenon, <1>2, <1>6, HolderSeen DEF LiveRun, InSight
<1>7. CASE Definition(c)
  BY Zenon, <1>2, <1>5, <1>7 DEF Definition, Orderly, At
<1>8. CASE Supervisor(c)
  BY ZenonT(60), <1>1, <1>2, <1>5, <1>8 DEF Supervisor, Orderly, At
<1>9. CASE CheckStart(c)
  BY ZenonT(60), <1>2, <1>5, <1>9 DEF CheckStart, StartDecision, Orderly, At, Starts
<1>10. CASE Check(c)
  <2>1. v.pc = "check" /\ v.op \in {"stop", "restart", "install", "uninstall", "rm", "rmForce"}
    BY Zenon, <1>10 DEF Check, At, Removes
  <2>2. CASE LiveRun(v.seen)
    BY Zenon, <1>2, <1>5, <1>10, <2>1, <2>2 DEF Check, Orderly
  <2>3. CASE ~LiveRun(v.seen)
    BY Zenon, <1>2, <1>5, <1>6, <1>10, <2>1, <2>3 DEF Check, Orderly
  <2> QED
    BY Zenon, <2>2, <2>3
<1>11. CASE CheckStale(c)
  BY ZenonT(60), <1>2, <1>5, <1>6, <1>11 DEF CheckStale, Orderly, At
<1>12. CASE StopCheck(c)
  BY ZenonT(60), <1>2, <1>5, <1>12 DEF StopCheck, Orderly, At
<1>13. CASE Ended(c)
  BY Zenon, <1>2, <1>5, <1>6, <1>13 DEF Ended, Orderly, At
<1>14. CASE WaitTimeout(c)
  BY Zenon, <1>5, <1>14 DEF WaitTimeout
<1>15. CASE Undefine(c)
  BY ZenonT(60), <1>5, <1>15 DEF Undefine
<1>16. CASE WaitReady(c)
  BY ZenonT(60), <1>5, <1>16 DEF WaitReady, At
<1> QED
  BY Zenon, <1>7, <1>8, <1>9, <1>10, <1>11, <1>12, <1>13, <1>14, <1>15, <1>16


(* A command begins, reads the record, is killed, or learns that its child *)
(* is ready.                                                               *)
LEMMA ReadsPreserve ==
  ASSUME RunInv, NEW c \in Commands,
         Read(c) \/ StopRead(c) \/ Restarted(c) \/ Kill(c) \/ Poll(c)
  PROVE  RunInv'
<1> DEFINE v == cmd[c]
<1>1. Working(v) /\ UNCHANGED <<row, launchd, proc, defined>>
  BY Zenon DEF Read, StopRead, Restarted, Kill, Poll, At, Working, Active
<1>2. /\ v \in Cmd /\ cmd \in [Commands -> Cmd] /\ ChildOK(v, proc) /\ history \in History
      /\ row \in Run \cup {NoRow} /\ RunOK(row, proc) /\ defined \in BOOLEAN
      /\ history = InitHistory =>
           OneHolder /\ Orderly(v, row, launchd.loaded, Holders)
  BY Zenon, <1>1, CommandOK
<1>3. v.pc \notin {"poll", "rollback"} => v.child = 0
  BY Zenon, <1>1, <1>2 DEF ChildOK, Working
<1>4. history = InitHistory =>
        /\ \A p \in Holders : InSight(row, p) \/ launchd.loaded
        /\ row = NoRow /\ ~launchd.loaded => Holders = {}
  BY Zenon, <1>2, HolderSeen
<1>5. CASE Read(c)
  <2> DEFINE to == IF row = NoRow THEN Absent(v.op)
                   ELSE IF v.op = "stale" THEN "supervisor" ELSE "check"
             k == [v EXCEPT !.seen = row, !.pc = to]
  <2>1. /\ to \in {"reserve", "restarted", "undefine", "failed", "done", "unit", "removeUnit",
                   "supervisor", "check"}
        /\ to = "check" => v.op # "stale"
        /\ to \in {"reserve", "unit"} => row = NoRow /\ v.op # "stale"
    BY Zenon, <1>5 DEF Read, At, Absent, Ops, Starts, Removes
  <2>2. k \in Cmd /\ k.seen = row /\ k.pc = to /\ k.op = v.op /\ k.child = v.child
    BY ZenonT(60), <1>2, <2>1 DEF Cmd, Stages
  <2>3. cmd' = [cmd EXCEPT ![c] = k] /\ v.pc = "read" /\ UNCHANGED history
    BY ZenonT(60), <1>2, <1>5 DEF Read, At
  <2> HIDE DEF k, to
  <2>4. ChildOK(k, proc)
    BY Zenon, <1>3, <2>1, <2>2, <2>3 DEF ChildOK
  <2>5. history = InitHistory => Orderly(k, row, launchd.loaded, Holders)
    BY Zenon, <1>2, <1>4, <2>1, <2>2, <2>3 DEF Orderly
  <2> QED
    BY ZenonT(60), <1>1, <1>2, <2>2, <2>3, <2>4, <2>5, CommandGoes
<1>6. CASE StopRead(c)
  <2> DEFINE k == [v EXCEPT !.seen = row, !.pc = IF row = NoRow THEN "failed" ELSE "stopCheck"]
  <2>1. /\ k \in Cmd /\ k.seen = row /\ k.pc \in {"failed", "stopCheck"}
        /\ k.op = v.op /\ k.child = v.child
    BY ZenonT(60), <1>2 DEF Cmd, Stages
  <2>2. cmd' = [cmd EXCEPT ![c] = k] /\ v.pc = "stopRead" /\ UNCHANGED history
    BY ZenonT(60), <1>2, <1>6 DEF StopRead, At
  <2> HIDE DEF k
  <2>3. ChildOK(k, proc)
    BY Zenon, <1>3, <2>1, <2>2 DEF ChildOK
  <2>4. history = InitHistory => Orderly(k, row, launchd.loaded, Holders)
    BY Zenon, <1>2, <1>4, <2>1, <2>2 DEF Orderly
  <2> QED
    BY ZenonT(60), <1>1, <1>2, <2>1, <2>2, <2>3, <2>4, CommandGoes
<1>7. CASE Restarted(c)
  <2> DEFINE k == [v EXCEPT !.op = "start", !.pc = "supervisor"]
  <2>1. k \in Cmd /\ k.pc = "supervisor" /\ k.op = "start" /\ k.child = v.child
    BY ZenonT(60), <1>2 DEF Cmd, Stages, Ops, Starts
  <2>2. cmd' = [cmd EXCEPT ![c] = k] /\ v.pc = "restarted" /\ UNCHANGED history
    BY ZenonT(60), <1>2, <1>7 DEF Restarted, At
  <2> HIDE DEF k
  <2>3. ChildOK(k, proc)
    BY Zenon, <1>3, <2>1, <2>2 DEF ChildOK
  <2>4. Orderly(k, row, launchd.loaded, Holders)
    BY Zenon, <2>1 DEF Orderly
  <2> QED
    BY ZenonT(60), <1>1, <1>2, <2>1, <2>2, <2>3, <2>4, CommandGoes
<1>8. CASE Kill(c)
  <2> DEFINE k == [v EXCEPT !.pc = "failed", !.seen = NoRow, !.killed = TRUE]
  <2>1. k \in Cmd /\ k.pc = "failed" /\ k.killed /\ k.op = v.op /\ k.child = v.child
    BY ZenonT(60), <1>2 DEF Cmd, Stages
  <2>2. cmd' = [cmd EXCEPT ![c] = k]
    BY ZenonT(60), <1>2, <1>8 DEF Kill
  <2> HIDE DEF k
  <2>3. ChildOK(k, proc)
    BY Zenon, <1>2, <2>1 DEF ChildOK
  <2>4. /\ history' \in History
        /\ history' = InitHistory => history = InitHistory /\ v.op # "install"
    BY ZenonT(60), <1>2, <1>8 DEF Kill, History, InitHistory
  <2>5. history' = InitHistory => v.pc \notin {"register", "undo"}
    BY Zenon, <1>2, <2>4 DEF Orderly
  <2>6. Orderly(k, row, launchd.loaded, Holders)
    BY Zenon, <2>1 DEF Orderly
  <2> QED
    BY ZenonT(60), <1>1, <1>2, <2>1, <2>2, <2>3, <2>4, <2>5, <2>6, CommandGoes
<1>9. CASE Poll(c)
  <2>1. /\ v.pc = "poll" /\ Go(c, "done") /\ UNCHANGED history
        /\ row = [status |-> "ready", owner |-> v.child]
    BY Zenon, <1>9 DEF Poll, At
  <2>2. PICK k \in Cmd :
          /\ cmd' = [cmd EXCEPT ![c] = k]
          /\ k.pc = "done" /\ k.op = v.op /\ k.child = v.child
    BY <1>1, <2>1, Goes, StageNames
  <2>3. v.child # 0 /\ proc[v.child].served
    <3>1. v.child # 0 /\ v.child \in 0..MaxProcs
      BY Zenon, <1>2, <2>1 DEF ChildOK, Cmd, Stages
    <3>2. row \in Run
      BY Zenon, <2>1, <3>1 DEF Run
    <3>3. row # NoRow
      BY Zenon, <3>2, RunRecordsAssumption
    <3> QED
      BY Zenon, <1>2, <2>1, <3>1, <3>3 DEF RunOK
  <2>4. ChildOK(k, proc)
    BY ZenonT(60), <1>2, <2>1, <2>2, <2>3 DEF ChildOK
  <2>5. Orderly(k, row, launchd.loaded, Holders)
    BY ZenonT(60), <2>2 DEF Orderly
  <2> QED
    BY ZenonT(60), <1>1, <1>2, <2>1, <2>2, <2>4, <2>5, CommandGoes
<1> QED
  BY Zenon, <1>5, <1>6, <1>7, <1>8, <1>9

(* A command begins; a second one at work is recorded as an overlap.       *)
LEMMA BeginPreserves ==
  ASSUME RunInv, NEW c \in Commands, NEW op \in Ops, Begin(c, op)
  PROVE  RunInv'
<1> DEFINE v == cmd[c]
           to == CASE op = "restart" \/ op = "install" -> "definition"
                   [] op = "stale" -> "read"
                   [] OTHER -> "supervisor"
           k == [v EXCEPT !.op = op, !.pc = to]
<1>1. /\ v \in Cmd /\ cmd \in [Commands -> Cmd] /\ ChildOK(v, proc) /\ history \in History
      /\ row \in Run \cup {NoRow} /\ defined \in BOOLEAN /\ launchd \in Launchd
      /\ RunOK(row, proc) /\ \A q \in Procs : Phase(proc[q])
      /\ proc \in [Procs -> Proc]
  BY Zenon DEF RunInv, Sound, Types
<1>2. /\ to \in {"definition", "read", "supervisor"}
      /\ to = "read" => op = "stale"
      /\ to \in {"definition", "supervisor"} => op # "stale"
  OBVIOUS
<1>3. k \in Cmd /\ k.op = op /\ k.pc = to /\ k.child = v.child
  BY ZenonT(60), <1>1, <1>2 DEF Cmd, Stages
<1>4. /\ v.pc = "idle" /\ cmd' = [cmd EXCEPT ![c] = k]
      /\ UNCHANGED <<row, defined, launchd, proc>>
  BY ZenonT(60), <1>1 DEF Begin
<1>5. /\ history' \in History
      /\ history' = InitHistory => history = InitHistory /\ \A d \in Commands : ~Working(cmd[d])
  BY ZenonT(60), <1>1 DEF Begin, History, InitHistory, Active, Working
<1> HIDE DEF k, to
<1>6. ChildOK(k, proc)
  BY Zenon, <1>1, <1>2, <1>3, <1>4 DEF ChildOK
<1>7. Orderly(k, row, launchd.loaded, Holders)
  BY Zenon, <1>2, <1>3 DEF Orderly
<1>8. Holders' = Holders
  BY Zenon, <1>4 DEF Holders
<1>9. Exclusive => OneHolder'
  BY Zenon, <1>4, <1>8 DEF OneHolder, Exclusive
<1>10. Exclusive => Supervised'
  <2>1. \A d \in Commands \ {c} : cmd'[d] = cmd[d]
    BY Zenon, <1>1, <1>4
  <2> QED
    BY Zenon, <1>4, <2>1 DEF Supervised, Exclusive
<1> QED
  BY ZenonT(60), <1>1, <1>3, <1>4, <1>5, <1>6, <1>7, <1>8, <1>9, <1>10, CommandActs


(* A step of a command on the record or on launchd.                        *)
LEMMA CommandWrites ==
  ASSUME RunInv, NEW c \in Commands, NEW k \in Cmd, cmd' = [cmd EXCEPT ![c] = k],
         Working(cmd[c]), UNCHANGED <<proc, defined>>,
         row' \in Run \cup {NoRow}, launchd' \in Launchd, history' \in History,
         RunOK(row', proc), ChildOK(k, proc),
         history' = InitHistory =>
           /\ history = InitHistory
           /\ Holders = {} \/ (row' = row /\ launchd'.loaded = launchd.loaded)
           /\ launchd'.loaded => launchd'.sup \/ k.pc \in {"register", "undo"}
           /\ Orderly(k, row', launchd'.loaded, Holders)
  PROVE  RunInv'
<1>1. /\ proc \in [Procs -> Proc] /\ \A q \in Procs : Phase(proc[q])
      /\ cmd \in [Commands -> Cmd] /\ defined \in BOOLEAN
      /\ history = InitHistory =>
           OneHolder /\ \A d \in Commands \ {c} : ~Working(cmd[d])
  BY Zenon, CommandOK
<1>2. Holders' = Holders
  BY Zenon DEF Holders
<1>3. history' = InitHistory => OneHolder'
  BY Zenon, <1>1, <1>2 DEF OneHolder
<1>4. history' = InitHistory => Supervised'
  <2>1. cmd'[c] = k
    BY Zenon, <1>1
  <2> QED
    BY Zenon, <2>1 DEF Supervised
<1> QED
  BY ZenonT(60), <1>1, <1>2, <1>3, <1>4, CommandActs

(* The commands' writes to the registry and to launchd.                    *)
LEMMA WritesPreserve ==
  ASSUME RunInv, NEW c \in Commands,
         \/ Delete(c) \/ Reserve(c) \/ Rollback(c)
         \/ Bootstrap(c) \/ Register(c) \/ Unregister(c) \/ RemoveUnit(c)
  PROVE  RunInv'
<1> DEFINE v == cmd[c]
<1>1. Working(v) /\ UNCHANGED <<proc, defined>>
  BY Zenon DEF Delete, Reserve, Rollback, Bootstrap, Register, Unregister, RemoveUnit, At, Working
<1>2. /\ v \in Cmd /\ cmd \in [Commands -> Cmd] /\ ChildOK(v, proc) /\ history \in History
      /\ row \in Run \cup {NoRow} /\ RunOK(row, proc) /\ launchd \in Launchd
      /\ history = InitHistory =>
           /\ OneHolder /\ Orderly(v, row, launchd.loaded, Holders)
           /\ launchd.loaded => launchd.sup \/ v.pc \in {"register", "undo"}
  BY Zenon, <1>1, CommandOK
<1>3. v.pc \notin {"poll", "rollback"} => v.child = 0
  BY Zenon, <1>1, <1>2 DEF ChildOK, Working
<1>4. RunOK(NoRow, proc)
  BY Zenon DEF RunOK
<1>5. history = InitHistory => \A p \in Holders : (Live(p) /\ InSight(row, p)) \/ launchd.loaded
  BY Zenon, <1>2, HolderSeen
<1>6. CASE Delete(c)
  <2>1. /\ v.pc = "delete" /\ v.op \in Ops /\ DeleteRun(c) /\ Go(c, Absent(v.op))
        /\ UNCHANGED launchd
    BY ZenonT(60), <1>6 DEF Delete, At
  <2>2. /\ Absent(v.op) \in {"reserve", "restarted", "undefine", "failed", "done", "unit",
                             "removeUnit"}
    BY Zenon, <2>1 DEF Absent, Ops, Starts, Removes
  <2>3. PICK k \in Cmd :
          /\ cmd' = [cmd EXCEPT ![c] = k]
          /\ k.pc = Absent(v.op) /\ k.op = v.op /\ k.child = v.child
    BY SMTT(30), <1>1, <2>1, <2>2, Goes, StageNames
  <2>4. ChildOK(k, proc)
    BY Zenon, <1>3, <2>1, <2>2, <2>3 DEF ChildOK
  <2>5. /\ history' \in History /\ row' = NoRow
        /\ history' = InitHistory =>
             /\ history = InitHistory
             /\ ~(v.op \in Starts /\ LiveRun(row))
             /\ \A run \in {row, v.seen} : ~(run # NoRow /\ run.status = "starting")
    BY ZenonT(60), <1>2, <2>1 DEF DeleteRun, History, InitHistory
  <2>6. ASSUME history' = InitHistory, NEW p \in Holders PROVE FALSE
    <3>1. ~launchd.loaded /\ InSight(v.seen, p) /\ InSight(row, p) /\ Live(p)
      BY ZenonT(60), <1>2, <1>5, <2>1, <2>5, <2>6 DEF Orderly
    <3>2. row.owner = p /\ LiveRun(row) /\ v.seen.status # "starting"
      BY Zenon, <2>5, <2>6, <3>1 DEF InSight, LiveRun
    <3> QED
      BY ZenonT(60), <1>2, <2>1, <2>5, <2>6, <3>2 DEF Orderly
  <2>7. history' = InitHistory => Orderly(k, row', launchd'.loaded, Holders)
    BY ZenonT(60), <1>2, <2>1, <2>2, <2>3, <2>5, <2>6 DEF Orderly
  <2> QED
    BY ZenonT(60), <1>1, <1>2, <1>4, <2>1, <2>3, <2>4, <2>5, <2>6, <2>7, CommandWrites
<1>7. CASE Reserve(c)
  <2>1. /\ v.pc = "reserve" /\ UNCHANGED <<launchd, history>>
        /\ \/ row = NoRow /\ PutRun("starting", 0) /\ Go(c, "spawn")
           \/ UNCHANGED row /\ Go(c, "failed")
    BY ZenonT(60), <1>7 DEF Reserve, At
  <2>2. PICK k \in Cmd :
          /\ cmd' = [cmd EXCEPT ![c] = k]
          /\ k.op = v.op /\ k.child = v.child
          /\ \/ row = NoRow /\ PutRun("starting", 0) /\ k.pc = "spawn"
             \/ UNCHANGED row /\ k.pc = "failed"
    <3>1. PICK to \in {"spawn", "failed"} :
            /\ Go(c, to)
            /\ \/ row = NoRow /\ PutRun("starting", 0) /\ to = "spawn"
               \/ UNCHANGED row /\ to = "failed"
      BY Zenon, <2>1
    <3>2. PICK k \in Cmd : /\ cmd' = [cmd EXCEPT ![c] = k]
                           /\ k.pc = to /\ k.op = v.op /\ k.child = v.child
      BY <1>1, <3>1, Goes, StageNames
    <3> QED
      BY ZenonT(60), <3>1, <3>2
  <2>3. ChildOK(k, proc)
    BY Zenon, <1>3, <2>1, <2>2 DEF ChildOK
  <2>4. row' \in Run \cup {NoRow} /\ RunOK(row', proc)
    BY SMTT(30), <1>2, <2>2, RunRecordsAssumption DEF PutRun, Run, RunOK
  <2>5. history = InitHistory => ~launchd.loaded /\ (row = NoRow => Holders = {})
    BY Zenon, <1>2, <2>1, HolderSeen DEF Orderly
  <2>6. history = InitHistory => Orderly(k, row', launchd.loaded, Holders)
    BY ZenonT(60), <2>2, <2>5 DEF Orderly, PutRun
  <2> QED
    BY ZenonT(60), <1>1, <1>2, <2>1, <2>2, <2>3, <2>4, <2>5, <2>6, CommandWrites
<1>8. CASE Rollback(c)
  <2>1. v.pc = "rollback" /\ row' = NoRow /\ Go(c, "failed") /\ UNCHANGED <<launchd, history>>
    BY Zenon, <1>8 DEF Rollback, At
  <2>2. PICK k \in Cmd :
          /\ cmd' = [cmd EXCEPT ![c] = k]
          /\ k.pc = "failed" /\ k.op = v.op /\ k.child = v.child /\ k.killed = v.killed
    BY Zenon, <1>1, <2>1, Goes, StageNames
  <2>3. ChildOK(k, proc)
    BY Zenon, <1>2, <2>1, <2>2 DEF ChildOK
  <2>4. history = InitHistory => Holders = {} /\ ~launchd.loaded
    BY Zenon, <1>2, <2>1 DEF Orderly
  <2>5. Orderly(k, row', launchd.loaded, Holders)
    BY <2>2 DEF Orderly
  <2> QED
    BY ZenonT(60), <1>1, <1>2, <1>4, <2>1, <2>2, <2>3, <2>4, <2>5, CommandWrites
<1>9. CASE Bootstrap(c) \/ Register(c) \/ Unregister(c) \/ RemoveUnit(c)
  <2>1. /\ UNCHANGED <<row, history>>
        /\ v.pc \in {"unit", "register", "wait", "removeUnit"}
        /\ v.pc \in {"unit", "register"} => v.op = "install"
        /\ v.pc = "wait" => v.op = "uninstall"
    BY Zenon, <1>9 DEF Bootstrap, Register, Unregister, RemoveUnit, At
  <2>2. /\ launchd' \in Launchd
        /\ \/ v.pc = "unit" /\ launchd'.loaded /\ Go(c, "register")
           \/ /\ v.pc = "unit" /\ launchd'.loaded = launchd.loaded /\ launchd'.sup = launchd.sup
              /\ Go(c, "undo") \/ Go(c, "failed")
           \/ /\ v.pc = "register" /\ launchd'.loaded = launchd.loaded /\ launchd'.sup
              /\ Go(c, "waitReady")
           \/ v.pc = "register" /\ launchd'.loaded = launchd.loaded /\ Go(c, "undo")
           \/ v.pc = "wait" /\ launchd'.loaded = launchd.loaded /\ Go(c, "read")
           \/ /\ v.pc = "removeUnit" /\ launchd'.loaded = launchd.loaded
              /\ launchd'.sup = launchd.sup /\ Go(c, "done")
    BY ZenonT(60), <1>2, <1>9 DEF Bootstrap, Register, Unregister, RemoveUnit, At, Launchd
  <2>3. PICK k \in Cmd :
          /\ cmd' = [cmd EXCEPT ![c] = k] /\ k.op = v.op /\ k.child = v.child
          /\ \/ v.pc = "unit" /\ launchd'.loaded /\ k.pc = "register"
             \/ /\ v.pc = "unit" /\ launchd'.loaded = launchd.loaded /\ launchd'.sup = launchd.sup
                /\ k.pc \in {"undo", "failed"}
             \/ /\ v.pc = "register" /\ launchd'.loaded = launchd.loaded /\ launchd'.sup
                /\ k.pc = "waitReady"
             \/ v.pc = "register" /\ launchd'.loaded = launchd.loaded /\ k.pc = "undo"
             \/ v.pc = "wait" /\ launchd'.loaded = launchd.loaded /\ k.pc = "read"
             \/ /\ v.pc = "removeUnit" /\ launchd'.loaded = launchd.loaded
                /\ launchd'.sup = launchd.sup /\ k.pc = "done"
    <3>1. PICK to \in {"register", "undo", "failed", "waitReady", "read", "done"} :
            /\ Go(c, to)
            /\ \/ v.pc = "unit" /\ launchd'.loaded /\ to = "register"
               \/ /\ v.pc = "unit" /\ launchd'.loaded = launchd.loaded
                  /\ launchd'.sup = launchd.sup /\ to \in {"undo", "failed"}
               \/ /\ v.pc = "register" /\ launchd'.loaded = launchd.loaded /\ launchd'.sup
                  /\ to = "waitReady"
               \/ v.pc = "register" /\ launchd'.loaded = launchd.loaded /\ to = "undo"
               \/ v.pc = "wait" /\ launchd'.loaded = launchd.loaded /\ to = "read"
               \/ /\ v.pc = "removeUnit" /\ launchd'.loaded = launchd.loaded
                  /\ launchd'.sup = launchd.sup /\ to = "done"
      BY ZenonT(60), <2>2
    <3>2. PICK k \in Cmd : /\ cmd' = [cmd EXCEPT ![c] = k]
                           /\ k.pc = to /\ k.op = v.op /\ k.child = v.child
      BY <1>1, <3>1, Goes, StageNames
    <3> QED
      BY ZenonT(60), <3>1, <3>2
  <2>4. ChildOK(k, proc)
    BY Zenon, <1>3, <2>1, <2>3 DEF ChildOK
  <2>5. history = InitHistory =>
          /\ v.pc = "unit" => Holders = {} /\ ~launchd.loaded
          /\ v.pc = "wait" => ~launchd.loaded
    BY ZenonT(60), <1>2 DEF Orderly
  <2>6. history = InitHistory => Orderly(k, row', launchd'.loaded, Holders)
    BY Zenon, <2>1, <2>3, <2>5 DEF Orderly
  <2>7. history = InitHistory => (launchd'.loaded => launchd'.sup \/ k.pc \in {"register", "undo"})
    BY ZenonT(60), <1>2, <2>1, <2>3, <2>5
  <2> QED
    BY ZenonT(60), <1>1, <1>2, <2>1, <2>2, <2>3, <2>4, <2>5, <2>6, <2>7, CommandWrites
<1> QED
  BY Zenon, <1>6, <1>7, <1>8, <1>9


(* A command interrupts processes or kills one.                            *)
LEMMA CommandSignals ==
  ASSUME RunInv, NEW c \in Commands, NEW k \in Cmd, cmd' = [cmd EXCEPT ![c] = k],
         Working(cmd[c]), UNCHANGED <<row, defined>>, launchd' \in Launchd,
         proc' \in [Procs -> Proc], ChildOK(k, proc'), history' \in History,
         \A q \in Procs :
           \/ proc'[q] = proc[q]
           \/ /\ proc'[q] = [proc[q] EXCEPT !.intr = TRUE]
              /\ proc[q].pc # "unused"
           \/ proc'[q] = Dead(q),
         history' = InitHistory =>
           /\ history = InitHistory
           /\ launchd'.loaded = launchd.loaded \/ (~launchd'.loaded /\ proc' = Terminated)
           /\ launchd'.loaded => launchd'.sup \/ k.pc \in {"register", "undo"}
           /\ \A h \in SUBSET Holders :
                /\ h \subseteq {p \in Procs : Holding(proc'[p])}
                /\ ~launchd'.loaded => \A p \in h : InSight(row, p)
                => Orderly(k, row, launchd'.loaded, h)
  PROVE  RunInv'
<1>1. /\ proc \in [Procs -> Proc] /\ \A q \in Procs : Phase(proc[q])
      /\ row \in Run \cup {NoRow} /\ RunOK(row, proc)
      /\ cmd \in [Commands -> Cmd] /\ defined \in BOOLEAN /\ history \in History
      /\ history = InitHistory =>
           OneHolder /\ \A d \in Commands \ {c} : ~Working(cmd[d])
  BY Zenon, CommandOK
<1>2. ASSUME NEW q \in Procs
      PROVE  /\ proc'[q].served = proc[q].served
             /\ proc[q].pc = "dead" => proc'[q].pc = "dead"
             /\ Phase(proc'[q])
             /\ proc'[q].copy \in {proc[q].copy, NoRow}
             /\ proc'[q].rec # "idle" => proc'[q].rec = proc[q].rec /\ proc'[q].copy = proc[q].copy
             /\ Holding(proc'[q]) => Holding(proc[q]) /\ proc'[q].source = proc[q].source
  <2>1. proc[q] \in Proc /\ Phase(proc[q])
    BY Zenon, <1>1
  <2>2. CASE proc'[q] = [proc[q] EXCEPT !.intr = TRUE]
    <3>1. /\ proc'[q].served = proc[q].served /\ proc'[q].pc = proc[q].pc
          /\ proc'[q].copy = proc[q].copy /\ proc'[q].rec = proc[q].rec
          /\ proc'[q].source = proc[q].source /\ proc'[q].intr
      BY Zenon, <2>1, <2>2 DEF Proc
    <3> QED
      BY Zenon, <2>1, <3>1 DEF Phase, Holding
  <2>3. CASE proc'[q] = Dead(q)
    <3>1. /\ proc'[q].served = proc[q].served /\ proc'[q].pc = "dead"
          /\ proc'[q].copy = NoRow /\ proc'[q].rec = "idle"
      BY ZenonT(60), <2>1, <2>3 DEF Dead, NewProc
    <3> QED
      BY Zenon, <2>1, <3>1 DEF Phase, Holding
  <2> QED
    BY Zenon, <2>1, <2>2, <2>3
<1>3. RunOK(row', proc')
  <2>1. row # NoRow /\ row.owner # 0 => row.owner \in Procs
    BY <1>1, RunRecordsAssumption DEF Run, Procs
  <2> QED
    BY Zenon, <1>1, <1>2, <2>1 DEF RunOK
<1>4. Holders' \subseteq Holders
  BY Zenon, <1>2 DEF Holders
<1>5. ASSUME history' = InitHistory, NEW p \in Holders'
      PROVE  /\ Known(p, proc'[p], row, launchd'.loaded)
             /\ launchd'.loaded => proc'[p].source = "launchd"
  <2>1. /\ p \in Procs /\ p \in Holders /\ Holding(proc'[p])
        /\ proc'[p].source = proc[p].source /\ proc'[p].served = proc[p].served
    BY Zenon, <1>2, <1>4 DEF Holders
  <2>2. /\ Known(p, proc[p], row, launchd.loaded)
        /\ launchd.loaded => proc[p].source = "launchd"
    BY Zenon, <1>1, <1>5, <2>1 DEF OneHolder
  <2>3. CASE launchd'.loaded = launchd.loaded
    BY Zenon, <2>1, <2>2, <2>3 DEF Known
  <2>4. CASE ~launchd'.loaded /\ proc' = Terminated
    <3>1. ASSUME proc[p].source = "launchd", ~proc[p].served PROVE FALSE
      <4>1. Live(p) /\ proc[p] \in Proc /\ Phase(proc[p])
        BY Zenon, <1>1, <2>1 DEF Live, Holders, Holding
      <4>2. proc'[p] = [proc[p] EXCEPT !.intr = TRUE]
        BY Zenon, <2>1, <2>4, <3>1, <4>1 DEF Terminated
      <4>3. proc'[p].intr /\ proc'[p].pc = proc[p].pc
        BY Zenon, <4>1, <4>2 DEF Proc
      <4>4. proc[p].pc # "cleanupDelete"
        BY Zenon, <3>1, <4>1 DEF Phase
      <4> QED
        BY Zenon, <2>1, <3>1, <4>3, <4>4 DEF Holding
    <3> QED
      BY Zenon, <2>1, <2>2, <2>4, <3>1 DEF Known
  <2> QED
    BY Zenon, <1>5, <2>3, <2>4
<1>6. history' = InitHistory => OneHolder'
  <2>1. ASSUME history' = InitHistory PROVE \A p, q \in Holders' : p = q
    BY Zenon, <1>1, <1>4, <2>1 DEF OneHolder
  <2>2. ASSUME history' = InitHistory
        PROVE  \A p \in Procs : proc'[p].rec # "idle" => proc'[p].copy.owner = p
    BY Zenon, <1>1, <1>2, <2>2 DEF OneHolder
  <2> QED
    BY Zenon, <1>5, <2>1, <2>2 DEF OneHolder
<1>7. history' = InitHistory => Supervised'
  <2>1. cmd'[c] = k
    BY Zenon, <1>1
  <2> QED
    BY Zenon, <2>1 DEF Supervised
<1>8. history' = InitHistory => Orderly(k, row', launchd'.loaded, Holders')
  <2>1. NoRow # [status |-> "starting", owner |-> 0]
    BY RunRecordsAssumption DEF Run
  <2>2. history' = InitHistory /\ ~launchd'.loaded => \A p \in Holders' : InSight(row, p)
    BY <1>5, <2>1 DEF Known, InSight
  <2>3. Holders' = {p \in Procs : Holding(proc'[p])}
    BY Zenon DEF Holders
  <2> QED
    BY Zenon, <1>4, <2>2, <2>3
<1> QED
  BY <1>1, <1>2, <1>3, <1>6, <1>7, <1>8, CommandActs


(* The commands that end a process.                                        *)
LEMMA SignalsPreserve ==
  ASSUME RunInv, NEW c \in Commands,
         PollTimeout(c) \/ Signal(c) \/ Undo(c) \/ Bootout(c)
  PROVE  RunInv'
<1> DEFINE v == cmd[c]
<1>1. Working(v) /\ UNCHANGED <<row, defined>> /\ (UNCHANGED history \/ Undo(c))
  BY Zenon DEF PollTimeout, Signal, Undo, Bootout, At, Working
<1>2. /\ history \in History /\ v \in Cmd /\ cmd \in [Commands -> Cmd] /\ ChildOK(v, proc)
      /\ row \in Run \cup {NoRow} /\ launchd \in Launchd /\ proc \in [Procs -> Proc]
      /\ history = InitHistory =>
           /\ OneHolder /\ Orderly(v, row, launchd.loaded, Holders)
           /\ launchd.loaded => launchd.sup \/ v.pc \in {"register", "undo"}
  BY Zenon, <1>1, CommandOK
<1>3. v.pc \notin {"poll", "rollback"} => v.child = 0
  BY Zenon, <1>1, <1>2 DEF ChildOK, Working
<1>4. \A p \in Procs : Dead(p) \in Proc /\ Dead(p).pc = "dead"
  BY ZenonT(60), <1>2 DEF Dead, NewProc, Proc
<1>5. \A p \in Procs : [proc[p] EXCEPT !.intr = TRUE] \in Proc
  BY ZenonT(60), <1>2 DEF Proc
<1>6. CASE PollTimeout(c)
  <2>1. /\ v.pc = "poll" /\ UNCHANGED <<launchd, history>> /\ Go(c, "rollback")
        /\ proc' = [proc EXCEPT ![v.child] = Dead(v.child)]
    BY Zenon, <1>6 DEF PollTimeout, At, Step
  <2>2. v.child \in Procs
    BY <1>2, <2>1, RunRecordsAssumption DEF ChildOK, Cmd, Stages, Procs
  <2>3. PICK k \in Cmd :
          /\ cmd' = [cmd EXCEPT ![c] = k]
          /\ k.pc = "rollback" /\ k.op = v.op /\ k.child = v.child
    BY <1>1, <2>1, Goes, StageNames
  <2>4. /\ proc' \in [Procs -> Proc] /\ proc'[v.child] = Dead(v.child)
        /\ \A q \in Procs \ {v.child} : proc'[q] = proc[q]
    BY Zenon, <1>2, <1>4, <2>1, <2>2
  <2>5. ChildOK(k, proc')
    BY Zenon, <1>2, <1>4, <2>1, <2>2, <2>3, <2>4 DEF ChildOK
  <2>6. ~Holding(proc'[v.child])
    BY Zenon, <1>4, <2>2, <2>4 DEF Holding
  <2>7. ASSUME history = InitHistory, NEW h \in SUBSET Holders,
               h \subseteq {p \in Procs : Holding(proc'[p])}
        PROVE  Orderly(k, row, launchd'.loaded, h)
    <3>1. h = {} /\ ~launchd.loaded
      BY ZenonT(60), <1>2, <2>1, <2>6, <2>7 DEF Orderly
    <3> QED
      BY Zenon, <2>1, <2>3, <3>1 DEF Orderly
  <2> QED
    BY ZenonT(60), <1>1, <1>2, <2>1, <2>3, <2>4, <2>5, <2>7, CommandSignals
<1>7. CASE Signal(c)
  <2>1. /\ v.pc = "signal" /\ UNCHANGED <<launchd, history>>
        /\ \/ /\ Live(v.seen.owner)
              /\ proc' = [proc EXCEPT ![v.seen.owner].intr = TRUE]
              /\ Go(c, "done") \/ Go(c, "wait")
           \/ Go(c, "failed") /\ UNCHANGED proc
    BY Zenon, <1>7 DEF Signal, At
  <2>2. PICK k \in Cmd :
          /\ cmd' = [cmd EXCEPT ![c] = k]
          /\ k.pc \in {"done", "wait", "failed"} /\ k.op = v.op /\ k.child = v.child
          /\ k.pc = "wait" => k.seen = v.seen
    BY <1>1, <2>1, Goes, StageNames
  <2>3. /\ proc' \in [Procs -> Proc]
        /\ \A q \in Procs : \/ proc'[q] = proc[q]
                            \/ /\ proc'[q] = [proc[q] EXCEPT !.intr = TRUE]
                               /\ proc[q].pc # "unused"
    BY ZenonT(60), <1>2, <1>5, <2>1 DEF Live
  <2>4. ChildOK(k, proc')
    BY Zenon, <1>3, <2>1, <2>2 DEF ChildOK
  <2>5. ASSUME history = InitHistory, NEW h \in SUBSET Holders
        PROVE  Orderly(k, row, launchd'.loaded, h)
    BY Zenon, <1>2, <2>1, <2>2, <2>5 DEF Orderly
  <2> QED
    BY ZenonT(60), <1>1, <1>2, <2>1, <2>2, <2>3, <2>4, <2>5, CommandSignals
<1>8. proc' = Terminated =>
        /\ proc' \in [Procs -> Proc]
        /\ \A q \in Procs : \/ proc'[q] = proc[q]
                            \/ /\ proc'[q] = [proc[q] EXCEPT !.intr = TRUE]
                               /\ proc[q].pc # "unused"
  BY Zenon, <1>2, <1>5 DEF Terminated, Live
<1>9. CASE Undo(c)
  <2>1. PICK undone \in SUBSET DOMAIN launchd :
          /\ proc' = IF "loaded" \in undone THEN Terminated ELSE proc
          /\ launchd' = [f \in DOMAIN launchd |-> launchd[f] /\ f \notin undone]
    BY Zenon, <1>9 DEF Undo
  <2>2. v.pc = "undo" /\ Go(c, "failed")
    BY Zenon, <1>9 DEF Undo, At
  <2>3. DOMAIN launchd = {"file", "loaded", "sup"}
    BY SMT, <1>2 DEF Launchd
  <2>4. /\ launchd' \in [{"file", "loaded", "sup"} -> BOOLEAN]
        /\ "loaded" \in undone => ~launchd'.loaded
        /\ "loaded" \notin undone => launchd'.loaded = launchd.loaded
    BY Zenon, <1>2, <2>1, <2>3 DEF Launchd
  <2>5. launchd' \in Launchd
    BY Zenon, <2>1, <2>3, <2>4 DEF Launchd
  <2>6. /\ history' \in History
        /\ history' = InitHistory =>
             history = InitHistory /\ (launchd'.loaded => launchd'.sup)
    BY ZenonT(60), <1>2, <1>9 DEF Undo, History, InitHistory
  <2>7. PICK k \in Cmd :
          cmd' = [cmd EXCEPT ![c] = k] /\ k.pc = "failed" /\ k.op = v.op /\ k.child = v.child
    BY <1>1, <2>2, Goes, StageNames
  <2>8. ChildOK(k, proc')
    BY Zenon, <1>3, <2>2, <2>7 DEF ChildOK
  <2>9. \A h \in SUBSET Holders : Orderly(k, row, launchd'.loaded, h)
    BY Zenon, <2>7 DEF Orderly
  <2>10. CASE proc' = Terminated /\ ~launchd'.loaded
    BY ZenonT(60), <1>1, <1>8, <2>5, <2>6, <2>7, <2>8, <2>9, <2>10, CommandSignals
  <2>11. CASE proc' = proc /\ launchd'.loaded = launchd.loaded
    BY ZenonT(60), <1>1, <1>2, <2>5, <2>6, <2>7, <2>8, <2>9, <2>11, CommandSignals
  <2> QED
    BY Zenon, <2>1, <2>4, <2>10, <2>11
<1>10. CASE Bootout(c)
  <2>0. v.pc = "bootout" /\ UNCHANGED history
    BY Zenon, <1>10 DEF Bootout, At
  <2>1. CASE Go(c, "failed") /\ UNCHANGED <<proc, launchd>>
    <3>1. PICK k \in Cmd :
            cmd' = [cmd EXCEPT ![c] = k] /\ k.pc = "failed" /\ k.op = v.op /\ k.child = v.child
      BY <1>1, <2>1, Goes, StageNames
    <3>2. ChildOK(k, proc) /\ Orderly(k, row, launchd.loaded, Holders)
      BY Zenon, <1>3, <2>0, <3>1 DEF ChildOK, Orderly
    <3>3. defined' \in BOOLEAN
      BY Zenon, <1>1, CommandOK
    <3> QED
      BY ZenonT(60), <1>1, <1>2, <2>0, <2>1, <3>1, <3>2, <3>3, CommandGoes
  <2>2. CASE /\ proc' = Terminated
             /\ launchd' = [launchd EXCEPT !.loaded = FALSE]
             /\ cmd' = [cmd EXCEPT ![c].pc = "wait", ![c].seen = row]
    <3> DEFINE k == [v EXCEPT !.pc = "wait", !.seen = row]
    <3>1. launchd' \in Launchd /\ ~launchd'.loaded /\ cmd' = [cmd EXCEPT ![c] = k]
      BY ZenonT(60), <1>2, <2>2 DEF Launchd
    <3>2. k \in Cmd /\ k.pc = "wait" /\ k.seen = row /\ k.op = v.op /\ k.child = v.child
      BY ZenonT(60), <1>2 DEF Cmd, Stages
    <3> HIDE DEF k
    <3>3. ChildOK(k, proc')
      BY Zenon, <1>3, <2>0, <3>2 DEF ChildOK
    <3>4. ASSUME NEW h \in SUBSET Holders, \A p \in h : InSight(row, p)
          PROVE  Orderly(k, row, launchd'.loaded, h)
      BY Zenon, <3>1, <3>2, <3>4 DEF Orderly
    <3> QED
      BY ZenonT(60), <1>1, <1>2, <1>8, <2>0, <2>2, <3>1, <3>2, <3>3, <3>4, CommandSignals
  <2> QED
    BY Zenon, <1>10, <2>1, <2>2 DEF Bootout
<1> QED
  BY Zenon, <1>6, <1>7, <1>9, <1>10

(* The spawned process is the only holder of the reservation.              *)
LEMMA SpawnPreserves ==
  ASSUME RunInv, NEW c \in Commands, Spawn(c)
  PROVE  RunInv'
<1> DEFINE v == cmd[c]
<1>1. /\ Working(v) /\ v.pc = "spawn" /\ v.op \in {"start", "foreground"}
      /\ UNCHANGED <<row, defined, launchd, history>>
  BY Zenon DEF Spawn, At, Working
<1>2. /\ v \in Cmd /\ cmd \in [Commands -> Cmd] /\ ChildOK(v, proc)
      /\ row \in Run \cup {NoRow} /\ launchd \in Launchd /\ proc \in [Procs -> Proc]
      /\ defined \in BOOLEAN /\ history \in History
      /\ \A q \in Procs : Phase(proc[q])
      /\ history = InitHistory =>
           /\ OneHolder /\ Orderly(v, row, launchd.loaded, Holders)
           /\ launchd.loaded => launchd.sup \/ v.pc \in {"register", "undo"}
           /\ \A d \in Commands \ {c} : ~Working(cmd[d])
  BY Zenon, <1>1, CommandOK
<1>3. history = InitHistory =>
        Holders = {} /\ ~launchd.loaded /\ row = [status |-> "starting", owner |-> 0]
  BY Zenon, <1>1, <1>2 DEF Orderly
<1>4. CASE Go(c, "rollback") /\ UNCHANGED proc
  <2>1. PICK k \in Cmd :
          cmd' = [cmd EXCEPT ![c] = k] /\ k.pc = "rollback" /\ k.op = v.op /\ k.child = v.child
    BY <1>1, <1>4, Goes, StageNames
  <2>2. ChildOK(k, proc)
    BY Zenon, <1>1, <1>2, <2>1 DEF ChildOK
  <2>3. history = InitHistory => Orderly(k, row, launchd.loaded, Holders)
    BY Zenon, <1>3, <2>1 DEF Orderly
  <2> QED
    BY ZenonT(60), <1>1, <1>2, <1>4, <2>1, <2>2, <2>3, CommandGoes
<1>5. ASSUME NEW p \in Procs, Spawnable(p),
             cmd' = [cmd EXCEPT ![c].child = p, ![c].pc = IF v.op = "start" THEN "poll" ELSE "done"],
             proc' = [proc EXCEPT ![p] =
                         Booting(IF v.op = "start" THEN "detached" ELSE "foreground")]
      PROVE  RunInv'
  <2> DEFINE k == [v EXCEPT !.child = p, !.pc = IF v.op = "start" THEN "poll" ELSE "done"]
             source == IF v.op = "start" THEN "detached" ELSE "foreground"
             w == Booting(source)
  <2>1. p \in 0..MaxProcs /\ p # 0
    BY RunRecordsAssumption DEF Procs
  <2>2. /\ k \in Cmd /\ k.child = p /\ k.op = v.op
        /\ v.op = "start" => k.pc = "poll"
        /\ v.op # "start" => k.pc = "done"
    BY ZenonT(60), <1>2, <2>1 DEF Cmd, Stages
  <2>3. cmd' = [cmd EXCEPT ![c] = k]
    BY ZenonT(60), <1>2, <1>5
  <2>4. source \in {"foreground", "detached", "launchd"} /\ source # "launchd"
    OBVIOUS
  <2>5. /\ proc' \in [Procs -> Proc] /\ proc'[p] = w
        /\ \A q \in Procs \ {p} : proc'[q] = proc[q]
        /\ w.source # "launchd" /\ ~w.served /\ w.rec = "idle" /\ w.copy = NoRow
        /\ \A q \in Procs : Phase(proc'[q])
        /\ RunOK(row, proc')
        /\ Holders' \subseteq Holders \cup {p}
    BY ZenonT(60), <1>5, <2>4, RuntimeStarts
  <2> HIDE DEF k, w, source
  <2>6. ChildOK(k, proc')
    BY Zenon, <1>1, <2>1, <2>2 DEF ChildOK
  <2>7. proc[p].pc = "unused" /\ ~proc[p].served
    BY Zenon, <1>2, <1>5 DEF Spawnable, Phase
  <2>8. ASSUME history = InitHistory
        PROVE  OneHolder' /\ Supervised' /\ Orderly(k, row', launchd'.loaded, Holders')
    <3>1. Holders' \subseteq {p} /\ ~launchd'.loaded
      BY Zenon, <1>1, <1>3, <2>5, <2>8
    <3>2. Known(p, proc'[p], row', launchd'.loaded)
      BY Zenon, <1>1, <1>3, <2>5, <2>8 DEF Known
    <3>3. \A q \in Procs : proc'[q].rec # "idle" => proc'[q].copy.owner = q
      BY Zenon, <1>2, <2>5, <2>8 DEF OneHolder
    <3>4. OneHolder'
      BY Zenon, <3>1, <3>2, <3>3 DEF OneHolder
    <3>5. Supervised'
      BY Zenon, <3>1 DEF Supervised
    <3>6. Orderly(k, row', launchd'.loaded, Holders')
      BY Zenon, <1>1, <2>2, <3>1 DEF Orderly
    <3> QED
      BY Zenon, <3>4, <3>5, <3>6
  <2>9. \A q \in Procs : /\ proc[q].served => proc'[q].served
                         /\ proc[q].pc = "dead" => proc'[q].pc = "dead"
                         /\ proc'[q].copy \in {proc[q].copy, NoRow}
    BY Zenon, <2>5, <2>7
  <2> QED
    BY ZenonT(60), <1>1, <1>2, <2>2, <2>3, <2>5, <2>6, <2>8, <2>9, CommandActs
<1> QED
  BY ZenonT(60), <1>4, <1>5 DEF Spawn

-----------------------------------------------------------------------------
(* Every step preserves the invariant.                                     *)
LEMMA RunPreserves == RunInv /\ [Next]_vars => RunInv'
<1> SUFFICES ASSUME RunInv, [Next]_vars PROVE RunInv'
  OBVIOUS
<1>1. CASE UNCHANGED vars
  BY Zenon, <1>1 DEF vars, RunInv, Sound, Types, Exclusive, Alone, OneHolder, Supervised, Holders
<1>2. ASSUME NEW p \in Procs, KeepAlive(p) PROVE RunInv'
  BY Zenon, <1>2, LaunchdPreserves
<1>3. ASSUME NEW p \in Procs,
             \/ Boot(p) \/ Listen(p) \/ Ready(p) \/ StartScopeSync(p) \/ Maintain(p)
             \/ SetRunStatusRead(p) \/ SetRunStatusWrite(p) \/ Stopped(p) \/ Close(p)
             \/ CleanupRead(p) \/ CleanupDelete(p) \/ CtrlC(p) \/ Crash(p)
      PROVE  RunInv'
  BY Zenon, <1>3, RuntimePreserves
<1>4. ASSUME NEW c \in Commands, NEW op \in Ops, Begin(c, op) PROVE RunInv'
  BY Zenon, <1>4, BeginPreserves
<1>5. ASSUME NEW c \in Commands,
             \/ Definition(c) \/ Supervisor(c) \/ CheckStart(c) \/ Check(c) \/ CheckStale(c)
             \/ StopCheck(c) \/ Ended(c) \/ WaitTimeout(c) \/ Undefine(c) \/ WaitReady(c)
      PROVE  RunInv'
  BY Zenon, <1>5, DecisionsPreserve
<1>6. ASSUME NEW c \in Commands, Read(c) \/ StopRead(c) \/ Restarted(c) \/ Kill(c) \/ Poll(c)
      PROVE  RunInv'
  BY Zenon, <1>6, ReadsPreserve
<1>7. ASSUME NEW c \in Commands,
             \/ Delete(c) \/ Reserve(c) \/ Rollback(c)
             \/ Bootstrap(c) \/ Register(c) \/ Unregister(c) \/ RemoveUnit(c)
      PROVE  RunInv'
  BY Zenon, <1>7, WritesPreserve
<1>8. ASSUME NEW c \in Commands, PollTimeout(c) \/ Signal(c) \/ Undo(c) \/ Bootout(c)
      PROVE  RunInv'
  BY Zenon, <1>8, SignalsPreserve
<1>9. ASSUME NEW c \in Commands, Spawn(c) PROVE RunInv'
  BY Zenon, <1>9, SpawnPreserves
<1> QED
  BY Zenon, <1>1, <1>2, <1>3, <1>4, <1>5, <1>6, <1>7, <1>8, <1>9 DEF Next

(* The invariant holds throughout.                                         *)
LEMMA RunInvariance == Spec => []RunInv
BY RunStarts, RunPreserves, PTL DEF Spec

(* RegistryTracksRuntime: as long as commands follow one another, none     *)
(* deletes the record of a runtime that starts or lives, and none leaves a *)
(* service loaded without its supervisor record, at most one process       *)
(* serves the Pipe and the run record names it, for any number of commands *)
(* and processes, whatever crashes, is killed or is restarted by launchd.  *)
THEOREM RegistryIsRight == Spec => []RegistryTracksRuntime
<1>1. ASSUME RunInv PROVE TypeOK
  <2>1. Types
    BY Zenon, <1>1 DEF RunInv, Sound
  <2>2. {history[h] : h \in DOMAIN history} \subseteq BOOLEAN
    BY Zenon, <2>1 DEF Types, History
  <2> QED
    BY Zenon, <2>1, <2>2 DEF TypeOK, Types, Launchd, Cmd, Stages
<1>2. ASSUME RunInv, history = InitHistory, NEW p \in Procs, Serving(p)
      PROVE  row # NoRow /\ row.owner = p
  <2>1. Phase(proc[p]) /\ OneHolder
    BY Zenon, <1>2 DEF RunInv, Sound, Exclusive
  <2>2. proc[p].served /\ p \in Holders
    BY Zenon, <1>2, <2>1 DEF Phase, Serving, Holders, Holding
  <2> QED
    BY Zenon, <2>1, <2>2 DEF OneHolder, Known
<1>3. RunInv => RegistryTracksRuntime
  BY Zenon, <1>1, <1>2 DEF RegistryTracksRuntime
<1> QED
  BY <1>3, RunInvariance, PTL

(* DetachedStartIsHonest: however commands and runtimes overlap, start -d  *)
(* and restart report success only for a child that has been ready, and    *)
(* failure only for one that is dead.                                      *)
THEOREM DetachedStartsAreHonest == Spec => []DetachedStartIsHonest
<1>1. RunInv => DetachedStartIsHonest
  BY Zenon DEF RunInv, Sound, ChildOK, DetachedStartIsHonest
<1> QED
  BY <1>1, RunInvariance, PTL

=============================================================================
