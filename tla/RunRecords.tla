----------------------------- MODULE RunRecords -----------------------------
(***************************************************************************)
(* The run record of one Pipe and the processes that serve it.             *)
(*                                                                         *)
(* The registry holds at most one record per Pipe: what is running, under  *)
(* which process, and whether it is ready.  It is all that start, stop,    *)
(* restart, rm and supervise know of a runtime, and each of them reads it, *)
(* asks the system whether its process is alive, and acts on the answer in *)
(* a later step.  The runtime writes it as well, on its own.               *)
(*                                                                         *)
(* Processes are numbers, 0 is none.  The number of a process stands for   *)
(* its process identity (PID, start time and command line), which is never *)
(* reused.  A local Pipe listens on a fixed port.                          *)
(***************************************************************************)
EXTENDS Naturals, FiniteSets

CONSTANTS
    Commands,   \* command invocations
    MaxProcs,   \* bound: runtime processes ever started
    NoRow       \* no run record

Procs == 1..MaxProcs

Run == [status: {"starting", "ready", "degraded", "stopped"}, owner: 0..MaxProcs]

ASSUME RunRecordsAssumption ==
    /\ MaxProcs \in Nat \ {0}
    /\ NoRow \notin Run

VARIABLES
    row,        \* table runs: the record of the Pipe
    defined,    \* table pipes: the Pipe is defined
    ingress,    \* its ingress, "tubo" or "local"
    launchd,    \* [file: unit file, loaded: bootstrapped, sup: table supervisors]
    proc,       \* process -> its program counter and local variables
    cmd,        \* command -> its program counter and local variables
    history     \* what happened: see InitHistory

vars == <<row, defined, ingress, launchd, proc, cmd, history>>

\* source: foreground, detached or launchd.  intr: it was sent SIGINT or
\* SIGTERM.  status: of the runtime's own copy of the record.  rec and copy: the
\* relay recovery goroutine of a local Pipe, and the record it has read.
\* served: it has been ready.
NewProc == [pc |-> "unused", source |-> "none", intr |-> FALSE, status |-> "ready",
            rec |-> "idle", copy |-> NoRow, served |-> FALSE]

\* seen: the record it has read.  child: the process it has started.
\* killed: it was killed itself.
Idle == [op |-> "none", pc |-> "idle", seen |-> NoRow, child |-> 0, killed |-> FALSE]

\* overlap: a command was given while another was at work.
\* booting: a command deleted the record of a runtime that is or was starting.
\* passed: a start deleted the record of a live process.
\* orphan: supervise was killed, or could not undo what it had done.
InitHistory == [overlap |-> FALSE, booting |-> FALSE, passed |-> FALSE, orphan |-> FALSE]

Init ==
    /\ row = NoRow
    /\ defined = TRUE
    /\ ingress \in {"tubo", "local"}
    /\ launchd = [file |-> FALSE, loaded |-> FALSE, sup |-> FALSE]
    /\ proc = [p \in Procs |-> NewProc]
    /\ cmd = [c \in Commands |-> Idle]
    /\ history = InitHistory

\* Store.ProcessIdentity: a process is there.  0 is "invalid pid".
Live(p) == p \in Procs /\ proc[p].pc \notin {"unused", "dead"}

\* The record that was read is of a live process.
LiveRun(run) == run # NoRow /\ Live(run.owner)

\* It has recorded "ready" and is not yet shutting down.
Serving(p) == proc[p].pc \in {"ready", "serving"}

Spawnable(p) == proc[p].pc = "unused" /\ \A q \in Procs : q < p => proc[q].pc # "unused"

Booting(source) == [NewProc EXCEPT !.pc = "boot", !.source = source]

-----------------------------------------------------------------------------
(* The runtime: runtime.RunPipe.                                           *)

\* What is left of a process that has ended.
Dead(p) == [NewProc EXCEPT !.pc = "dead", !.served = proc[p].served]

Step(p, pc) ==
    proc' = [proc EXCEPT ![p] = IF pc = "dead" THEN Dead(p) ELSE [@ EXCEPT !.pc = pc]]

\* RunPipe returns before the record was written.  A foreground start goes on
\* with cleanupStarting.
Leave(p) == Step(p, IF proc[p].source = "foreground" THEN "cleanup" ELSE "dead")

\* The definition is read; then the host is opened and the relay connected,
\* which may fail.
Boot(p) ==
    /\ proc[p].pc = "boot"
    /\ \/ defined /\ ~proc[p].intr /\ Step(p, "open")
       \/ Leave(p)
    /\ UNCHANGED <<row, defined, ingress, launchd, cmd, history>>

\* net.Listen of a local Pipe.
Listen(p) ==
    LET bound == {q \in Procs : proc[q].pc \in {"bound", "ready", "serving", "closing"}}
    IN  /\ proc[p].pc = "open"
        /\ \/ (ingress = "local" => bound = {}) /\ ~proc[p].intr /\ Step(p, "bound")
           \/ Leave(p)
        /\ UNCHANGED <<row, defined, ingress, launchd, cmd, history>>

\* Store.PutRun: an upsert.
PutRun(status, owner) == row' = [status |-> status, owner |-> owner]

\* "ready" is recorded.  Interrupted, it fails on the cancelled context.
Ready(p) ==
    /\ proc[p].pc = "bound"
    /\ \/ /\ ~proc[p].intr
          /\ PutRun("ready", p)
          /\ proc' = [proc EXCEPT ![p].pc = "ready", ![p].served = TRUE]
       \/ proc[p].intr /\ Leave(p) /\ UNCHANGED row
    /\ UNCHANGED <<defined, ingress, launchd, cmd, history>>

\* StartScopeSync of a scoped Pipe needs the record, and ends the runtime
\* when it is gone; other Pipes do without.
StartScopeSync(p) ==
    /\ proc[p].pc = "ready"
    /\ \/ Step(p, "serving") /\ UNCHANGED row
       \/ /\ row = NoRow
          /\ PutRun("stopped", p)
          /\ Step(p, "closing")
    /\ UNCHANGED <<defined, ingress, launchd, cmd, history>>

\* publishedPipeLifecycle: the outcome of relay maintenance is recorded from
\* the runtime's own copy, whatever the registry holds.
Maintain(p) ==
    /\ proc[p].pc = "serving"
    /\ ingress = "tubo"
    /\ \E status \in {"ready", "degraded"} :
          /\ PutRun(status, p)
          /\ proc' = [proc EXCEPT ![p].status = status]
    /\ UNCHANGED <<defined, ingress, launchd, cmd, history>>

\* setRunStatus, called by startRelayRecovery and by the connections of a local
\* Pipe, one at a time: it reads the record of the Pipe, whoever's it is, ...
SetRunStatusRead(p) ==
    /\ Serving(p) \/ proc[p].pc = "closing"
    /\ ingress = "local"
    /\ proc[p].rec = "idle"
    /\ \E status \in {"ready", "degraded"} :
          /\ row # NoRow /\ row.status # status
          /\ proc' = [proc EXCEPT ![p].copy = row, ![p].rec = status]
    /\ UNCHANGED <<row, defined, ingress, launchd, cmd, history>>

\* ... and writes it back with the new status.
SetRunStatusWrite(p) ==
    /\ Live(p)
    /\ proc[p].rec # "idle"
    /\ PutRun(proc[p].rec, proc[p].copy.owner)
    /\ proc' = [proc EXCEPT ![p].rec = "idle", ![p].copy = NoRow]
    /\ UNCHANGED <<defined, ingress, launchd, cmd, history>>

\* Interrupted, the runtime records "stopped" ...
Stopped(p) ==
    /\ Serving(p) /\ proc[p].intr
    /\ PutRun("stopped", p)
    /\ Step(p, "closing")
    /\ UNCHANGED <<defined, ingress, launchd, cmd, history>>

\* ... and then stops relay recovery, closes the listener and the host.
Close(p) ==
    /\ proc[p].pc = "closing" /\ proc[p].rec = "idle"
    /\ Leave(p)
    /\ UNCHANGED <<row, defined, ingress, launchd, cmd, history>>

\* cleanupStarting reads the record, unless its context is cancelled, ...
CleanupRead(p) ==
    /\ proc[p].pc = "cleanup"
    /\ Step(p, IF ~proc[p].intr /\ row # NoRow /\ row.status = "starting"
               THEN "cleanupDelete" ELSE "dead")
    /\ UNCHANGED <<row, defined, ingress, launchd, cmd, history>>

\* ... and deletes one that says "starting".
CleanupDelete(p) ==
    /\ proc[p].pc = "cleanupDelete"
    /\ row' = NoRow
    /\ Step(p, "dead")
    /\ UNCHANGED <<defined, ingress, launchd, cmd, history>>

\* Ctrl-C in the terminal of a foreground start.
CtrlC(p) ==
    /\ Live(p) /\ proc[p].source = "foreground" /\ ~proc[p].intr
    /\ proc' = [proc EXCEPT ![p].intr = TRUE]
    /\ UNCHANGED <<row, defined, ingress, launchd, cmd, history>>

Crash(p) ==
    /\ Live(p)
    /\ Step(p, "dead")
    /\ UNCHANGED <<row, defined, ingress, launchd, cmd, history>>

\* launchd (external): RunAtLoad and KeepAlive of the plist.
KeepAlive(p) ==
    /\ launchd.loaded
    /\ \A q \in Procs : Live(q) => proc[q].source # "launchd"
    /\ Spawnable(p)
    /\ proc' = [proc EXCEPT ![p] = Booting("launchd")]
    /\ UNCHANGED <<row, defined, ingress, launchd, cmd, history>>

-----------------------------------------------------------------------------
(* Commands.  Reading the record, asking for its process and acting on the *)
(* answer are steps of their own.                                          *)

Active(c) == cmd[c].pc \notin {"idle", "done", "failed"}

Go(c, pc) ==
    cmd' = [cmd EXCEPT ![c].pc = pc, ![c].seen = IF pc \in {"done", "failed"} THEN NoRow ELSE @]

At(c, pc, ops) == cmd[c].pc = pc /\ cmd[c].op \in ops

\* start -d, start, stop, restart, rm, rm --force, rm --stale, supervise.
Starts == {"start", "foreground", "restart"}
Removes == {"rm", "rmForce"}
Ops == Starts \cup Removes \cup {"stop", "stale", "install", "uninstall"}

Begin(c, op) ==
    /\ cmd[c].pc = "idle"
    /\ cmd' = [cmd EXCEPT ![c].op = op, ![c].pc =
                  CASE op = "restart" \/ op = "install" -> "definition"
                    [] op = "stale" -> "read"
                    [] OTHER -> "supervisor"]
    /\ history' = [history EXCEPT !.overlap = @ \/ \E d \in Commands : Active(d)]
    /\ UNCHANGED <<row, defined, ingress, launchd, proc>>

\* The process of the command is killed.
Kill(c) ==
    /\ Active(c)
    /\ cmd' = [cmd EXCEPT ![c].pc = "failed", ![c].seen = NoRow, ![c].killed = TRUE]
    /\ history' = [history EXCEPT !.orphan = @ \/ cmd[c].op \in {"install", "uninstall"}]
    /\ UNCHANGED <<row, defined, ingress, launchd, proc>>

\* restart and install look the Pipe up.
Definition(c) ==
    /\ At(c, "definition", Ops)
    /\ Go(c, IF defined THEN "supervisor" ELSE "failed")
    /\ UNCHANGED <<row, defined, ingress, launchd, proc, history>>

\* supervisorAllowsCurrentSource, or the lookup of supervise and rm --stale.
Supervisor(c) ==
    /\ At(c, "supervisor", Ops)
    /\ Go(c, IF launchd.sup = (cmd[c].op = "uninstall")
             THEN (CASE cmd[c].op = "uninstall" -> "bootout"
                     [] cmd[c].op = "stale" -> "check"
                     [] OTHER -> "read")
             ELSE IF cmd[c].op = "stale" THEN "done" ELSE "failed")
    /\ UNCHANGED <<row, defined, ingress, launchd, proc, history>>

\* What a command does when there is no record, or it was deleted.
Absent(op) ==
    CASE op \in {"start", "foreground"} -> "reserve"
      [] op = "restart" -> "restarted"
      [] op \in Removes -> "undefine"
      [] op = "stop" -> "failed"
      [] op = "stale" -> "done"
      [] op = "install" -> "unit"
      [] op = "uninstall" -> "removeUnit"

\* Store.Run.
Read(c) ==
    /\ At(c, "read", Ops)
    /\ cmd' = [cmd EXCEPT ![c].seen = row, ![c].pc =
                  IF row = NoRow THEN Absent(cmd[c].op)
                  ELSE IF cmd[c].op = "stale" THEN "supervisor" ELSE "check"]
    /\ UNCHANGED <<row, defined, ingress, launchd, proc, history>>

\* startDetached and reserveForeground: only "ready" is asked for its process,
\* "starting" is a conflict, any other record is deleted.
StartDecision(op, seen) ==
    IF seen.status = "ready" /\ LiveRun(seen)
    THEN IF op = "start" THEN "done" ELSE "failed"
    ELSE IF seen.status = "starting" THEN "failed" ELSE "delete"

CheckStart(c) ==
    /\ At(c, "check", {"start", "foreground"})
    /\ Go(c, StartDecision(cmd[c].op, cmd[c].seen))
    /\ UNCHANGED <<row, defined, ingress, launchd, proc, history>>

\* stop, restart, rm, rm --force, supervise: is the recorded process alive?
Check(c) ==
    /\ At(c, "check", {"stop", "restart", "install", "uninstall"} \cup Removes)
    /\ Go(c, IF LiveRun(cmd[c].seen)
             THEN (CASE cmd[c].op = "stop" -> "signal"
                     [] cmd[c].op \in {"restart", "rmForce"} -> "stopRead"
                     [] cmd[c].op \in {"rm", "install"} -> "failed"
                     [] cmd[c].op = "uninstall" -> "removeUnit")
             ELSE IF cmd[c].op = "stop" THEN "failed" ELSE "delete")
    /\ UNCHANGED <<row, defined, ingress, launchd, proc, history>>

\* staleRuns: a dead process, or no process and not updated for 30 seconds.
CheckStale(c) ==
    /\ At(c, "check", {"stale"})
    /\ \/ ~LiveRun(cmd[c].seen) /\ Go(c, "delete")
       \/ (cmd[c].seen.owner = 0 \/ LiveRun(cmd[c].seen)) /\ Go(c, "done")
    /\ UNCHANGED <<row, defined, ingress, launchd, proc, history>>

\* Store.DeleteRun deletes the record, whatever it is by now.
DeleteRun(c) ==
    /\ row' = NoRow
    /\ history' = [history EXCEPT
           !.passed = @ \/ (cmd[c].op \in Starts /\ LiveRun(row)),
           !.booting = @ \/ \E run \in {row, cmd[c].seen} :
                                run # NoRow /\ run.status = "starting"]

Delete(c) ==
    /\ At(c, "delete", Ops)
    /\ DeleteRun(c)
    /\ Go(c, Absent(cmd[c].op))
    /\ UNCHANGED <<defined, ingress, launchd, proc>>

\* Store.ReserveRun: an INSERT that the primary key guards.
Reserve(c) ==
    /\ At(c, "reserve", {"start", "foreground"})
    /\ IF row = NoRow
         THEN PutRun("starting", 0) /\ Go(c, "spawn")
         ELSE UNCHANGED row /\ Go(c, "failed")
    /\ UNCHANGED <<defined, ingress, launchd, proc, history>>

\* startDetached starts the child; a foreground start becomes the runtime.
Spawn(c) ==
    /\ At(c, "spawn", {"start", "foreground"})
    /\ \/ \E p \in Procs :
             /\ Spawnable(p)
             /\ cmd' = [cmd EXCEPT ![c].child = p,
                           ![c].pc = IF cmd[c].op = "start" THEN "poll" ELSE "done"]
             /\ proc' = [proc EXCEPT ![p] =
                    Booting(IF cmd[c].op = "start" THEN "detached" ELSE "foreground")]
       \/ cmd[c].op = "start" /\ Go(c, "rollback") /\ UNCHANGED proc
    /\ UNCHANGED <<row, defined, ingress, launchd, history>>

\* The record shows the child ready.
Poll(c) ==
    /\ At(c, "poll", {"start"})
    /\ row = [status |-> "ready", owner |-> cmd[c].child]
    /\ Go(c, "done")
    /\ UNCHANGED <<row, defined, ingress, launchd, proc, history>>

\* (mutant: the child is left alone)
PollTimeout_LeavesChild(c) ==
    /\ At(c, "poll", {"start"})
    /\ Go(c, "rollback")
    /\ UNCHANGED <<row, defined, ingress, launchd, proc, history>>

\* The deadline has passed: the child is killed and waited for.
PollTimeout(c) ==
    /\ At(c, "poll", {"start"})
    /\ Step(cmd[c].child, "dead")
    /\ Go(c, "rollback")
    /\ UNCHANGED <<row, defined, ingress, launchd, history>>

\* The deferred DeleteRun.
Rollback(c) ==
    /\ At(c, "rollback", {"start"})
    /\ row' = NoRow
    /\ Go(c, "failed")
    /\ UNCHANGED <<defined, ingress, launchd, proc, history>>

\* restart goes on as start -d.
Restarted(c) ==
    /\ At(c, "restarted", {"restart"})
    /\ cmd' = [cmd EXCEPT ![c].op = "start", ![c].pc = "supervisor"]
    /\ UNCHANGED <<row, defined, ingress, launchd, proc, history>>

-----------------------------------------------------------------------------
(* stop and stopRunAndWait.                                                *)

\* stopRunAndWait reads the record again ...
StopRead(c) ==
    /\ At(c, "stopRead", Ops)
    /\ cmd' = [cmd EXCEPT ![c].seen = row, ![c].pc = IF row = NoRow THEN "failed" ELSE "stopCheck"]
    /\ UNCHANGED <<row, defined, ingress, launchd, proc, history>>

\* ... and its process ...
StopCheck(c) ==
    /\ At(c, "stopCheck", Ops)
    /\ Go(c, IF LiveRun(cmd[c].seen) THEN "signal" ELSE "failed")
    /\ UNCHANGED <<row, defined, ingress, launchd, proc, history>>

\* ... and, like stop, sends it SIGINT.
Signal(c) ==
    LET p == cmd[c].seen.owner
    IN  /\ At(c, "signal", Ops)
        /\ IF Live(p)
             THEN /\ proc' = [proc EXCEPT ![p].intr = TRUE]
                  /\ Go(c, IF cmd[c].op = "stop" THEN "done" ELSE "wait")
             ELSE Go(c, "failed") /\ UNCHANGED proc
        /\ UNCHANGED <<row, defined, ingress, launchd, history>>

\* (mutant: it does not wait)
Ended_NoWait(c) ==
    /\ At(c, "wait", {"restart", "rmForce"})
    /\ Go(c, "delete")
    /\ UNCHANGED <<row, defined, ingress, launchd, proc, history>>

\* It waits for the process to end, and deletes the record ...
Ended(c) ==
    /\ At(c, "wait", {"restart", "rmForce"})
    /\ ~LiveRun(cmd[c].seen)
    /\ Go(c, "delete")
    /\ UNCHANGED <<row, defined, ingress, launchd, proc, history>>

\* ... or gives up after 15 seconds.
WaitTimeout(c) ==
    /\ At(c, "wait", Ops)
    /\ LiveRun(cmd[c].seen)
    /\ Go(c, "failed")
    /\ history' = [history EXCEPT !.orphan = @ \/ cmd[c].op = "uninstall"]
    /\ UNCHANGED <<row, defined, ingress, launchd, proc>>

\* rm: Store.DeletePipe.
Undefine(c) ==
    /\ At(c, "undefine", Removes)
    /\ defined' = FALSE
    /\ Go(c, IF defined THEN "done" ELSE "failed")
    /\ UNCHANGED <<row, ingress, launchd, proc, history>>

-----------------------------------------------------------------------------
(* supervise install and uninstall.                                        *)

\* The unit file is created exclusively, then bootstrapped.
Bootstrap(c) ==
    /\ At(c, "unit", {"install"})
    /\ \/ /\ ~launchd.file
          /\ launchd' = [launchd EXCEPT !.file = TRUE, !.loaded = TRUE]
          /\ Go(c, "register")
       \/ /\ ~launchd.file
          /\ launchd' = [launchd EXCEPT !.file = TRUE]
          /\ Go(c, "undo")
       \/ launchd.file /\ Go(c, "failed") /\ UNCHANGED launchd
    /\ UNCHANGED <<row, defined, ingress, proc, history>>

\* Store.PutSupervisor, which may fail.
Register(c) ==
    /\ At(c, "register", {"install"})
    /\ \/ launchd' = [launchd EXCEPT !.sup = TRUE] /\ Go(c, "waitReady")
       \/ UNCHANGED launchd /\ Go(c, "undo")
    /\ UNCHANGED <<row, defined, ingress, proc, history>>

\* waitSupervisorReady: supervisorRunHealthy, or the deadline.
WaitReady(c) ==
    /\ At(c, "waitReady", {"install"})
    /\ \/ /\ LiveRun(row) /\ proc[row.owner].source = "launchd"
          /\ row.status \in {"ready", "degraded"}
          /\ Go(c, "done")
       \/ Go(c, "undo")
    /\ UNCHANGED <<row, defined, ingress, launchd, proc, history>>

\* launchctlBootout: launchd sends SIGTERM to its process.
Terminated ==
    [p \in Procs |-> IF Live(p) /\ proc[p].source = "launchd"
                     THEN [proc[p] EXCEPT !.intr = TRUE] ELSE proc[p]]

\* install's deferred cleanup: bootout, DeleteSupervisor and Remove of the unit
\* file are all tried, and the error of each is ignored.  A service that stays
\* loaded without its supervisor record is an orphan.
Undo(c) ==
    /\ At(c, "undo", {"install"})
    /\ \E undone \in SUBSET DOMAIN launchd :
          /\ proc' = IF "loaded" \in undone THEN Terminated ELSE proc
          /\ launchd' = [f \in DOMAIN launchd |-> launchd[f] /\ f \notin undone]
    /\ Go(c, "failed")
    /\ history' = [history EXCEPT !.orphan = @ \/ (launchd'.loaded /\ ~launchd'.sup)]
    /\ UNCHANGED <<row, defined, ingress>>

\* uninstall boots the service out, or fails, ...
Bootout(c) ==
    /\ At(c, "bootout", {"uninstall"})
    /\ \/ /\ proc' = Terminated
          /\ launchd' = [launchd EXCEPT !.loaded = FALSE]
          /\ cmd' = [cmd EXCEPT ![c].pc = "wait", ![c].seen = row]
       \/ Go(c, "failed") /\ UNCHANGED <<proc, launchd>>
    /\ UNCHANGED <<row, defined, ingress, history>>

\* ... waits for its process, deletes the supervisor, reads the record again
\* and deletes it unless its process lives, and removes the unit file.
Unregister(c) ==
    /\ At(c, "wait", {"uninstall"})
    /\ ~LiveRun(cmd[c].seen)
    /\ launchd' = [launchd EXCEPT !.sup = FALSE]
    /\ Go(c, "read")
    /\ UNCHANGED <<row, defined, ingress, proc, history>>

RemoveUnit(c) ==
    /\ At(c, "removeUnit", {"uninstall"})
    /\ launchd' = [launchd EXCEPT !.file = FALSE]
    /\ Go(c, "done")
    /\ UNCHANGED <<row, defined, ingress, proc, history>>

-----------------------------------------------------------------------------
Next ==
    \/ \E p \in Procs :
          \/ Boot(p) \/ Listen(p) \/ Ready(p) \/ StartScopeSync(p) \/ Maintain(p)
          \/ SetRunStatusRead(p) \/ SetRunStatusWrite(p) \/ Stopped(p) \/ Close(p)
          \/ CleanupRead(p) \/ CleanupDelete(p) \/ CtrlC(p) \/ Crash(p) \/ KeepAlive(p)
    \/ \E c \in Commands :
          \/ \E op \in Ops : Begin(c, op)
          \/ Kill(c)
          \/ Definition(c) \/ Supervisor(c) \/ Read(c)
          \/ CheckStart(c) \/ Check(c) \/ CheckStale(c) \/ Delete(c)
          \/ Reserve(c) \/ Spawn(c) \/ Poll(c) \/ PollTimeout(c) \/ Rollback(c) \/ Restarted(c)
          \/ StopRead(c) \/ StopCheck(c) \/ Signal(c) \/ Ended(c) \/ WaitTimeout(c) \/ Undefine(c)
          \/ Bootstrap(c) \/ Register(c) \/ WaitReady(c) \/ Undo(c)
          \/ Bootout(c) \/ Unregister(c) \/ RemoveUnit(c)

Spec == Init /\ [][Next]_vars

-----------------------------------------------------------------------------
TypeOK ==
    /\ row = NoRow \/ row \in Run
    /\ launchd \in [file: BOOLEAN, loaded: BOOLEAN, sup: BOOLEAN]
    /\ {defined} \cup {history[h] : h \in DOMAIN history} \subseteq BOOLEAN
    /\ \A c \in Commands : cmd[c].op \in Ops \cup {"none"} /\ cmd[c].child \in 0..MaxProcs

(* As long as commands are given one after the other, none deletes the     *)
(* record of a runtime that is starting or of a process that lives, and    *)
(* none leaves launchd with a service of which the registry does not know, *)
(* at most one process serves the Pipe and the record names it: so stop,   *)
(* restart and rm reach it, and a second start finds it.  Processes may    *)
(* crash at any time and be restarted by launchd, commands may be killed.  *)
RegistryTracksRuntime ==
    /\ TypeOK
    /\ history = InitHistory =>
          \A p \in Procs : Serving(p) => row # NoRow /\ row.owner = p

(* INVARIANTS.md: "Detached startup publishes PID/run metadata only after  *)
(* readiness; every post-spawn failure kills and waits for the owned       *)
(* child".  Whatever other commands and runtimes do meanwhile, start -d    *)
(* and restart succeed only if the child they started has been ready, and  *)
(* fail only if it is dead.                                                *)
DetachedStartIsHonest ==
    \A c \in Commands :
        cmd[c].op = "start" /\ cmd[c].child # 0 /\ ~cmd[c].killed =>
            /\ cmd[c].pc = "done" => proc[cmd[c].child].served
            /\ cmd[c].pc \in {"rollback", "failed"} => proc[cmd[c].child].pc = "dead"

=============================================================================
