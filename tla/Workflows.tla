------------------------------ MODULE Workflows ------------------------------
(***************************************************************************)
(* The commands that define Services and Pipes in one home, and accept and *)
(* connect to one remote Pipe: service create, attach, pipe create,        *)
(* accept, connect, rm.                                                    *)
(*                                                                         *)
(* A command is a process of its own that makes several independent store  *)
(* and file operations; only rm's delete is a transaction.  Every          *)
(* operation is a step here and may fail, commands interleave freely and   *)
(* may be killed between two steps.                                        *)
(*                                                                         *)
(* Keys are numbers, 0 is no key.  A Pipe ID is derived from the key of    *)
(* its owner, so an ID is the key's number.  The name Default stands for   *)
(* "connect-<remote Pipe ID>": the default name of the local Pipe that     *)
(* connects to the remote one, and (with .key) the file of the recipient   *)
(* key, which is therefore also the owner key file of a Pipe of that name. *)
(***************************************************************************)
EXTENDS Naturals, FiniteSets

CONSTANTS
    None,       \* no definition, no argument
    Names,      \* names of Services and Pipes, and of the key files of Pipes
    Default,    \* "connect-<ID>" of the remote Pipe, one of Names
    Remote,     \* the ID of the remote Pipe
    Targets,    \* endpoints of Services
    Listens,    \* local listen addresses
    Commands,   \* command invocations
    MaxKeys     \* bound: keys ever generated

ASSUME WorkflowsAssumption ==
    /\ Default \in Names
    /\ Remote \notin Names
    /\ "tubo" \notin Listens
    /\ MaxKeys \in Nat \ {0}

VARIABLES
    services,   \* table services: name -> None or endpoint
    pipes,      \* table pipes: name -> None or definition
    keyfile,    \* secrets/pipes/<name>.key: 0 or the key in it
    keys,       \* number of keys generated so far
    redeemed,   \* owner's side: 0 or the key that redeemed the invite
    binding,    \* remote_pipe_bindings: 0 or the accepted recipient key
    cmd,        \* command -> its program counter and local variables
    history     \* what happened: see InitHistory

store == <<services, pipes>>
remote == <<redeemed, binding>>
vars == <<services, pipes, keyfile, keys, redeemed, binding, cmd, history>>

ServiceRef(n) == [kind |-> "service", name |-> n]
PipeRef(n) == [kind |-> "pipe", name |-> n]

\* domain.PipeSpec as stored, with owner_key_file (path).  by stands for scope,
\* visibility and access, which pipe create and attach or connect never choose
\* alike; at for the creation time, which no two commands share.
PipeSpec == [id: 1..MaxKeys, target: {ServiceRef(n) : n \in Names} \cup
                                     {PipeRef(n) : n \in Names \cup {Remote}},
             ingress: {"tubo"} \cup Listens, by: {"exact", "scoped"},
             path: Names, at: Commands]

\* The local variables of a command.  arg is the endpoint of a Service or the
\* address of an ingress.  spent: the owner has told it that it redeemed the
\* invite.
Idle == [op |-> "none", pc |-> "idle", name |-> None, arg |-> None,
         spec |-> None, key |-> 0, upsert |-> TRUE, spent |-> FALSE]

\* rmOverlap: rm of a Pipe ran at the same time as another command.
\* overlap: two commands ran at the same time.
\* removed: rm has deleted the recipient key.
InitHistory == [rmOverlap |-> FALSE, overlap |-> FALSE, removed |-> FALSE]

Init ==
    /\ services = [n \in Names |-> None]
    /\ pipes = [n \in Names |-> None]
    /\ keyfile = [n \in Names |-> 0]
    /\ keys = 0
    /\ redeemed = 0
    /\ binding = 0
    /\ cmd = [c \in Commands |-> Idle]
    /\ history = InitHistory

-----------------------------------------------------------------------------
(* Control.                                                                *)

\* How a command ends: it succeeds or was killed, it is refused because of
\* what it finds, or one of its operations fails.
Over == {"done", "failed", "broken"}

Active(c) == cmd[c].pc \notin {"idle"} \cup Over

At(c, pc) == cmd[c].pc = pc

\* A process that ends loses its local variables.
Go(c, pc) ==
    cmd' = [cmd EXCEPT ![c] = IF pc \in Over
                              THEN [Idle EXCEPT !.pc = pc, !.spent = cmd[c].spent]
                              ELSE [@ EXCEPT !.pc = pc]]

\* A user starts command c.
Begin(c, op, pc, name, arg, spec) ==
    LET others == {d \in Commands : Active(d)}
    IN  /\ cmd[c].pc = "idle"
        /\ cmd' = [cmd EXCEPT ![c] = [Idle EXCEPT !.op = op, !.pc = pc, !.name = name,
                                                  !.arg = arg, !.spec = spec]]
        /\ history' = [history EXCEPT
               !.overlap = @ \/ others # {},
               !.rmOverlap = @ \/ (others # {} /\ (op = "rm" \/ \E d \in others : cmd[d].op = "rm"))]
        /\ UNCHANGED <<store, keyfile, keys, remote>>

\* The process of a command is killed.
Kill(c) ==
    /\ Active(c)
    /\ cmd' = [cmd EXCEPT ![c] = [Idle EXCEPT !.pc = "done"]]
    /\ UNCHANGED <<store, keyfile, keys, remote, history>>

\* The operation a command is about to make fails and changes nothing: a row
\* or a file cannot be read or written, or a result does not verify.  The
\* command reports persistence_failed or the like and ends.
Breaks(c) ==
    /\ Active(c)
    /\ Go(c, "broken")
    /\ UNCHANGED <<store, keyfile, keys, remote, history>>

-----------------------------------------------------------------------------
(* localkey.Provision and the store operations.                            *)

\* localkey.Provision and cli.loadOrGeneratePrivate: the key in the file, or
\* a new one; key is what the caller gets.
Provision(path, key) ==
    \/ /\ keyfile[path] # 0
       /\ key = keyfile[path]
       /\ UNCHANGED <<keyfile, keys>>
    \/ /\ keyfile[path] = 0
       /\ keys < MaxKeys
       /\ key = keys + 1
       /\ keys' = key
       /\ keyfile' = [keyfile EXCEPT ![path] = key]

\* Store.PutService: a SELECT, then an INSERT that a primary key guards.
PutServiceSelect(c) ==
    /\ At(c, "putService")
    /\ Go(c, IF services[cmd[c].name] = None THEN "insertService"
             ELSE IF services[cmd[c].name] # cmd[c].arg THEN "failed"
             ELSE IF cmd[c].op = "attach" THEN "key" ELSE "done")
    /\ UNCHANGED <<store, keyfile, keys, remote, history>>

PutServiceInsert(c) ==
    /\ At(c, "insertService")
    /\ IF services[cmd[c].name] # None
         THEN Go(c, "failed") /\ UNCHANGED services
         ELSE /\ services' = [services EXCEPT ![cmd[c].name] = cmd[c].arg]
              /\ Go(c, IF cmd[c].op = "attach" THEN "key" ELSE "done")
    /\ UNCHANGED <<pipes, keyfile, keys, remote, history>>

\* The part of PipeSpec.Validate that depends on other data: no self-target.
Valid(n, spec) == spec.target # PipeRef(n)

\* PutPipe compares the whole specification; the key file is not part of it.
SameSpec(old, new) == [old EXCEPT !.path = new.path] = new

\* (mutant: pipe_id is not unique)
Insertable_AnyID(name, spec) == pipes[name] = None

\* The constraints of the table: the ref is the primary key, pipe_id is unique.
Insertable(name, spec) ==
    /\ pipes[name] = None
    /\ \A n \in Names : pipes[n] # None => pipes[n].id # spec.id

\* Store.PutPipe: a SELECT, then an INSERT.
PutPipeSelect(c) ==
    /\ At(c, "putPipe")
    /\ Go(c, IF ~Valid(cmd[c].name, cmd[c].spec) THEN "failed"
             ELSE IF pipes[cmd[c].name] = None THEN "insertPipe"
             ELSE IF SameSpec(pipes[cmd[c].name], cmd[c].spec) THEN "done" ELSE "failed")
    /\ UNCHANGED <<store, keyfile, keys, remote, history>>

PutPipeInsert(c) ==
    /\ At(c, "insertPipe")
    /\ IF Insertable(cmd[c].name, cmd[c].spec)
         THEN pipes' = [pipes EXCEPT ![cmd[c].name] = cmd[c].spec] /\ Go(c, "done")
         ELSE Go(c, "failed") /\ UNCHANGED pipes
    /\ UNCHANGED <<services, keyfile, keys, remote, history>>

-----------------------------------------------------------------------------
(* service create, attach, pipe create.                                    *)

\* cli.serviceCreate.
ServiceCreate(c, name, target) == Begin(c, "service", "putService", name, target, None)

\* usecase.Attach: first the Service, then the Pipe of the same name.
Attach(c, name, target) == Begin(c, "attach", "putService", name, target, None)

\* cli.pipeCreate; the target need not exist.
PipeCreate(c, name, target, ingress) ==
    Begin(c, "create", "key", name, ingress,
          [id |-> 1, target |-> target, ingress |-> ingress, by |-> "scoped",
           path |-> name, at |-> c])

\* Attach step 2 and the beginning of pipeCreate: the owner key.
OwnerKey(c) ==
    /\ At(c, "key")
    /\ \E key \in 1..MaxKeys :
          /\ Provision(cmd[c].name, key)
          /\ cmd' = [cmd EXCEPT ![c].pc = "get", ![c].spec =
                        IF cmd[c].op = "create" THEN [@ EXCEPT !.id = key]
                        ELSE [id |-> key, target |-> ServiceRef(cmd[c].name),
                              ingress |-> "tubo", by |-> "exact",
                              path |-> cmd[c].name, at |-> c]]
    /\ UNCHANGED <<store, remote, history>>

\* The identity of an existing definition is preserved.
PreserveIdentity(c) ==
    LET old == pipes[cmd[c].name]
    IN  /\ At(c, "get")
        /\ cmd' = [cmd EXCEPT
               ![c].pc = IF cmd[c].op = "create" /\ cmd[c].arg = "tubo" THEN "grant" ELSE "putPipe",
               ![c].spec = IF old = None THEN @
                           ELSE [@ EXCEPT !.id = old.id, !.path = old.path, !.at = old.at]]
        /\ UNCHANGED <<store, keyfile, keys, remote, history>>

\* pipeCreate signs a publish grant or asks the remote authority for one.
PublishGrant(c) ==
    /\ At(c, "grant")
    /\ \E pc \in {"putPipe", "failed"} : Go(c, pc)
    /\ UNCHANGED <<store, keyfile, keys, remote, history>>

-----------------------------------------------------------------------------
(* accept and connect.                                                     *)

Accept(c) == Begin(c, "accept", "accept", None, None, None)

\* cli.connect and the beginning of usecase.ConnectExact.
Connect(c, op, name, listen) == Begin(c, op, "recipient", name, listen, None)

\* recipientRefFor: the friendly name, or the default one.
RecipientRef(name) == IF name = None THEN Default ELSE name

\* ConnectExact resolves the recipient locally: --token provisions its key,
\* --remote only loads it.
Recipient(c) ==
    /\ At(c, "recipient")
    /\ \/ /\ cmd[c].op = "remote" /\ keyfile[Default] = 0
          /\ Go(c, "failed")
          /\ UNCHANGED <<keyfile, keys>>
       \/ /\ cmd[c].op = "remote" => keyfile[Default] # 0
          /\ \E key \in 1..MaxKeys :
                /\ Provision(Default, key)
                /\ cmd' = [cmd EXCEPT ![c].pc = "byRef", ![c].key = key, ![c].spec =
                              [id |-> key, target |-> PipeRef(Remote), ingress |-> cmd[c].arg,
                               by |-> "exact", path |-> Default, at |-> c]]
    /\ UNCHANGED <<store, remote, history>>

\* usecase.exactConnectConflict: an existing Pipe is reused only if all of
\* its durable semantics match the request.
Compatible(old, id, listen) ==
    /\ old.target = PipeRef(Remote)
    /\ old.id = id
    /\ old.ingress = listen

\* The access step that follows the conflict checks.
AccessStep(c) == IF cmd[c].op = "token" THEN "accept" ELSE "acquire"

\* ConnectExact looks the requested ref up.
LookupRef(c) ==
    LET old == pipes[RecipientRef(cmd[c].name)]
    IN  /\ At(c, "byRef")
        /\ IF old = None THEN Go(c, "byID")
           ELSE IF Compatible(old, cmd[c].spec.id, cmd[c].arg)
                THEN cmd' = [cmd EXCEPT ![c].pc = AccessStep(c), ![c].upsert = FALSE]
                ELSE Go(c, "failed")
        /\ UNCHANGED <<store, keyfile, keys, remote, history>>

\* (mutant: only the ref is checked before the invite is redeemed)
LookupID_Skipped(c) ==
    /\ At(c, "byID")
    /\ Go(c, AccessStep(c))
    /\ UNCHANGED <<store, keyfile, keys, remote, history>>

\* ... and then the canonical Pipe ID, which another name may own.
LookupID(c) ==
    LET owners == {n \in Names : pipes[n] # None /\ pipes[n].id = cmd[c].spec.id}
    IN  /\ At(c, "byID")
        /\ IF owners = {} THEN Go(c, AccessStep(c))
           ELSE IF cmd[c].name = None /\ \A n \in owners : Compatible(pipes[n], cmd[c].spec.id, cmd[c].arg)
                THEN cmd' = [cmd EXCEPT ![c].pc = AccessStep(c), ![c].upsert = FALSE]
                ELSE Go(c, "failed")
        /\ UNCHANGED <<store, keyfile, keys, remote, history>>

\* usecase.acceptExactInvite provisions the recipient key (again) ...
AcceptKey(c) ==
    /\ At(c, "accept")
    /\ \E key \in 1..MaxKeys :
          /\ Provision(Default, key)
          /\ cmd' = [cmd EXCEPT ![c].pc = "redeem", ![c].key = key]
    /\ UNCHANGED <<store, remote, history>>

\* ... redeems the invite, which the owner grants to one key only (external:
\* ExactAuthority); the owner may be unreachable, its answer may be lost ...
Redeem(c) ==
    /\ At(c, "redeem")
    /\ \/ /\ Go(c, "failed")
          /\ UNCHANGED redeemed
       \/ /\ redeemed \in {0, cmd[c].key}
          /\ redeemed' = cmd[c].key
          /\ \/ cmd' = [cmd EXCEPT ![c].pc = "bind", ![c].spent = TRUE]
             \/ Go(c, "failed")
    /\ UNCHANGED <<store, keyfile, keys, binding, history>>

\* With access there, connect stores the local Pipe, unless it reuses one.
AfterAccess(c) ==
    IF cmd[c].op # "accept" /\ cmd[c].upsert
      THEN cmd' = [cmd EXCEPT ![c].pc = "putPipe", ![c].name = RecipientRef(@)]
      ELSE Go(c, "done")

\* ... and stores the binding.
Bind(c) ==
    /\ At(c, "bind")
    /\ binding' = cmd[c].key
    /\ AfterAccess(c)
    /\ UNCHANGED <<store, keyfile, keys, redeemed, history>>

\* connect --remote: the binding must be there and be this recipient's;
\* AcquireAcceptedPipeAccess may fail (external: ExactAccess).
Acquire(c) ==
    /\ At(c, "acquire")
    /\ \/ Go(c, "failed")
       \/ /\ binding # 0 /\ binding = cmd[c].key
          /\ redeemed = binding
          /\ AfterAccess(c)
    /\ UNCHANGED <<store, keyfile, keys, remote, history>>

-----------------------------------------------------------------------------
(* rm.                                                                     *)

RemovePipe(c, name) == Begin(c, "rm", "deletePipe", name, None, None)
RemoveService(c, name) == Begin(c, "rmService", "deleteService", name, None, None)

Targeted(ref) == \E n \in Names : pipes[n] # None /\ pipes[n].target = ref

\* Store.DeletePipe, one transaction; it returns the key file.
DeletePipe(c) ==
    /\ At(c, "deletePipe")
    /\ IF pipes[cmd[c].name] = None \/ Targeted(PipeRef(cmd[c].name))
         THEN Go(c, "failed") /\ UNCHANGED pipes
         ELSE /\ pipes' = [pipes EXCEPT ![cmd[c].name] = None]
              /\ cmd' = [cmd EXCEPT ![c].pc = "unlink", ![c].arg = pipes[cmd[c].name].path]
    /\ UNCHANGED <<services, keyfile, keys, remote, history>>

\* cli.remove then deletes the key file.
UnlinkKey(c) ==
    /\ At(c, "unlink")
    /\ keyfile' = [keyfile EXCEPT ![cmd[c].arg] = 0]
    /\ Go(c, "done")
    /\ history' = [history EXCEPT !.removed = @ \/ cmd[c].arg = Default]
    /\ UNCHANGED <<store, keys, remote>>

\* Store.DeleteService, one transaction.
DeleteService(c) ==
    /\ At(c, "deleteService")
    /\ IF services[cmd[c].name] = None \/ Targeted(ServiceRef(cmd[c].name))
         THEN Go(c, "failed") /\ UNCHANGED services
         ELSE /\ services' = [services EXCEPT ![cmd[c].name] = None]
              /\ Go(c, "done")
    /\ UNCHANGED <<pipes, keyfile, keys, remote, history>>

-----------------------------------------------------------------------------
Next ==
    \E c \in Commands :
        \/ \E n \in Names, t \in Targets : ServiceCreate(c, n, t) \/ Attach(c, n, t)
        \/ \E n, m \in Names, i \in {"tubo"} \cup Listens :
              PipeCreate(c, n, ServiceRef(m), i) \/ PipeCreate(c, n, PipeRef(m), i)
        \/ Accept(c)
        \/ \E n \in Names \cup {None}, l \in Listens :
              Connect(c, "token", n, l) \/ Connect(c, "remote", n, l)
        \/ \E n \in Names : RemovePipe(c, n) \/ RemoveService(c, n)
        \/ PutServiceSelect(c) \/ PutServiceInsert(c)
        \/ OwnerKey(c) \/ PreserveIdentity(c) \/ PublishGrant(c)
        \/ PutPipeSelect(c) \/ PutPipeInsert(c)
        \/ Recipient(c) \/ LookupRef(c) \/ LookupID(c)
        \/ AcceptKey(c) \/ Redeem(c) \/ Bind(c) \/ Acquire(c)
        \/ DeletePipe(c) \/ UnlinkKey(c) \/ DeleteService(c)
        \/ Breaks(c) \/ Kill(c)

Spec == Init /\ [][Next]_vars

-----------------------------------------------------------------------------
TypeOK ==
    /\ services \in [Names -> Targets \cup {None}]
    /\ \A n \in Names : pipes[n] = None \/ pipes[n] \in PipeSpec
    /\ keyfile \in [Names -> 0..MaxKeys]
    /\ {keys, redeemed, binding} \subseteq 0..MaxKeys

(* Every Pipe definition can be used: the file it names holds the key its  *)
(* ID is derived from, although definitions, key files and the recipient   *)
(* key are written by separate operations of different commands, any of    *)
(* which may be killed in between, and a Pipe and a connection may share a *)
(* file.  The exception is an rm that overlaps another command.            *)
KeyBacksPipe ==
    /\ TypeOK
    /\ \A n \in Names :
          pipes[n] # None /\ ~history.rmOverlap => keyfile[pipes[n].path] = pipes[n].id

(* connect.go: "a failing connect never burns the bootstrap credential".   *)
(* Once the invite is redeemed, the key that redeemed it stays on disk, so *)
(* that a retry is the same recipient, and any binding is its binding,     *)
(* unless rm deleted the key: whatever then fails, a retry can complete.   *)
(* And after the owner told a connect that it redeemed the invite, none of *)
(* the conflicts it checks for before can refuse it, unless it was         *)
(* overtaken by another command; only an operation may still fail.         *)
InviteNotBurnt ==
    /\ redeemed # 0 /\ ~history.removed => keyfile[Default] = redeemed
    /\ binding # 0 => binding = redeemed
    /\ \A c \in Commands :
          cmd[c].pc = "failed" /\ cmd[c].spent => history.overlap

=============================================================================
