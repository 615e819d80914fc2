--------------------------- MODULE Workflows_proofs ---------------------------
(***************************************************************************)
(* TLAPS proofs about Workflows and Traversal, for any number of names and *)
(* concurrent commands and any hop limit.  WorkInv says what each command  *)
(* has in hand at each step, how the rows of the store, the key files and  *)
(* the invite hang together, and what else holds while no two commands     *)
(* have overlapped.                                                        *)
(*                                                                         *)
(* The second half is about the recursive functions of Traversal.  What    *)
(* they compute is found by induction over the number of hops, which rests *)
(* on the well-foundedness of < on Nat (SetInduction).  GraphOK says what  *)
(* the argument needs of the stored definitions; ValidInv provides it.     *)
(***************************************************************************)
EXTENDS Traversal, WellFoundedInduction, TLAPS

USE DEF Over

(* The local variables of a command, and where it can be.                  *)
Cmd == [op: {"none", "service", "attach", "create", "accept", "token", "remote", "rm",
             "rmService"},
        pc: {"idle", "putService", "insertService", "key", "get", "grant", "putPipe",
             "insertPipe", "recipient", "byRef", "byID", "accept", "redeem", "bind", "acquire",
             "deletePipe", "unlink", "deleteService"} \cup Over,
        name: Names \cup {None},
        arg: Names \cup Targets \cup Listens \cup {"tubo", None},
        spec: PipeSpec \cup {None}, key: 0..MaxKeys, upsert: BOOLEAN, spent: BOOLEAN]

History == [rmOverlap: BOOLEAN, overlap: BOOLEAN, removed: BOOLEAN]

Types ==
    /\ services \in [Names -> Targets \cup {None}]
    /\ pipes \in [Names -> PipeSpec \cup {None}]
    /\ keyfile \in [Names -> 0..MaxKeys]
    /\ keys \in 0..MaxKeys
    /\ redeemed \in 0..MaxKeys
    /\ binding \in 0..MaxKeys
    /\ cmd \in [Commands -> Cmd]
    /\ history \in History

(* It has a specification to store.                                        *)
HasSpec(k) ==
    \/ k.pc \in {"get", "grant", "putPipe", "insertPipe", "byRef", "byID", "acquire"}
    \/ k.pc \in {"accept", "redeem", "bind"} /\ k.op # "accept"

(* What a command has in hand at each of its steps.                        *)
InHand(k) ==
    /\ k.pc \in {"putService", "insertService"} =>
         k.op \in {"service", "attach"} /\ k.name \in Names /\ k.arg \in Targets
    /\ k.pc = "key" =>
         /\ k.op \in {"attach", "create"} /\ k.name \in Names
         /\ k.op = "create" => k.spec \in PipeSpec /\ k.spec.path = k.name
    /\ k.pc \in {"get", "grant", "putPipe", "insertPipe", "deletePipe", "unlink",
                 "deleteService"} => k.name \in Names
    /\ HasSpec(k) => k.spec \in PipeSpec
    /\ k.pc = "recipient" => k.op \in {"token", "remote"} /\ k.arg \in Listens
    /\ k.pc \in {"byRef", "byID", "acquire"} => k.op \in {"token", "remote"}
    /\ k.pc \in {"accept", "redeem", "bind"} => k.op \in {"token", "remote", "accept"}
    /\ k.pc \in {"byRef", "byID", "acquire", "accept", "redeem", "bind"} /\ k.op # "accept" =>
         k.spec.target = PipeRef(Remote)
    /\ k.pc \in {"redeem", "bind"} => k.key # 0
    /\ k.pc = "deletePipe" => k.op = "rm"
    /\ k.pc = "unlink" => k.op = "rm" /\ k.arg \in Names
    /\ k.spent =>
         /\ k.pc \in {"bind", "putPipe", "insertPipe"} \cup Over
         /\ k.pc \in {"putPipe", "insertPipe"} => k.spec.target = PipeRef(Remote)

(* The key that an accept redeems with is on disk; then it has redeemed.   *)
Redeems(k, files, by, h) ==
    /\ k.pc = "redeem" /\ ~h.removed => files[Default] = k.key
    /\ k.pc = "bind" => by = k.key
    /\ k.pc = "failed" /\ k.spent => h.overlap

(* The specification that a command is about to store is that of a key on  *)
(* disk.                                                                   *)
Backed(k, files) == HasSpec(k) => files[k.spec.path] = k.spec.id

(* rm has left no definition with the key file it is about to delete.      *)
Unused(k, defs) ==
    k.pc = "unlink" => \A n \in Names : defs[n] # None => defs[n].path # k.arg

Unowned(id, defs) == \A n \in Names : defs[n] # None => defs[n].id # id

(* After the conflict checks nothing stands in the way of the local Pipe.  *)
Free(k, defs) ==
    /\ k.pc = "byID" => defs[RecipientRef(k.name)] = None
    /\ k.pc \in {"accept", "redeem", "bind", "acquire"} /\ k.op # "accept" /\ k.upsert =>
         defs[RecipientRef(k.name)] = None /\ Unowned(k.spec.id, defs)
    /\ k.pc \in {"putPipe", "insertPipe"} /\ k.spent =>
         defs[k.name] = None /\ Unowned(k.spec.id, defs)

Working(k) == k.pc \notin {"idle"} \cup Over

(* What holds of one command.                                              *)
CommandInv(k, defs, files, by, h) ==
    /\ InHand(k)
    /\ Redeems(k, files, by, h)
    /\ ~h.rmOverlap => Backed(k, files) /\ Unused(k, defs)
    /\ ~h.overlap => Free(k, defs)

(* What holds of the registry and the key files.                           *)
Distinct(defs) ==
    \A n, m \in Names : defs[n] # None /\ defs[m] # None /\ defs[n].id = defs[m].id => n = m

StoreInv(defs, files, by, accepted, h) ==
    /\ Distinct(defs)
    /\ by # 0 /\ ~h.removed => files[Default] = by
    /\ accepted # 0 => accepted = by
    /\ ~h.rmOverlap => \A n \in Names : defs[n] # None => files[defs[n].path] = defs[n].id

(* What the history says of the commands at work.                          *)
AloneInv(k, j, h) ==
    Working(k) /\ Working(j) => h.overlap /\ (~h.rmOverlap => k.op # "rm")

WorkInv ==
    /\ Types
    /\ StoreInv(pipes, keyfile, redeemed, binding, history)
    /\ \A c \in Commands : CommandInv(cmd[c], pipes, keyfile, redeemed, history)
    /\ \A c, d \in Commands : c # d => AloneInv(cmd[c], cmd[d], history)

-----------------------------------------------------------------------------
(* The record of a command that has not begun.                             *)
LEMMA IdleOK == Idle \in Cmd /\ Idle.pc = "idle" /\ ~Idle.spent
<1>1. 0 \in 0..MaxKeys
  BY WorkflowsAssumption
<1> QED
  BY Zenon, <1>1 DEF Idle, Cmd

(* The empty store satisfies the invariant.                                *)
LEMMA WorkStarts == Init => WorkInv
<1> SUFFICES ASSUME Init PROVE WorkInv
  OBVIOUS
<1>1. Idle \in Cmd /\ InitHistory \in History
  BY Zenon, IdleOK DEF InitHistory, History
<1>2. Types
  BY <1>1, WorkflowsAssumption DEF Init, Types
<1>3. Idle.pc = "idle" /\ ~Idle.spent
  BY Zenon, IdleOK
<1>4. /\ \A c \in Commands : cmd[c] = Idle
      /\ \A n \in Names : pipes[n] = None
      /\ redeemed = 0 /\ binding = 0
  BY Zenon DEF Init
<1>5. CommandInv(Idle, pipes, keyfile, redeemed, history)
  BY Zenon, <1>3 DEF CommandInv, InHand, HasSpec, Redeems, Backed, Unused, Free
<1>6. StoreInv(pipes, keyfile, redeemed, binding, history)
  BY Zenon, <1>4 DEF StoreInv, Distinct
<1> QED
  BY Zenon, <1>2, <1>3, <1>4, <1>5, <1>6 DEF WorkInv, AloneInv, Working

(* A step of the command c.                                                *)
LEMMA CommandActs ==
  ASSUME WorkInv, NEW c \in Commands, NEW k \in Cmd, cmd' = [cmd EXCEPT ![c] = k],
         services' \in [Names -> Targets \cup {None}],
         pipes' \in [Names -> PipeSpec \cup {None}],
         keyfile' \in [Names -> 0..MaxKeys], keys' \in 0..MaxKeys,
         redeemed' \in 0..MaxKeys, binding' \in 0..MaxKeys, history' \in History,
         history.overlap => history'.overlap, history.rmOverlap => history'.rmOverlap,
         StoreInv(pipes', keyfile', redeemed', binding', history'),
         CommandInv(k, pipes', keyfile', redeemed', history'),
         \A d \in Commands \ {c} :
           /\ CommandInv(cmd[d], pipes', keyfile', redeemed', history')
           /\ AloneInv(k, cmd[d], history') /\ AloneInv(cmd[d], k, history')
  PROVE  WorkInv'
<1>1. cmd \in [Commands -> Cmd] /\ \A d, e \in Commands : d # e => AloneInv(cmd[d], cmd[e], history)
  BY Zenon DEF WorkInv, Types
<1>2. /\ cmd' \in [Commands -> Cmd] /\ cmd'[c] = k
      /\ \A d \in Commands \ {c} : cmd'[d] = cmd[d]
  BY Zenon, <1>1
<1>3. Types'
  BY Zenon, <1>2 DEF Types
<1>4. \A d \in Commands : CommandInv(cmd'[d], pipes', keyfile', redeemed', history')
  BY Zenon, <1>2
<1>5. ASSUME NEW d \in Commands, NEW e \in Commands, d # e
      PROVE  AloneInv(cmd'[d], cmd'[e], history')
  <2>1. CASE d # c /\ e # c
    BY Zenon, <1>1, <1>2, <1>5, <2>1 DEF AloneInv
  <2> QED
    BY Zenon, <1>2, <1>5, <2>1
<1> QED
  BY Zenon, <1>3, <1>4, <1>5 DEF WorkInv

(* What is known of a command at work.                                     *)
LEMMA CommandOK ==
  ASSUME WorkInv, NEW c \in Commands
  PROVE  /\ Types
         /\ cmd[c] \in Cmd /\ cmd \in [Commands -> Cmd]
         /\ StoreInv(pipes, keyfile, redeemed, binding, history)
         /\ CommandInv(cmd[c], pipes, keyfile, redeemed, history)
         /\ InHand(cmd[c])
         /\ \A d \in Commands \ {c} :
              /\ cmd[d] \in Cmd
              /\ CommandInv(cmd[d], pipes, keyfile, redeemed, history)
              /\ AloneInv(cmd[c], cmd[d], history) /\ AloneInv(cmd[d], cmd[c], history)
BY Zenon DEF WorkInv, Types, CommandInv

(* A step that leaves definitions and the remote side alone, and no key    *)
(* file that has a key.                                                    *)
LEMMA CommandGoes ==
  ASSUME WorkInv, NEW c \in Commands, NEW k \in Cmd, cmd' = [cmd EXCEPT ![c] = k],
         Working(cmd[c]), UNCHANGED <<pipes, redeemed, binding, history>>,
         services' \in [Names -> Targets \cup {None}],
         keyfile' \in [Names -> 0..MaxKeys], keys' \in 0..MaxKeys,
         \A n \in Names : keyfile[n] # 0 => keyfile'[n] = keyfile[n],
         CommandInv(k, pipes, keyfile', redeemed, history),
         Working(k) => k.op = cmd[c].op
  PROVE  WorkInv'
<1>1. /\ Types /\ StoreInv(pipes, keyfile, redeemed, binding, history)
      /\ \A d \in Commands \ {c} :
           /\ cmd[d] \in Cmd
           /\ CommandInv(cmd[d], pipes, keyfile, redeemed, history)
           /\ AloneInv(cmd[c], cmd[d], history) /\ AloneInv(cmd[d], cmd[c], history)
  BY Zenon, CommandOK
<1>2. Default \in Names
  BY Zenon, WorkflowsAssumption
<1>3. \A s \in PipeSpec : s.path \in Names /\ s.id # 0
  BY DEF PipeSpec
<1>4. StoreInv(pipes', keyfile', redeemed', binding', history')
  BY Zenon, <1>1, <1>2, <1>3 DEF StoreInv, Types
<1>5. ASSUME NEW d \in Commands \ {c}
      PROVE  CommandInv(cmd[d], pipes', keyfile', redeemed', history')
  <2>1. Redeems(cmd[d], keyfile', redeemed, history)
    BY Zenon, <1>1, <1>2 DEF CommandInv, InHand, Redeems
  <2>2. Backed(cmd[d], keyfile) => Backed(cmd[d], keyfile')
    BY Zenon, <1>1, <1>3 DEF CommandInv, InHand, Backed
  <2> QED
    BY Zenon, <1>1, <2>1, <2>2 DEF CommandInv
<1>6. \A d \in Commands \ {c} : AloneInv(k, cmd[d], history') /\ AloneInv(cmd[d], k, history')
  BY Zenon, <1>1 DEF AloneInv
<1> QED
  BY ZenonT(60), <1>1, <1>4, <1>5, <1>6, CommandActs DEF Types

(* What Go does.                                                           *)
LEMMA Goes ==
  ASSUME WorkInv, NEW c \in Commands,
         NEW to \in {"insertService", "key", "get", "grant", "putPipe", "insertPipe", "byRef",
                     "byID", "accept", "redeem", "bind", "acquire"} \cup Over,
         Go(c, to)
  PROVE  \E k \in Cmd :
           /\ cmd' = [cmd EXCEPT ![c] = k] /\ k.pc = to /\ k.spent = cmd[c].spent
           /\ to \notin Over =>
                /\ k.op = cmd[c].op /\ k.name = cmd[c].name /\ k.arg = cmd[c].arg
                /\ k.spec = cmd[c].spec /\ k.key = cmd[c].key /\ k.upsert = cmd[c].upsert
<1>1. cmd[c] \in Cmd /\ cmd \in [Commands -> Cmd]
  BY Zenon, CommandOK
<1> DEFINE k == IF to \in Over THEN [Idle EXCEPT !.pc = to, !.spent = cmd[c].spent]
                ELSE [cmd[c] EXCEPT !.pc = to]
<1>2. cmd' = [cmd EXCEPT ![c] = k]
  BY Zenon, <1>1 DEF Go
<1>3. k \in Cmd /\ k.pc = to /\ k.spent = cmd[c].spent
  <2>1. Idle \in Cmd
    BY Zenon, IdleOK
  <2>2. CASE to \in Over
    <3>1. k = [Idle EXCEPT !.pc = to, !.spent = cmd[c].spent]
      BY Zenon, <2>2
    <3>2. cmd[c].spent \in BOOLEAN
      BY Zenon, <1>1 DEF Cmd
    <3> HIDE DEF k
    <3> QED
      BY ZenonT(60), <2>1, <2>2, <3>1, <3>2 DEF Cmd
  <2>3. CASE to \notin Over
    BY Zenon, <1>1, <2>3 DEF Cmd
  <2> QED
    BY Zenon, <2>2, <2>3
<1>4. to \notin Over =>
        /\ k.op = cmd[c].op /\ k.name = cmd[c].name /\ k.arg = cmd[c].arg
        /\ k.spec = cmd[c].spec /\ k.key = cmd[c].key /\ k.upsert = cmd[c].upsert
  BY Zenon, <1>1 DEF Cmd
<1> HIDE DEF k
<1> QED
  BY ZenonT(60), <1>2, <1>3, <1>4

(* A command that is refused has not redeemed, or was not alone.           *)
LEMMA Ended ==
  ASSUME NEW k \in Cmd, NEW defs, NEW files, NEW by, NEW h,
         k.pc \in {"done", "broken"} \/ (k.pc = "failed" /\ (k.spent => h.overlap))
  PROVE  CommandInv(k, defs, files, by, h)
BY Zenon DEF CommandInv, InHand, HasSpec, Redeems, Backed, Unused, Free


(* localkey.Provision: the caller gets the key in the file, and no other   *)
(* key changes.                                                            *)
LEMMA Provisions ==
  ASSUME Types, NEW path \in Names, NEW key \in 1..MaxKeys, Provision(path, key)
  PROVE  /\ keyfile' \in [Names -> 0..MaxKeys] /\ keys' \in 0..MaxKeys
         /\ keyfile'[path] = key
         /\ \A n \in Names : keyfile[n] # 0 => keyfile'[n] = keyfile[n]
BY WorkflowsAssumption DEF Types, Provision

-----------------------------------------------------------------------------
(* service create, attach, pipe create.                                    *)
LEMMA DefinitionsPreserve ==
  ASSUME WorkInv, NEW c \in Commands,
         \/ PutServiceSelect(c) \/ PutServiceInsert(c) \/ PublishGrant(c) \/ PutPipeSelect(c)
         \/ DeleteService(c) \/ Breaks(c) \/ Kill(c)
  PROVE  WorkInv'
<1> DEFINE v == cmd[c]
<1>1. /\ v \in Cmd /\ Types /\ InHand(v)
      /\ CommandInv(v, pipes, keyfile, redeemed, history)
  BY Zenon, CommandOK
<1>2. /\ Working(v) /\ UNCHANGED <<pipes, keyfile, keys, redeemed, binding, history>>
  BY Zenon DEF PutServiceSelect, PutServiceInsert, PublishGrant, PutPipeSelect, DeleteService, Breaks,
         Kill, At, Active, Working, store, remote
<1>3. services' \in [Names -> Targets \cup {None}]
  <2>1. CASE PutServiceInsert(c)
    BY Zenon, <1>1, <2>1 DEF PutServiceInsert, At, InHand, Types
  <2>2. CASE DeleteService(c)
    BY Zenon, <1>1, <2>2 DEF DeleteService, Types
  <2> QED
    BY Zenon, <1>1, <2>1, <2>2 DEF PutServiceSelect, PublishGrant, PutPipeSelect, Breaks, Kill, store,
       Types
<1>4. ASSUME NEW k \in Cmd, cmd' = [cmd EXCEPT ![c] = k],
             CommandInv(k, pipes, keyfile, redeemed, history), Working(k) => k.op = v.op
      PROVE  WorkInv'
  BY ZenonT(60), <1>1, <1>2, <1>3, <1>4, CommandGoes DEF Types
<1>5. ASSUME \/ Go(c, "done") \/ Go(c, "broken")
             \/ Go(c, "failed") /\ (v.spent => history.overlap)
      PROVE  WorkInv'
  <2>1. PICK k \in Cmd :
          /\ cmd' = [cmd EXCEPT ![c] = k] /\ k.spent = v.spent
          /\ k.pc \in {"done", "broken"} \/ (k.pc = "failed" /\ (v.spent => history.overlap))
    BY <1>5, Goes
  <2> QED
    BY ZenonT(60), <1>4, <2>1, Ended DEF Working
<1>6. CASE PutServiceSelect(c) \/ PutServiceInsert(c)
  <2>1. /\ v.pc \in {"putService", "insertService"} /\ ~v.spent
        /\ \/ Go(c, "done") \/ Go(c, "failed") \/ Go(c, "insertService")
           \/ Go(c, "key") /\ v.op = "attach"
    BY Zenon, <1>1, <1>6 DEF PutServiceSelect, PutServiceInsert, At, InHand
  <2>2. ASSUME NEW to \in {"insertService", "key"}, Go(c, to), to = "key" => v.op = "attach"
        PROVE  WorkInv'
    <3>1. PICK k \in Cmd :
            /\ cmd' = [cmd EXCEPT ![c] = k] /\ k.pc = to /\ k.spent = v.spent
            /\ k.op = v.op /\ k.name = v.name /\ k.arg = v.arg
      BY <2>2, Goes
    <3>2. CommandInv(k, pipes, keyfile, redeemed, history)
      BY Zenon, <1>1, <2>1, <2>2, <3>1 DEF CommandInv, InHand, HasSpec, Redeems, Backed, Unused, Free
    <3> QED
      BY ZenonT(60), <1>4, <3>1, <3>2
  <2> QED
    BY Zenon, <1>5, <2>1, <2>2
<1>7. CASE PublishGrant(c)
  <2>1. v.pc = "grant" /\ ~v.spent /\ (Go(c, "putPipe") \/ Go(c, "failed"))
    BY Zenon, <1>1, <1>7 DEF PublishGrant, At, InHand
  <2>2. ASSUME Go(c, "putPipe") PROVE WorkInv'
    <3>1. PICK k \in Cmd :
            /\ cmd' = [cmd EXCEPT ![c] = k] /\ k.pc = "putPipe" /\ k.spent = v.spent
            /\ k.op = v.op /\ k.name = v.name /\ k.spec = v.spec
      BY <2>2, Goes
    <3>2. CommandInv(k, pipes, keyfile, redeemed, history)
      BY Zenon, <1>1, <2>1, <3>1 DEF CommandInv, InHand, HasSpec, Redeems, Backed, Unused, Free
    <3> QED
      BY ZenonT(60), <1>4, <3>1, <3>2
  <2> QED
    BY Zenon, <1>5, <2>1, <2>2
<1>8. CASE PutPipeSelect(c)
  <2>1. /\ v.pc = "putPipe" /\ v.name \in Names
        /\ \/ Go(c, "failed") /\ (pipes[v.name] # None \/ ~Valid(v.name, v.spec))
           \/ Go(c, "insertPipe") \/ Go(c, "done")
    BY Zenon, <1>1, <1>8 DEF PutPipeSelect, At, InHand
  <2>2. ASSUME v.spent PROVE Valid(v.name, v.spec)
    <3>1. v.spec.target = PipeRef(Remote) /\ Remote # v.name
      BY Zenon, <1>1, <2>1, <2>2, WorkflowsAssumption DEF InHand
    <3>2. PipeRef(Remote).name = Remote /\ PipeRef(v.name).name = v.name
      BY Zenon DEF PipeRef
    <3> QED
      BY Zenon, <3>1, <3>2 DEF Valid
  <2>3. v.spent /\ pipes[v.name] # None => history.overlap
    BY Zenon, <1>1, <2>1 DEF CommandInv, Free
  <2>4. ASSUME Go(c, "insertPipe") PROVE WorkInv'
    <3>1. PICK k \in Cmd :
            /\ cmd' = [cmd EXCEPT ![c] = k] /\ k.pc = "insertPipe" /\ k.spent = v.spent
            /\ k.op = v.op /\ k.name = v.name /\ k.spec = v.spec
      BY <2>4, Goes
    <3>2. CommandInv(k, pipes, keyfile, redeemed, history)
      BY Zenon, <1>1, <2>1, <3>1 DEF CommandInv, InHand, HasSpec, Redeems, Backed, Unused, Free
    <3> QED
      BY ZenonT(60), <1>4, <3>1, <3>2
  <2> QED
    BY Zenon, <1>5, <2>1, <2>2, <2>3, <2>4
<1>9. CASE DeleteService(c)
  BY Zenon, <1>1, <1>5, <1>9 DEF DeleteService, At, InHand
<1>10. CASE Kill(c)
  <2> DEFINE k == [Idle EXCEPT !.pc = "done"]
  <2>1. k \in Cmd /\ k.pc = "done"
    BY Zenon, IdleOK DEF Cmd
  <2>2. cmd' = [cmd EXCEPT ![c] = k]
    BY Zenon, <1>10 DEF Kill
  <2> HIDE DEF k
  <2> QED
    BY ZenonT(60), <1>4, <2>1, <2>2, Ended DEF Working
<1>11. CASE Breaks(c)
  BY Zenon, <1>5, <1>11 DEF Breaks
<1> QED
  BY Zenon, <1>6, <1>7, <1>8, <1>9, <1>10, <1>11

(* The owner key, and the identity of an existing definition.              *)
LEMMA OwnerKeyPreserves ==
  ASSUME WorkInv, NEW c \in Commands, OwnerKey(c)
  PROVE  WorkInv'
<1> DEFINE v == cmd[c]
<1>1. /\ v \in Cmd /\ cmd \in [Commands -> Cmd] /\ Types /\ InHand(v)
  BY Zenon, CommandOK
<1>2. /\ v.pc = "key" /\ Working(v) /\ v.name \in Names /\ ~v.spent
      /\ UNCHANGED <<services, pipes, redeemed, binding, history>>
  BY Zenon, <1>1 DEF OwnerKey, At, Working, InHand, store, remote
<1> DEFINE s(key) == IF v.op = "create" THEN [v.spec EXCEPT !.id = key]
                     ELSE [id |-> key, target |-> ServiceRef(v.name), ingress |-> "tubo",
                           by |-> "exact", path |-> v.name, at |-> c]
<1>3. PICK key \in 1..MaxKeys :
        /\ Provision(v.name, key)
        /\ cmd' = [cmd EXCEPT ![c] = [v EXCEPT !.pc = "get", !.spec = s(key)]]
  BY ZenonT(60), <1>1 DEF OwnerKey
<1>4. s(key) \in PipeSpec /\ s(key).id = key /\ s(key).path = v.name
  <2>1. CASE v.op = "create"
    <3>1. v.spec \in PipeSpec /\ v.spec.path = v.name /\ s(key) = [v.spec EXCEPT !.id = key]
      BY Zenon, <1>1, <1>2, <2>1 DEF InHand
    <3> HIDE DEF s
    <3> QED
      BY Zenon, <3>1 DEF PipeSpec
  <2>2. CASE v.op # "create"
    BY Zenon, <1>2, <2>2 DEF PipeSpec
  <2> QED
    BY Zenon, <2>1, <2>2
<1> HIDE DEF s
<1> DEFINE k == [v EXCEPT !.pc = "get", !.spec = s(key)]
<1>5. k \in Cmd /\ k.pc = "get" /\ k.spec = s(key) /\ k.op = v.op /\ k.name = v.name /\ ~k.spent
  BY ZenonT(60), <1>1, <1>2, <1>4 DEF Cmd
<1>6. cmd' = [cmd EXCEPT ![c] = k]
  BY Zenon, <1>3
<1> HIDE DEF k
<1>7. /\ keyfile' \in [Names -> 0..MaxKeys] /\ keys' \in 0..MaxKeys
      /\ keyfile'[v.name] = key
      /\ \A n \in Names : keyfile[n] # 0 => keyfile'[n] = keyfile[n]
  BY Zenon, <1>1, <1>2, <1>3, Provisions
<1>8. CommandInv(k, pipes, keyfile', redeemed, history)
  BY Zenon, <1>2, <1>4, <1>5, <1>7 DEF CommandInv, InHand, HasSpec, Redeems, Backed, Unused, Free
<1> QED
  BY ZenonT(60), <1>1, <1>2, <1>5, <1>6, <1>7, <1>8, CommandGoes DEF Types

(* Attaching keeps the identity and the key of the pipe it replaces.       *)
LEMMA IdentityPreserves ==
  ASSUME WorkInv, NEW c \in Commands, PreserveIdentity(c)
  PROVE  WorkInv'
<1> DEFINE v == cmd[c]
           old == pipes[v.name]
           s == IF old = None THEN v.spec
                ELSE [v.spec EXCEPT !.id = old.id, !.path = old.path, !.at = old.at]
           to == IF v.op = "create" /\ v.arg = "tubo" THEN "grant" ELSE "putPipe"
           k == [v EXCEPT !.pc = to, !.spec = s]
<1>1. /\ v \in Cmd /\ cmd \in [Commands -> Cmd] /\ Types /\ InHand(v)
      /\ CommandInv(v, pipes, keyfile, redeemed, history)
      /\ StoreInv(pipes, keyfile, redeemed, binding, history)
  BY Zenon, CommandOK
<1>2. /\ v.pc = "get" /\ Working(v) /\ v.name \in Names /\ ~v.spent /\ v.spec \in PipeSpec
      /\ UNCHANGED <<services, pipes, keyfile, keys, redeemed, binding, history>>
  BY Zenon, <1>1 DEF PreserveIdentity, At, Working, InHand, HasSpec, store, remote
<1>3. cmd' = [cmd EXCEPT ![c] = k]
  BY ZenonT(60), <1>1 DEF PreserveIdentity
<1>4. /\ s \in PipeSpec
      /\ ~history.rmOverlap => keyfile[s.path] = s.id
  <2>1. CASE old = None
    BY Zenon, <1>1, <1>2, <2>1 DEF CommandInv, Backed, HasSpec
  <2>2. CASE old # None
    <3>1. old \in PipeSpec /\ s = [v.spec EXCEPT !.id = old.id, !.path = old.path, !.at = old.at]
      BY Zenon, <1>1, <1>2, <2>2 DEF Types
    <3>2. ~history.rmOverlap => keyfile[old.path] = old.id
      BY Zenon, <1>1, <1>2, <2>2 DEF StoreInv
    <3> HIDE DEF s, old
    <3> QED
      BY ZenonT(60), <1>2, <3>1, <3>2 DEF PipeSpec
  <2> QED
    BY Zenon, <2>1, <2>2
<1>5. to \in {"grant", "putPipe"}
  OBVIOUS
<1> HIDE DEF s, to
<1>6. k \in Cmd /\ k.pc = to /\ k.spec = s /\ k.op = v.op /\ k.name = v.name /\ ~k.spent
  BY ZenonT(60), <1>1, <1>2, <1>4, <1>5 DEF Cmd
<1> HIDE DEF k
<1>7. CommandInv(k, pipes, keyfile, redeemed, history)
  BY Zenon, <1>2, <1>4, <1>5, <1>6 DEF CommandInv, InHand, HasSpec, Redeems, Backed, Unused, Free
<1> QED
  BY ZenonT(60), <1>1, <1>2, <1>3, <1>6, <1>7, CommandGoes DEF Types


-----------------------------------------------------------------------------
(* accept and connect.                                                     *)
LEMMA RecipientPreserves ==
  ASSUME WorkInv, NEW c \in Commands, Recipient(c)
  PROVE  WorkInv'
<1> DEFINE v == cmd[c]
           s(key) == [id |-> key, target |-> PipeRef(Remote), ingress |-> v.arg,
                      by |-> "exact", path |-> Default, at |-> c]
           w(key) == [v EXCEPT !.pc = "byRef", !.key = key, !.spec = s(key)]
<1>1. /\ v \in Cmd /\ cmd \in [Commands -> Cmd] /\ Types /\ InHand(v)
  BY Zenon, CommandOK
<1>2. /\ v.pc = "recipient" /\ Working(v) /\ v.arg \in Listens /\ ~v.spent
      /\ v.op \in {"token", "remote"} /\ Default \in Names
      /\ UNCHANGED <<services, pipes, redeemed, binding, history>>
  BY ZenonT(60), <1>1, WorkflowsAssumption DEF Recipient, At, Working, InHand, store, remote
<1>3. CASE Go(c, "failed") /\ UNCHANGED <<keyfile, keys>>
  <2>1. PICK k \in Cmd : cmd' = [cmd EXCEPT ![c] = k] /\ k.pc = "failed" /\ k.spent = v.spent
    BY <1>3, Goes
  <2>2. CommandInv(k, pipes, keyfile', redeemed, history)
    BY Zenon, <1>2, <2>1, Ended
  <2> QED
    BY ZenonT(60), <1>1, <1>2, <1>3, <2>1, <2>2, CommandGoes DEF Types, Working
<1>4. ASSUME NEW key \in 1..MaxKeys, Provision(Default, key), cmd' = [cmd EXCEPT ![c] = w(key)]
      PROVE  WorkInv'
  <2>1. s(key) \in PipeSpec /\ s(key).target = PipeRef(Remote) /\ s(key).id = key
        /\ s(key).path = Default
    BY Zenon, <1>2, <1>4 DEF PipeSpec
  <2> HIDE DEF s
  <2> DEFINE k == w(key)
  <2>2. k \in Cmd /\ k.pc = "byRef" /\ k.spec = s(key) /\ k.op = v.op /\ ~k.spent
    <3>1. key \in 0..MaxKeys
      BY WorkflowsAssumption
    <3> QED
      BY ZenonT(60), <1>1, <1>2, <2>1, <3>1 DEF Cmd
  <2>3. cmd' = [cmd EXCEPT ![c] = k]
    BY Zenon, <1>4
  <2> HIDE DEF k, w
  <2>4. /\ keyfile' \in [Names -> 0..MaxKeys] /\ keys' \in 0..MaxKeys
        /\ keyfile'[Default] = key
        /\ \A n \in Names : keyfile[n] # 0 => keyfile'[n] = keyfile[n]
    BY Zenon, <1>1, <1>2, <1>4, Provisions
  <2>5. CommandInv(k, pipes, keyfile', redeemed, history)
    BY Zenon, <1>2, <2>1, <2>2, <2>4 DEF CommandInv, InHand, HasSpec, Redeems, Backed, Unused, Free
  <2> QED
    BY ZenonT(60), <1>1, <1>2, <2>2, <2>3, <2>4, <2>5, CommandGoes DEF Types
<1> QED
  BY ZenonT(60), <1>1, <1>3, <1>4 DEF Recipient

(* The conflict checks of ConnectExact.                                    *)
LEMMA LookupsPreserve ==
  ASSUME WorkInv, NEW c \in Commands, LookupRef(c) \/ LookupID(c)
  PROVE  WorkInv'
<1> DEFINE v == cmd[c]
<1>1. /\ v \in Cmd /\ cmd \in [Commands -> Cmd] /\ Types /\ InHand(v)
      /\ CommandInv(v, pipes, keyfile, redeemed, history)
  BY Zenon, CommandOK
<1>2. /\ v.pc \in {"byRef", "byID"} /\ Working(v) /\ ~v.spent /\ v.op \in {"token", "remote"}
      /\ UNCHANGED <<services, pipes, keyfile, keys, redeemed, binding, history>>
  BY Zenon, <1>1 DEF LookupRef, LookupID, At, Working, InHand, store, remote
<1>3. AccessStep(c) \in {"accept", "acquire"}
  BY Zenon DEF AccessStep
<1>4. ASSUME NEW k \in Cmd, cmd' = [cmd EXCEPT ![c] = k],
             CommandInv(k, pipes, keyfile, redeemed, history), Working(k) => k.op = v.op
      PROVE  WorkInv'
  BY ZenonT(60), <1>1, <1>2, <1>4, CommandGoes DEF Types
<1>5. ASSUME Go(c, "failed") PROVE WorkInv'
  <2>1. PICK k \in Cmd : cmd' = [cmd EXCEPT ![c] = k] /\ k.pc = "failed" /\ k.spent = v.spent
    BY <1>5, Goes
  <2> QED
    BY ZenonT(60), <1>2, <1>4, <2>1, Ended DEF Working
<1>6. ASSUME cmd' = [cmd EXCEPT ![c].pc = AccessStep(c), ![c].upsert = FALSE] PROVE WorkInv'
  <2> DEFINE k == [v EXCEPT !.pc = AccessStep(c), !.upsert = FALSE]
  <2>1. /\ k \in Cmd /\ k.pc = AccessStep(c) /\ k.op = v.op /\ k.spec = v.spec /\ ~k.upsert
        /\ ~k.spent
    BY ZenonT(60), <1>1, <1>2, <1>3 DEF Cmd
  <2>2. cmd' = [cmd EXCEPT ![c] = k]
    BY ZenonT(60), <1>1, <1>6
  <2> HIDE DEF k
  <2>3. CommandInv(k, pipes, keyfile, redeemed, history)
    BY ZenonT(60), <1>1, <1>2, <1>3, <2>1 DEF CommandInv, InHand, HasSpec, Redeems, Backed, Unused, Free
  <2> QED
    BY ZenonT(60), <1>4, <2>1, <2>2, <2>3
<1>7. ASSUME NEW to \in {"byID", "accept", "acquire"}, Go(c, to),
             to = "byID" => pipes[RecipientRef(v.name)] = None,
             to # "byID" => v.pc = "byID" /\ Unowned(v.spec.id, pipes)
      PROVE  WorkInv'
  <2>1. PICK k \in Cmd :
          /\ cmd' = [cmd EXCEPT ![c] = k] /\ k.pc = to /\ k.spent = v.spent
          /\ k.op = v.op /\ k.name = v.name /\ k.spec = v.spec
    BY <1>7, Goes
  <2>2. CommandInv(k, pipes, keyfile, redeemed, history)
    BY ZenonT(60), <1>1, <1>2, <1>7, <2>1 DEF CommandInv, InHand, HasSpec, Redeems, Backed, Unused, Free
  <2> QED
    BY ZenonT(60), <1>4, <2>1, <2>2
<1>8. CASE LookupRef(c)
  BY Zenon, <1>5, <1>6, <1>7, <1>8 DEF LookupRef
<1>9. CASE LookupID(c)
  <2>1. {n \in Names : pipes[n] # None /\ pipes[n].id = v.spec.id} = {} =>
          Unowned(v.spec.id, pipes)
    BY Zenon DEF Unowned
  <2> QED
    BY Zenon, <1>3, <1>5, <1>6, <1>7, <1>9, <2>1 DEF LookupID, At
<1> QED
  BY Zenon, <1>8, <1>9

(* The key a recipient redeems with is the one in its file.                *)
LEMMA AcceptKeyPreserves ==
  ASSUME WorkInv, NEW c \in Commands, AcceptKey(c)
  PROVE  WorkInv'
<1> DEFINE v == cmd[c]
<1>1. /\ v \in Cmd /\ cmd \in [Commands -> Cmd] /\ Types /\ InHand(v)
      /\ CommandInv(v, pipes, keyfile, redeemed, history)
  BY Zenon, CommandOK
<1>2. /\ v.pc = "accept" /\ Working(v) /\ ~v.spent /\ Default \in Names
      /\ UNCHANGED <<services, pipes, redeemed, binding, history>>
  BY Zenon, <1>1, WorkflowsAssumption DEF AcceptKey, At, Working, InHand, store, remote
<1>3. PICK key \in 1..MaxKeys :
        Provision(Default, key) /\ cmd' = [cmd EXCEPT ![c].pc = "redeem", ![c].key = key]
  BY ZenonT(60) DEF AcceptKey
<1> DEFINE k == [v EXCEPT !.pc = "redeem", !.key = key]
<1>4. /\ k \in Cmd /\ k.pc = "redeem" /\ k.key = key /\ k.op = v.op /\ k.spec = v.spec
      /\ k.name = v.name /\ k.upsert = v.upsert /\ ~k.spent
  <2>1. key \in 0..MaxKeys
    BY WorkflowsAssumption
  <2> QED
    BY ZenonT(60), <1>1, <1>2, <2>1 DEF Cmd
<1>5. cmd' = [cmd EXCEPT ![c] = k]
  BY ZenonT(60), <1>1, <1>3
<1> HIDE DEF k
<1>6. /\ keyfile' \in [Names -> 0..MaxKeys] /\ keys' \in 0..MaxKeys
      /\ keyfile'[Default] = key
      /\ \A n \in Names : keyfile[n] # 0 => keyfile'[n] = keyfile[n]
  BY Zenon, <1>1, <1>2, <1>3, Provisions
<1>7. ~history.rmOverlap => Backed(k, keyfile')
  <2>1. HasSpec(k) => HasSpec(v) /\ v.spec \in PipeSpec
    BY Zenon, <1>1, <1>2, <1>4 DEF HasSpec, InHand
  <2>2. \A s \in PipeSpec : s.path \in Names /\ s.id # 0
    BY SMTT(30) DEF PipeSpec
  <2> QED
    BY Zenon, <1>1, <1>4, <1>6, <2>1, <2>2 DEF CommandInv, Backed
<1>8. CommandInv(k, pipes, keyfile', redeemed, history)
  BY SMTT(30), <1>1, <1>2, <1>4, <1>6, <1>7 DEF CommandInv, InHand, HasSpec, Redeems, Unused, Free
<1> QED
  BY ZenonT(60), <1>1, <1>2, <1>4, <1>5, <1>6, <1>8, CommandGoes DEF Types

(* With access there, nothing that connect was told to store is in doubt.  *)
LEMMA AccessOK ==
  ASSUME WorkInv, NEW c \in Commands, cmd[c].pc \in {"bind", "acquire"}, AfterAccess(c)
  PROVE  \E k \in Cmd : /\ cmd' = [cmd EXCEPT ![c] = k]
                        /\ CommandInv(k, pipes, keyfile, redeemed, history)
                        /\ Working(k) => k.op = cmd[c].op
<1> DEFINE v == cmd[c]
<1>1. /\ v \in Cmd /\ cmd \in [Commands -> Cmd] /\ Types /\ InHand(v)
      /\ CommandInv(v, pipes, keyfile, redeemed, history)
  BY Zenon, CommandOK
<1>2. CASE Go(c, "done")
  <2>1. PICK k \in Cmd : cmd' = [cmd EXCEPT ![c] = k] /\ k.pc = "done"
    BY <1>2, Goes
  <2> QED
    BY ZenonT(60), <2>1, Ended DEF Working
<1>3. CASE /\ v.op # "accept" /\ v.upsert
           /\ cmd' = [cmd EXCEPT ![c].pc = "putPipe", ![c].name = RecipientRef(@)]
  <2> DEFINE k == [v EXCEPT !.pc = "putPipe", !.name = RecipientRef(v.name)]
  <2>1. RecipientRef(v.name) \in Names
    BY Zenon, <1>1, WorkflowsAssumption DEF RecipientRef, Cmd
  <2>2. /\ k \in Cmd /\ k.pc = "putPipe" /\ k.name = RecipientRef(v.name) /\ k.op = v.op
        /\ k.spec = v.spec /\ k.spent = v.spent
    BY ZenonT(60), <1>1, <2>1 DEF Cmd
  <2>3. cmd' = [cmd EXCEPT ![c] = k]
    BY ZenonT(60), <1>1, <1>3
  <2> HIDE DEF k
  <2>4. CommandInv(k, pipes, keyfile, redeemed, history)
    BY Zenon, <1>1, <1>3, <2>1, <2>2 DEF CommandInv, InHand, HasSpec, Redeems, Backed, Unused, Free
  <2> QED
    BY ZenonT(60), <2>2, <2>3, <2>4
<1> QED
  BY Zenon, <1>2, <1>3 DEF AfterAccess

(* A remote connection uses the accepted binding and its key.              *)
LEMMA AcquirePreserves ==
  ASSUME WorkInv, NEW c \in Commands, Acquire(c)
  PROVE  WorkInv'
<1> DEFINE v == cmd[c]
<1>1. Types /\ InHand(v)
  BY Zenon, CommandOK
<1>2. /\ v.pc = "acquire" /\ Working(v) /\ ~v.spent
      /\ UNCHANGED <<services, pipes, keyfile, keys, redeemed, binding, history>>
      /\ Go(c, "failed") \/ AfterAccess(c)
  BY Zenon, <1>1 DEF Acquire, At, Working, InHand, store, remote
<1>3. CASE Go(c, "failed")
  <2>1. PICK k \in Cmd : cmd' = [cmd EXCEPT ![c] = k] /\ k.pc = "failed" /\ k.spent = v.spent
    BY <1>3, Goes
  <2>2. CommandInv(k, pipes, keyfile, redeemed, history)
    BY Zenon, <1>2, <2>1, Ended
  <2> QED
    BY ZenonT(60), <1>1, <1>2, <2>1, <2>2, CommandGoes DEF Types, Working
<1>4. CASE AfterAccess(c)
  BY Zenon, <1>1, <1>2, <1>4, AccessOK, CommandGoes DEF Types
<1> QED
  BY Zenon, <1>2, <1>3, <1>4


(* The owner grants the invite to one key only.                            *)
LEMMA RedeemPreserves ==
  ASSUME WorkInv, NEW c \in Commands, Redeem(c)
  PROVE  WorkInv'
<1> DEFINE v == cmd[c]
<1>1. /\ v \in Cmd /\ cmd \in [Commands -> Cmd] /\ Types /\ InHand(v)
      /\ StoreInv(pipes, keyfile, redeemed, binding, history)
      /\ CommandInv(v, pipes, keyfile, redeemed, history)
      /\ \A d \in Commands \ {c} :
           /\ cmd[d] \in Cmd
           /\ CommandInv(cmd[d], pipes, keyfile, redeemed, history)
           /\ AloneInv(v, cmd[d], history) /\ AloneInv(cmd[d], v, history)
  BY Zenon, CommandOK
<1>2. /\ v.pc = "redeem" /\ Working(v) /\ ~v.spent /\ v.key # 0 /\ v.key \in 0..MaxKeys
      /\ UNCHANGED <<services, pipes, keyfile, keys, binding, history>>
  BY Zenon, <1>1 DEF Redeem, At, Working, InHand, store, Cmd
<1>3. ASSUME Go(c, "failed")
      PROVE  \E k \in Cmd : /\ cmd' = [cmd EXCEPT ![c] = k] /\ k.pc = "failed"
                            /\ \A by : CommandInv(k, pipes, keyfile, by, history)
  <2>1. PICK k \in Cmd : cmd' = [cmd EXCEPT ![c] = k] /\ k.pc = "failed" /\ k.spent = v.spent
    BY <1>3, Goes
  <2> QED
    BY ZenonT(60), <1>2, <2>1, Ended
<1>4. CASE Go(c, "failed") /\ UNCHANGED redeemed
  BY Zenon, <1>1, <1>2, <1>3, <1>4, CommandGoes DEF Types, Working
<1>5. ASSUME redeemed \in {0, v.key}, redeemed' = v.key,
             NEW k \in Cmd, cmd' = [cmd EXCEPT ![c] = k],
             CommandInv(k, pipes, keyfile, v.key, history), Working(k) => k.op = v.op
      PROVE  WorkInv'
  <2>1. StoreInv(pipes', keyfile', redeemed', binding', history')
    BY Zenon, <1>1, <1>2, <1>5 DEF StoreInv, CommandInv, Redeems
  <2>2. ASSUME NEW d \in Commands \ {c}
        PROVE  CommandInv(cmd[d], pipes', keyfile', redeemed', history')
    <3>1. Redeems(cmd[d], keyfile, v.key, history)
      BY ZenonT(60), <1>1, <1>5 DEF CommandInv, Redeems, InHand
    <3> QED
      BY Zenon, <1>1, <1>2, <1>5, <3>1 DEF CommandInv
  <2>3. \A d \in Commands \ {c} : AloneInv(k, cmd[d], history) /\ AloneInv(cmd[d], k, history)
    BY Zenon, <1>1, <1>2, <1>5 DEF AloneInv
  <2> QED
    BY ZenonT(60), <1>1, <1>2, <1>5, <2>1, <2>2, <2>3, CommandActs DEF Types
<1>6. CASE redeemed \in {0, v.key} /\ redeemed' = v.key /\ Go(c, "failed")
  BY Zenon, <1>3, <1>5, <1>6 DEF Working
<1>7. CASE /\ redeemed \in {0, v.key} /\ redeemed' = v.key
           /\ cmd' = [cmd EXCEPT ![c].pc = "bind", ![c].spent = TRUE]
  <2> DEFINE k == [v EXCEPT !.pc = "bind", !.spent = TRUE]
  <2>1. /\ k \in Cmd /\ k.pc = "bind" /\ k.key = v.key /\ k.op = v.op /\ k.spec = v.spec
        /\ k.name = v.name /\ k.upsert = v.upsert
    BY ZenonT(60), <1>1 DEF Cmd
  <2>2. cmd' = [cmd EXCEPT ![c] = k]
    BY ZenonT(60), <1>1, <1>7
  <2> HIDE DEF k
  <2>3. CommandInv(k, pipes, keyfile, v.key, history)
    BY ZenonT(60), <1>1, <1>2, <2>1 DEF CommandInv, InHand, HasSpec, Redeems, Backed, Unused, Free
  <2> QED
    BY ZenonT(60), <1>5, <1>7, <2>1, <2>2, <2>3
<1> QED
  BY Zenon, <1>4, <1>6, <1>7 DEF Redeem

(* The binding is stored under the key that redeemed the invite.           *)
LEMMA BindPreserves ==
  ASSUME WorkInv, NEW c \in Commands, Bind(c)
  PROVE  WorkInv'
<1> DEFINE v == cmd[c]
<1>1. /\ v \in Cmd /\ cmd \in [Commands -> Cmd] /\ Types /\ InHand(v)
      /\ StoreInv(pipes, keyfile, redeemed, binding, history)
      /\ CommandInv(v, pipes, keyfile, redeemed, history)
      /\ \A d \in Commands \ {c} :
           /\ CommandInv(cmd[d], pipes, keyfile, redeemed, history)
           /\ AloneInv(v, cmd[d], history) /\ AloneInv(cmd[d], v, history)
  BY Zenon, CommandOK
<1>2. /\ v.pc = "bind" /\ Working(v) /\ binding' = v.key /\ AfterAccess(c)
      /\ UNCHANGED <<services, pipes, keyfile, keys, redeemed, history>>
  BY Zenon DEF Bind, At, Working, store
<1>3. PICK k \in Cmd : /\ cmd' = [cmd EXCEPT ![c] = k]
                       /\ CommandInv(k, pipes, keyfile, redeemed, history)
                       /\ Working(k) => k.op = v.op
  BY Zenon, <1>2, AccessOK
<1>4. binding' = redeemed /\ binding' \in 0..MaxKeys
  BY Zenon, <1>1, <1>2 DEF CommandInv, Redeems, Types
<1>5. StoreInv(pipes', keyfile', redeemed', binding', history')
  BY Zenon, <1>1, <1>2, <1>4 DEF StoreInv
<1>6. \A d \in Commands \ {c} : AloneInv(k, cmd[d], history) /\ AloneInv(cmd[d], k, history)
  BY Zenon, <1>1, <1>2, <1>3 DEF AloneInv
<1> QED
  BY ZenonT(60), <1>1, <1>2, <1>3, <1>4, <1>5, <1>6, CommandActs DEF Types

-----------------------------------------------------------------------------
(* The writers of the table pipes, and rm.                                 *)

(* A row is inserted only where its name and its identity are free.        *)
LEMMA InsertPreserves ==
  ASSUME WorkInv, NEW c \in Commands, PutPipeInsert(c)
  PROVE  WorkInv'
<1> DEFINE v == cmd[c]
<1>1. /\ v \in Cmd /\ cmd \in [Commands -> Cmd] /\ Types /\ InHand(v)
      /\ StoreInv(pipes, keyfile, redeemed, binding, history)
      /\ CommandInv(v, pipes, keyfile, redeemed, history)
      /\ \A d \in Commands \ {c} :
           /\ cmd[d] \in Cmd
           /\ CommandInv(cmd[d], pipes, keyfile, redeemed, history)
           /\ AloneInv(v, cmd[d], history) /\ AloneInv(cmd[d], v, history)
  BY Zenon, CommandOK
<1>2. /\ v.pc = "insertPipe" /\ Working(v) /\ v.name \in Names /\ v.spec \in PipeSpec
      /\ UNCHANGED <<services, keyfile, keys, redeemed, binding, history>>
  BY Zenon, <1>1 DEF PutPipeInsert, At, Working, InHand, HasSpec, remote
<1>3. CASE ~Insertable(v.name, v.spec)
  <2>1. Go(c, "failed") /\ UNCHANGED pipes
    BY Zenon, <1>3 DEF PutPipeInsert
  <2>2. PICK k \in Cmd : cmd' = [cmd EXCEPT ![c] = k] /\ k.pc = "failed" /\ k.spent = v.spent
    BY <2>1, Goes
  <2>3. v.spent => history.overlap
    BY Zenon, <1>1, <1>2, <1>3 DEF CommandInv, Free, Unowned, Insertable
  <2>4. CommandInv(k, pipes, keyfile, redeemed, history)
    BY Zenon, <2>2, <2>3, Ended
  <2> QED
    BY ZenonT(60), <1>1, <1>2, <2>1, <2>2, <2>4, CommandGoes DEF Types, Working
<1>4. CASE Insertable(v.name, v.spec)
  <2>1. Go(c, "done") /\ pipes' = [pipes EXCEPT ![v.name] = v.spec]
    BY Zenon, <1>4 DEF PutPipeInsert
  <2>2. PICK k \in Cmd : cmd' = [cmd EXCEPT ![c] = k] /\ k.pc = "done"
    BY <2>1, Goes
  <2>3. /\ pipes' \in [Names -> PipeSpec \cup {None}] /\ pipes'[v.name] = v.spec
        /\ \A n \in Names \ {v.name} : pipes'[n] = pipes[n]
    BY Zenon, <1>1, <1>2, <2>1 DEF Types
  <2>4. CommandInv(k, pipes', keyfile', redeemed', history')
    BY Zenon, <2>2, Ended
  <2>5. Distinct(pipes')
    BY <1>1, <1>4, <2>3 DEF StoreInv, Distinct, Insertable
  <2>6. ~history.rmOverlap => keyfile[v.spec.path] = v.spec.id
    BY Zenon, <1>1, <1>2 DEF CommandInv, Backed, HasSpec
  <2>7. StoreInv(pipes', keyfile', redeemed', binding', history')
    BY Zenon, <1>1, <1>2, <2>3, <2>5, <2>6 DEF StoreInv
  <2>8. ASSUME NEW d \in Commands \ {c}
        PROVE  CommandInv(cmd[d], pipes', keyfile', redeemed', history')
    <3>1. ~history.rmOverlap => Unused(cmd[d], pipes')
      BY ZenonT(60), <1>1, <1>2 DEF AloneInv, Working, Unused, CommandInv, InHand
    <3>2. ~history.overlap => Free(cmd[d], pipes')
      BY ZenonT(60), <1>1, <1>2 DEF AloneInv, Working, Free
    <3> QED
      BY Zenon, <1>1, <1>2, <3>1, <3>2 DEF CommandInv
  <2>9. \A d \in Commands \ {c} : AloneInv(k, cmd[d], history') /\ AloneInv(cmd[d], k, history')
    BY Zenon, <2>2 DEF AloneInv, Working
  <2> QED
    BY ZenonT(60), <1>1, <1>2, <2>2, <2>3, <2>4, <2>7, <2>8, <2>9, CommandActs DEF Types
<1> QED
  BY Zenon, <1>3, <1>4

(* Deleting a row leaves its key to the command that deleted it.           *)
LEMMA DeletePreserves ==
  ASSUME WorkInv, NEW c \in Commands, DeletePipe(c)
  PROVE  WorkInv'
<1> DEFINE v == cmd[c]
           old == pipes[v.name]
<1>1. /\ v \in Cmd /\ cmd \in [Commands -> Cmd] /\ Types /\ InHand(v)
      /\ StoreInv(pipes, keyfile, redeemed, binding, history)
      /\ CommandInv(v, pipes, keyfile, redeemed, history)
      /\ \A d \in Commands \ {c} :
           /\ cmd[d] \in Cmd
           /\ CommandInv(cmd[d], pipes, keyfile, redeemed, history)
           /\ AloneInv(v, cmd[d], history) /\ AloneInv(cmd[d], v, history)
  BY Zenon, CommandOK
<1>2. /\ v.pc = "deletePipe" /\ Working(v) /\ v.name \in Names /\ v.op = "rm" /\ ~v.spent
      /\ UNCHANGED <<services, keyfile, keys, redeemed, binding, history>>
  BY Zenon, <1>1 DEF DeletePipe, At, Working, InHand, remote
<1>3. CASE Go(c, "failed") /\ UNCHANGED pipes
  <2>1. PICK k \in Cmd : cmd' = [cmd EXCEPT ![c] = k] /\ k.pc = "failed" /\ k.spent = v.spent
    BY <1>3, Goes
  <2>2. CommandInv(k, pipes, keyfile, redeemed, history)
    BY Zenon, <1>2, <2>1, Ended
  <2> QED
    BY ZenonT(60), <1>1, <1>2, <1>3, <2>1, <2>2, CommandGoes DEF Types, Working
<1>4. CASE /\ old # None /\ pipes' = [pipes EXCEPT ![v.name] = None]
           /\ cmd' = [cmd EXCEPT ![c].pc = "unlink", ![c].arg = old.path]
  <2> DEFINE k == [v EXCEPT !.pc = "unlink", !.arg = old.path]
  <2>1. old.path \in Names /\ old \in PipeSpec
    BY Zenon, <1>1, <1>2, <1>4 DEF Types, PipeSpec
  <2>2. /\ k \in Cmd /\ k.pc = "unlink" /\ k.arg = old.path /\ k.op = "rm" /\ k.name = v.name
        /\ ~k.spent
    BY ZenonT(60), <1>1, <1>2, <2>1 DEF Cmd
  <2>3. cmd' = [cmd EXCEPT ![c] = k]
    BY ZenonT(60), <1>1, <1>4
  <2> HIDE DEF k
  <2>4. /\ pipes' \in [Names -> PipeSpec \cup {None}] /\ pipes'[v.name] = None
        /\ \A n \in Names \ {v.name} : pipes'[n] = pipes[n]
    BY Zenon, <1>1, <1>2, <1>4 DEF Types
  <2>5. StoreInv(pipes', keyfile', redeemed', binding', history')
    BY ZenonT(60), <1>1, <1>2, <2>4 DEF StoreInv, Distinct
  <2>6. ASSUME ~history.rmOverlap PROVE Unused(k, pipes')
    <3>1. ASSUME NEW n \in Names \ {v.name}, pipes[n] # None, pipes[n].path = old.path PROVE FALSE
      <4>1. pipes[n].id = old.id
        BY Zenon, <1>1, <1>2, <1>4, <2>6, <3>1 DEF StoreInv
      <4> QED
        BY Zenon, <1>1, <1>2, <1>4, <3>1, <4>1 DEF StoreInv, Distinct
    <3> QED
      BY Zenon, <2>2, <2>4, <3>1 DEF Unused
  <2>7. CommandInv(k, pipes', keyfile', redeemed', history')
    BY Zenon, <1>2, <2>1, <2>2, <2>6 DEF CommandInv, InHand, HasSpec, Redeems, Backed, Free
  <2>8. ASSUME NEW d \in Commands \ {c}
        PROVE  CommandInv(cmd[d], pipes', keyfile', redeemed', history')
    <3>1. ~history.rmOverlap => Unused(cmd[d], pipes')
      BY Zenon, <1>1, <1>2 DEF AloneInv, Working, Unused
    <3>2. ~history.overlap => Free(cmd[d], pipes')
      BY Zenon, <1>1, <1>2 DEF AloneInv, Working, Free
    <3> QED
      BY Zenon, <1>1, <1>2, <3>1, <3>2 DEF CommandInv
  <2>9. \A d \in Commands \ {c} : AloneInv(k, cmd[d], history') /\ AloneInv(cmd[d], k, history')
    BY Zenon, <1>1, <1>2, <2>2 DEF AloneInv
  <2> QED
    BY ZenonT(60), <1>1, <1>2, <2>2, <2>3, <2>4, <2>5, <2>7, <2>8, <2>9, CommandActs DEF Types
<1> QED
  BY Zenon, <1>3, <1>4 DEF DeletePipe

(* The key file goes after the row that it backed.                         *)
LEMMA UnlinkPreserves ==
  ASSUME WorkInv, NEW c \in Commands, UnlinkKey(c)
  PROVE  WorkInv'
<1> DEFINE v == cmd[c]
<1>1. /\ v \in Cmd /\ cmd \in [Commands -> Cmd] /\ Types /\ InHand(v)
      /\ StoreInv(pipes, keyfile, redeemed, binding, history)
      /\ CommandInv(v, pipes, keyfile, redeemed, history)
      /\ \A d \in Commands \ {c} :
           /\ cmd[d] \in Cmd
           /\ CommandInv(cmd[d], pipes, keyfile, redeemed, history)
           /\ AloneInv(v, cmd[d], history) /\ AloneInv(cmd[d], v, history)
  BY Zenon, CommandOK
<1>2. /\ v.pc = "unlink" /\ Working(v) /\ v.op = "rm" /\ v.arg \in Names
      /\ keyfile' = [keyfile EXCEPT ![v.arg] = 0] /\ Go(c, "done")
      /\ UNCHANGED <<services, pipes, keys, redeemed, binding>>
  BY Zenon, <1>1 DEF UnlinkKey, At, Working, InHand, store, remote
<1>3. /\ history' \in History /\ history'.overlap = history.overlap
      /\ history'.rmOverlap = history.rmOverlap
      /\ ~history'.removed => ~history.removed /\ v.arg # Default
  BY ZenonT(60), <1>1 DEF UnlinkKey, Types, History
<1>4. /\ keyfile' \in [Names -> 0..MaxKeys]
      /\ \A n \in Names \ {v.arg} : keyfile'[n] = keyfile[n]
  BY <1>1, <1>2, WorkflowsAssumption DEF Types
<1>5. PICK k \in Cmd : cmd' = [cmd EXCEPT ![c] = k] /\ k.pc = "done"
  BY <1>2, Goes
<1>6. CommandInv(k, pipes', keyfile', redeemed', history')
  BY Zenon, <1>5, Ended
<1>7. Default \in Names
  BY Zenon, WorkflowsAssumption
<1>8. StoreInv(pipes', keyfile', redeemed', binding', history')
  <2>1. ~history.rmOverlap => \A n \in Names : pipes[n] # None => pipes[n].path # v.arg
    BY Zenon, <1>1, <1>2 DEF CommandInv, Unused
  <2>2. \A n \in Names : pipes[n] # None => pipes[n].path \in Names
    BY Zenon, <1>1 DEF Types, PipeSpec
  <2> QED
    BY Zenon, <1>1, <1>2, <1>3, <1>4, <1>7, <2>1, <2>2 DEF StoreInv
<1>9. ASSUME NEW d \in Commands \ {c}
      PROVE  CommandInv(cmd[d], pipes', keyfile', redeemed', history')
  <2>1. Redeems(cmd[d], keyfile', redeemed, history')
    BY ZenonT(60), <1>1, <1>3, <1>4, <1>7 DEF CommandInv, Redeems
  <2>2. ~history.rmOverlap => Backed(cmd[d], keyfile')
    BY Zenon, <1>1, <1>2 DEF AloneInv, Working, Backed, HasSpec
  <2> QED
    BY Zenon, <1>1, <1>2, <1>3, <2>1, <2>2 DEF CommandInv
<1>10. \A d \in Commands \ {c} : AloneInv(k, cmd[d], history') /\ AloneInv(cmd[d], k, history')
  BY Zenon, <1>5 DEF AloneInv, Working
<1> QED
  BY ZenonT(60), <1>1, <1>2, <1>3, <1>4, <1>5, <1>6, <1>8, <1>9, <1>10, CommandActs DEF Types


-----------------------------------------------------------------------------
(* A command is given.                                                     *)
LEMMA BeginPreserves ==
  ASSUME WorkInv, NEW c \in Commands,
         NEW op \in {"service", "attach", "create", "accept", "token", "remote", "rm", "rmService"},
         NEW to \in {"putService", "key", "accept", "recipient", "deletePipe", "deleteService"},
         NEW name \in Names \cup {None},
         NEW arg \in Names \cup Targets \cup Listens \cup {"tubo", None},
         NEW spec \in PipeSpec \cup {None},
         Begin(c, op, to, name, arg, spec),
         to # "accept" /\ to # "recipient" => name \in Names,
         to = "putService" => op \in {"service", "attach"} /\ arg \in Targets,
         to = "key" => op = "create" /\ spec \in PipeSpec /\ spec.path = name,
         to = "accept" => op = "accept",
         to = "recipient" => op \in {"token", "remote"} /\ arg \in Listens,
         to = "deletePipe" => op = "rm"
  PROVE  WorkInv'
<1> DEFINE k == [Idle EXCEPT !.op = op, !.pc = to, !.name = name, !.arg = arg, !.spec = spec]
<1>1. /\ Types /\ cmd \in [Commands -> Cmd]
      /\ StoreInv(pipes, keyfile, redeemed, binding, history)
      /\ \A d \in Commands \ {c} :
           cmd[d] \in Cmd /\ CommandInv(cmd[d], pipes, keyfile, redeemed, history)
  BY Zenon, CommandOK
<1>2. /\ k \in Cmd /\ k.op = op /\ k.pc = to /\ k.name = name /\ k.arg = arg /\ k.spec = spec
      /\ ~k.spent
  <2> DEFINE i == [Idle EXCEPT !.op = op, !.pc = to]
  <2>1. i \in Cmd /\ i.op = op /\ i.pc = to /\ ~i.spent
    BY ZenonT(60), IdleOK DEF Cmd
  <2>2. k = [i EXCEPT !.name = name, !.arg = arg, !.spec = spec]
    OBVIOUS
  <2> HIDE DEF i, k
  <2> QED
    BY ZenonT(60), <2>1, <2>2 DEF Cmd
<1>3. /\ cmd' = [cmd EXCEPT ![c] = k]
      /\ UNCHANGED <<services, pipes, keyfile, keys, redeemed, binding>>
  BY Zenon DEF Begin, store, remote
<1> DEFINE others == {d \in Commands : Active(d)}
<1>4. /\ history' \in History /\ history'.removed = history.removed
      /\ history.overlap => history'.overlap
      /\ history.rmOverlap => history'.rmOverlap
      /\ others # {} => history'.overlap
      /\ others # {} /\ (op = "rm" \/ \E d \in others : cmd[d].op = "rm") => history'.rmOverlap
  <2>1. history \in History
    BY Zenon, <1>1 DEF Types
  <2> QED
    BY ZenonT(60), <2>1 DEF Begin, History
<1>5. \A d \in Commands : Working(cmd[d]) => d \in others
  BY Zenon DEF Active, Working
<1> HIDE DEF k, others
<1>6. CommandInv(k, pipes', keyfile', redeemed', history')
  BY Zenon, <1>2 DEF CommandInv, InHand, HasSpec, Redeems, Backed, Unused, Free
<1>7. StoreInv(pipes', keyfile', redeemed', binding', history')
  BY Zenon, <1>1, <1>3, <1>4 DEF StoreInv
<1>8. ASSUME NEW d \in Commands \ {c}
      PROVE  CommandInv(cmd[d], pipes', keyfile', redeemed', history')
  BY Zenon, <1>1, <1>3, <1>4 DEF CommandInv, Redeems
<1>9. ASSUME NEW d \in Commands \ {c}
      PROVE  AloneInv(k, cmd[d], history') /\ AloneInv(cmd[d], k, history')
  BY Zenon, <1>2, <1>4, <1>5 DEF AloneInv
<1> QED
  BY ZenonT(60), <1>1, <1>2, <1>3, <1>4, <1>6, <1>7, <1>8, <1>9, CommandActs DEF Types

(* Every step preserves the invariant.                                     *)
LEMMA WorkPreserves == WorkInv /\ [Next]_vars => WorkInv'
<1> SUFFICES ASSUME WorkInv, [Next]_vars PROVE WorkInv'
  OBVIOUS
<1>1. CASE UNCHANGED vars
  BY Zenon, <1>1 DEF vars, WorkInv, Types
<1>2. ASSUME NEW c \in Commands, NEW n \in Names, NEW t \in Targets,
             ServiceCreate(c, n, t) \/ Attach(c, n, t)
      PROVE  WorkInv'
  BY Zenon, <1>2, BeginPreserves DEF ServiceCreate, Attach
<1>3. ASSUME NEW c \in Commands, NEW n \in Names, NEW m \in Names,
             NEW i \in {"tubo"} \cup Listens,
             PipeCreate(c, n, ServiceRef(m), i) \/ PipeCreate(c, n, PipeRef(m), i)
      PROVE  WorkInv'
  <2>1. PICK target \in {ServiceRef(m), PipeRef(m)} : PipeCreate(c, n, target, i)
    BY Zenon, <1>3
  <2> DEFINE s == [id |-> 1, target |-> target, ingress |-> i, by |-> "scoped",
                   path |-> n, at |-> c]
  <2>2. 1 \in 1..MaxKeys
    BY WorkflowsAssumption
  <2>3. s \in PipeSpec /\ s.path = n
    BY Zenon, <2>2 DEF PipeSpec
  <2>4. Begin(c, "create", "key", n, i, s)
    BY Zenon, <2>1 DEF PipeCreate
  <2> HIDE DEF s
  <2> QED
    BY Zenon, <2>3, <2>4, BeginPreserves
<1>4. ASSUME NEW c \in Commands, Accept(c) PROVE WorkInv'
  BY Zenon, <1>4, BeginPreserves DEF Accept
<1>5. ASSUME NEW c \in Commands, NEW n \in Names \cup {None}, NEW l \in Listens,
             Connect(c, "token", n, l) \/ Connect(c, "remote", n, l)
      PROVE  WorkInv'
  BY Zenon, <1>5, BeginPreserves DEF Connect
<1>6. ASSUME NEW c \in Commands, NEW n \in Names, RemovePipe(c, n) \/ RemoveService(c, n)
      PROVE  WorkInv'
  BY Zenon, <1>6, BeginPreserves DEF RemovePipe, RemoveService
<1>7. ASSUME NEW c \in Commands,
             \/ PutServiceSelect(c) \/ PutServiceInsert(c) \/ PublishGrant(c) \/ PutPipeSelect(c)
             \/ DeleteService(c) \/ Breaks(c) \/ Kill(c)
      PROVE  WorkInv'
  BY Zenon, <1>7, DefinitionsPreserve
<1>8. ASSUME NEW c \in Commands, OwnerKey(c) \/ PreserveIdentity(c) \/ PutPipeInsert(c)
      PROVE  WorkInv'
  BY Zenon, <1>8, OwnerKeyPreserves, IdentityPreserves, InsertPreserves
<1>9. ASSUME NEW c \in Commands, Recipient(c) \/ LookupRef(c) \/ LookupID(c) \/ AcceptKey(c)
      PROVE  WorkInv'
  BY Zenon, <1>9, RecipientPreserves, LookupsPreserve, AcceptKeyPreserves
<1>10. ASSUME NEW c \in Commands, Redeem(c) \/ Bind(c) \/ Acquire(c) PROVE WorkInv'
  BY Zenon, <1>10, RedeemPreserves, BindPreserves, AcquirePreserves
<1>11. ASSUME NEW c \in Commands, DeletePipe(c) \/ UnlinkKey(c) PROVE WorkInv'
  BY Zenon, <1>11, DeletePreserves, UnlinkPreserves
<1> QED
  BY Zenon, <1>1, <1>2, <1>3, <1>4, <1>5, <1>6, <1>7, <1>8, <1>9, <1>10, <1>11 DEF Next

(* The invariant holds throughout.                                         *)
LEMMA WorkInvariance == Spec => []WorkInv
BY WorkStarts, WorkPreserves, PTL DEF Spec

(* KeyBacksPipe: for any number of names and commands, interleaved and     *)
(* killed between any two store and file operations, every Pipe definition *)
(* names a file with the key its ID comes from, unless rm of a Pipe        *)
(* overlapped another command.                                             *)
THEOREM KeysBackPipes == Spec => []KeyBacksPipe
<1>1. WorkInv => KeyBacksPipe
  <2> SUFFICES ASSUME WorkInv PROVE KeyBacksPipe
    OBVIOUS
  <2>1. Types /\ StoreInv(pipes, keyfile, redeemed, binding, history)
    BY Zenon DEF WorkInv
  <2>2. TypeOK
    BY Zenon, <2>1 DEF Types, TypeOK
  <2> QED
    BY Zenon, <2>1, <2>2 DEF KeyBacksPipe, StoreInv
<1> QED
  BY <1>1, WorkInvariance, PTL

(* InviteNotBurnt: the key that redeemed the invite stays on disk unless   *)
(* rm deleted it, a binding is that key's, and a connect that was told it  *)
(* redeemed the invite fails afterwards only if another command overlapped *)
(* it.                                                                     *)
THEOREM InvitesAreNotBurnt == Spec => []InviteNotBurnt
<1>1. WorkInv => InviteNotBurnt
  BY Zenon DEF WorkInv, StoreInv, CommandInv, Redeems, InviteNotBurnt
<1> QED
  BY <1>1, WorkInvariance, PTL

-----------------------------------------------------------------------------
(* Induction over the hops of a path.                                      *)

(* Every number is in a set that has 0 and, with a number, the next one:   *)
(* otherwise the well-founded order of the numbers has a least one that is *)
(* not in it.                                                              *)
LEMMA SetInduction ==
  ASSUME NEW T, 0 \in T, \A n \in Nat : n \in T => n + 1 \in T
  PROVE  Nat \subseteq T
<1> DEFINE U == Nat \ T
<1> SUFFICES ASSUME U # {} PROVE FALSE
  OBVIOUS
<1>1. PICK m \in U : \A k \in U : ~(<<k, m>> \in OpToRel(<, Nat))
  BY WFMin, NatLessThanWellFounded, Zenon
<1>2. m \in Nat /\ m # 0
  OBVIOUS
<1>3. m - 1 \in Nat /\ m - 1 < m /\ (m - 1) + 1 = m
  BY <1>2
<1>4. m - 1 \in U
  BY <1>3
<1>5. <<m - 1, m>> \in OpToRel(<, Nat)
  BY <1>2, <1>3, Zenon DEF OpToRel
<1> QED
  BY Zenon, <1>1, <1>4, <1>5

(* The first n iterations of F from a.                                     *)
Iterations(S, a, F, n) ==
    {g \in [0..n -> S] : g[0] = a /\ \A h \in 1..n : g[h] = F[g[h - 1]]}

(* There are such iterations, which is what unfolds a recursive function.  *)
LEMMA Iterate ==
  ASSUME NEW S, NEW a \in S, NEW F \in [S -> S], NEW n \in Nat
  PROVE  Iterations(S, a, F, n) # {}
<1> DEFINE Runs(m) == {g \in [0..m -> S] : g[0] = a /\ \A h \in 1..m : g[h] = F[g[h - 1]]}
           T == {m \in Nat : Runs(m) # {}}
<1>1. 0 \in T
  <2>1. [i \in 0..0 |-> a] \in Runs(0)
    OBVIOUS
  <2> QED
    BY Zenon, <2>1
<1>2. ASSUME NEW m \in Nat, m \in T PROVE m + 1 \in T
  <2>1. PICK g \in Runs(m) : TRUE
    BY Zenon, <1>2
  <2> DEFINE f == [i \in 0..(m + 1) |-> IF i = m + 1 THEN F[g[m]] ELSE g[i]]
  <2>2. f \in Runs(m + 1)
    <3>1. g \in [0..m -> S] /\ g[0] = a /\ \A h \in 1..m : g[h] = F[g[h - 1]]
      BY Zenon, <2>1
    <3>2. f \in [0..(m + 1) -> S] /\ f[0] = a
      BY <3>1
    <3>3. ASSUME NEW h \in 1..(m + 1) PROVE f[h] = F[f[h - 1]]
      BY <3>1
    <3> QED
      BY Zenon, <3>2, <3>3
  <2>3. m + 1 \in Nat
    OBVIOUS
  <2> QED
    BY Zenon, <2>2, <2>3
<1>3. Nat \subseteq T
  <2> HIDE DEF T
  <2> QED
    BY Zenon, <1>1, <1>2, SetInduction
<1>4. n \in T
  BY Zenon, <1>3
<1> QED
  BY Zenon, <1>4 DEF Iterations

-----------------------------------------------------------------------------
(* Chains and trails through the definitions.                              *)

(* What the commands keep true of the tables: every definition is valid    *)
(* under its name, and no two have the same ID.                            *)
GraphOK ==
    /\ services \in [Names -> Targets \cup {None}]
    /\ pipes \in [Names -> PipeSpec \cup {None}]
    /\ \A n \in Names : pipes[n] # None => Valid(n, pipes[n])
    /\ \A n, m \in Names :
          pipes[n] # None /\ pipes[m] # None /\ pipes[n].id = pipes[m].id => n = m

(* There is a Pipe of this name.                                           *)
Defined(n) == n \in Names /\ pipes[n] # None

(* A chain of k Pipes from start.                                          *)
From(c, k, start) ==
    /\ k \in Nat \ {0}
    /\ c \in [1..k -> Names]
    /\ c[1] = start
    /\ \A i, j \in 1..k : c[i] = c[j] => i = j
    /\ \A i \in 1..k : pipes[c[i]] # None
    /\ \A i \in 1..(k - 1) : pipes[c[i]].target = PipeRef(c[i + 1])
    /\ \E n \in Names : services[n] # None /\ pipes[c[k]].target = ServiceRef(n)

(* The first m names that one meets from start: all but the last are       *)
(* distinct defined Pipes.                                                 *)
Trail(e, m, start) ==
    /\ m \in Nat \ {0}
    /\ e \in [1..m -> Names \cup {Remote}]
    /\ e[1] = start
    /\ \A i, j \in 1..(m - 1) : e[i] = e[j] => i = j
    /\ \A i \in 1..(m - 1) : Defined(e[i]) /\ pipes[e[i]].target = PipeRef(e[i + 1])

(* Names are met for the first time.                                       *)
Fresh(e, m) == \A i \in 1..(m - 1) : e[i] # e[m]

(* A function on 1..k is a sequence.                                       *)
LEMMA FcnLen ==
  ASSUME NEW S, NEW k \in Nat, NEW c \in [1..k -> S]
  PROVE  c \in Seq(S) /\ Len(c) = k /\ DOMAIN c = 1..k
OBVIOUS

(* The reference of TraversalAgrees, in terms of From.                     *)
LEMMA ChainsAreFrom ==
  ASSUME GraphOK, NEW start, NEW n \in Nat, NEW c
  PROVE  c \in Chains(start, n) <=> \E k \in 1..n : From(c, k, start)
<1>1. DOMAIN pipes = Names /\ DOMAIN services = Names
  BY Zenon DEF GraphOK
<1>2. ASSUME NEW k \in 1..n, c \in [1..k -> Names]
      PROVE  c[1] = start /\ IsChain(c) <=> From(c, k, start)
  <2>1. Len(c) = k /\ DOMAIN c = 1..k
    BY <1>2, FcnLen
  <2>2. k \in Nat \ {0}
    OBVIOUS
  <2> QED
    BY Zenon, <1>1, <1>2, <2>1, <2>2 DEF IsChain, From, IsInjective
<1>3. ASSUME NEW k \in 1..n, From(c, k, start) PROVE c \in [1..k -> Names]
  BY Zenon, <1>3 DEF From
<1>4. c \in Chains(start, n)
      <=> \E k \in 1..n : c \in [1..k -> Names] /\ c[1] = start /\ IsChain(c)
  BY Zenon, <1>1 DEF Chains
<1> QED
  BY Zenon, <1>2, <1>3, <1>4

(* Every chain from start follows the trail.                               *)
LEMMA TrailLeads ==
  ASSUME NEW e, NEW m, NEW start, Trail(e, m, start), NEW c, NEW k, From(c, k, start)
  PROVE  k >= m /\ \A i \in 1..m : c[i] = e[i]
<1> DEFINE T == {i \in Nat : i < m => i < k /\ c[i + 1] = e[i + 1]}
<1>0. m \in Nat \ {0} /\ k \in Nat \ {0}
  BY Zenon DEF Trail, From
<1>1. 0 \in T
  BY <1>0 DEF Trail, From
<1>2. ASSUME NEW i \in Nat, i \in T PROVE i + 1 \in T
  <2> SUFFICES ASSUME i + 1 < m PROVE i + 1 < k /\ c[i + 2] = e[i + 2]
    BY <1>0
  <2>1. i < k /\ c[i + 1] = e[i + 1]
    BY <1>0, <1>2
  <2>2. i + 1 \in 1..(m - 1) /\ i + 1 \in 1..k /\ (i + 1) + 1 = i + 2
    BY <1>0, <2>1
  <2>3. pipes[c[i + 1]].target = PipeRef(e[i + 2])
    BY Zenon, <2>1, <2>2 DEF Trail
  <2>4. i + 1 # k
    <3> SUFFICES ASSUME i + 1 = k PROVE FALSE
      OBVIOUS
    <3>1. PICK n \in Names : pipes[c[k]].target = ServiceRef(n)
      BY Zenon DEF From
    <3> QED
      BY <2>3, <3>1 DEF ServiceRef, PipeRef
  <2>5. i + 1 \in 1..(k - 1)
    BY <1>0, <2>2, <2>4
  <2>6. pipes[c[i + 1]].target = PipeRef(c[i + 2])
    BY Zenon, <2>2, <2>5 DEF From
  <2> QED
    BY <1>0, <2>3, <2>5, <2>6 DEF PipeRef
<1>3. Nat \subseteq T
  <2> HIDE DEF T
  <2> QED
    BY Zenon, <1>1, <1>2, SetInduction
<1>4. ASSUME NEW i \in 1..m PROVE i - 1 \in Nat /\ i - 1 < m /\ (i - 1) + 1 = i
  BY <1>0
<1>5. ASSUME NEW i \in 1..m PROVE i - 1 < k /\ c[i] = e[i]
  <2>1. i - 1 \in T
    BY Zenon, <1>3, <1>4
  <2> QED
    BY <1>4, <2>1
<1>6. m \in 1..m
  BY <1>0
<1>7. m - 1 < k
  BY Zenon, <1>5, <1>6
<1> QED
  BY <1>0, <1>5, <1>7

(* A trail that comes back leads nowhere.                                  *)
LEMMA CyclesEnd ==
  ASSUME NEW e, NEW m, NEW start, Trail(e, m, start), ~Fresh(e, m), NEW c, NEW k
  PROVE  ~From(c, k, start)
<1> SUFFICES ASSUME From(c, k, start) PROVE FALSE
  OBVIOUS
<1>0. m \in Nat \ {0} /\ k \in Nat \ {0}
  BY Zenon DEF Trail, From
<1>1. k >= m /\ \A i \in 1..m : c[i] = e[i]
  BY TrailLeads
<1>2. PICK i \in 1..(m - 1) : e[i] = e[m]
  BY Zenon DEF Fresh
<1>3. i \in 1..m /\ m \in 1..m /\ i \in 1..k /\ m \in 1..k /\ i # m
  BY <1>0, <1>1
<1>4. c[i] = c[m]
  BY Zenon, <1>1, <1>2, <1>3
<1> QED
  BY Zenon, <1>3, <1>4 DEF From

(* ... and so does one to a Pipe that is not defined, or to a Service that *)
(* is not.                                                                 *)
LEMMA LooseEnds ==
  ASSUME NEW e, NEW m, NEW start, Trail(e, m, start), NEW c, NEW k,
         \/ ~Defined(e[m])
         \/ /\ pipes[e[m]].target.kind = "service"
            /\ pipes[e[m]].target.name \in Names => services[pipes[e[m]].target.name] = None
  PROVE  ~From(c, k, start)
<1> SUFFICES ASSUME From(c, k, start) PROVE FALSE
  OBVIOUS
<1>0. m \in Nat \ {0} /\ k \in Nat \ {0}
  BY Zenon DEF Trail, From
<1>1. k >= m /\ \A i \in 1..m : c[i] = e[i]
  BY TrailLeads
<1>2. m \in 1..m /\ m \in 1..k
  BY <1>0, <1>1
<1>3. c[m] = e[m] /\ c[m] \in Names /\ pipes[c[m]] # None
  BY Zenon, <1>1, <1>2 DEF From
<1>4. pipes[c[m]].target.kind = "service"
      /\ (pipes[c[m]].target.name \in Names => services[pipes[c[m]].target.name] = None)
  BY Zenon, <1>3 DEF Defined
<1>5. CASE m = k
  <2>1. PICK n \in Names : services[n] # None /\ pipes[c[m]].target = ServiceRef(n)
    BY Zenon, <1>5 DEF From
  <2> QED
    BY <1>4, <2>1 DEF ServiceRef
<1>6. CASE m # k
  <2>1. m \in 1..(k - 1)
    BY <1>0, <1>1, <1>6
  <2>2. pipes[c[m]].target = PipeRef(c[m + 1])
    BY Zenon, <2>1 DEF From
  <2> QED
    BY <1>4, <2>2 DEF PipeRef
<1> QED
  BY Zenon, <1>5, <1>6

(* A trail to a new Pipe whose Service is defined is a chain.              *)
LEMMA TrailEnds ==
  ASSUME NEW e, NEW m, NEW start, Trail(e, m, start), Fresh(e, m), Defined(e[m]),
         NEW n \in Names, services[n] # None, pipes[e[m]].target = ServiceRef(n)
  PROVE  From(e, m, start)
<1>0. m \in Nat \ {0}
  BY Zenon DEF Trail
<1>1. \A i \in 1..m : i \in 1..(m - 1) \/ i = m
  BY <1>0
<1>2. \A i \in 1..m : Defined(e[i])
  BY Zenon, <1>1 DEF Trail
<1>3. \A i, j \in 1..m : e[i] = e[j] => i = j
  BY Zenon, <1>1 DEF Trail, Fresh
<1>4. e \in [1..m -> Names]
  <2>1. e \in [1..m -> Names \cup {Remote}]
    BY Zenon DEF Trail
  <2> QED
    BY Zenon, <1>2, <2>1 DEF Defined
<1> QED
  BY Zenon, <1>0, <1>2, <1>3, <1>4 DEF Trail, From, Defined

(* The trail with one more name.                                           *)
Longer(e, m, n) == [i \in 1..(m + 1) |-> IF i = m + 1 THEN n ELSE e[i]]

(* A trail to a new Pipe whose target is a Pipe goes on.                   *)
LEMMA TrailGoesOn ==
  ASSUME NEW e, NEW m, NEW start, Trail(e, m, start), Fresh(e, m), Defined(e[m]),
         NEW n \in Names \cup {Remote}, pipes[e[m]].target = PipeRef(n)
  PROVE  /\ Trail(Longer(e, m, n), m + 1, start)
         /\ Longer(e, m, n)[m + 1] = n
         /\ \A i \in 1..m : Longer(e, m, n)[i] = e[i]
<1> DEFINE f == Longer(e, m, n)
<1>0. m \in Nat \ {0} /\ e \in [1..m -> Names \cup {Remote}] /\ (m + 1) - 1 = m /\ 1 \in 1..m
  BY DEF Trail
<1>1. f \in [1..(m + 1) -> Names \cup {Remote}] /\ f[m + 1] = n /\ \A i \in 1..m : f[i] = e[i]
  BY <1>0 DEF Longer
<1>2. \A i \in 1..m : i \in 1..(m - 1) \/ i = m
  BY <1>0
<1>3. \A i \in 1..(m - 1) : i + 1 \in 1..m
  BY <1>0
<1>4. \A i, j \in 1..m : f[i] = f[j] => i = j
  BY Zenon, <1>1, <1>2 DEF Trail, Fresh
<1>5. \A i \in 1..m : Defined(f[i]) /\ pipes[f[i]].target = PipeRef(f[i + 1])
  BY Zenon, <1>1, <1>2, <1>3 DEF Trail
<1>6. m + 1 \in Nat \ {0} /\ f[1] = start
  BY <1>0, <1>1 DEF Trail
<1> HIDE DEF f
<1>7. Trail(f, m + 1, start)
  BY Zenon, <1>0, <1>1, <1>4, <1>5, <1>6 DEF Trail
<1> QED
  BY Zenon, <1>1, <1>7 DEF f

(* The target of a definition is a Pipe or a Service.                      *)
LEMMA TargetKinds ==
  ASSUME GraphOK, NEW n, Defined(n)
  PROVE  /\ pipes[n] \in PipeSpec
         /\ \/ /\ pipes[n].target.kind = "pipe"
               /\ pipes[n].target.name \in Names \cup {Remote}
               /\ pipes[n].target = PipeRef(pipes[n].target.name)
            \/ /\ pipes[n].target.kind = "service"
               /\ pipes[n].target.name \in Names
               /\ pipes[n].target = ServiceRef(pipes[n].target.name)
<1>1. pipes[n] \in PipeSpec
  BY Zenon DEF GraphOK, Defined
<1>2. \/ \E x \in Names : pipes[n].target = ServiceRef(x)
      \/ \E x \in Names \cup {Remote} : pipes[n].target = PipeRef(x)
  BY <1>1 DEF PipeSpec
<1>3. CASE \E x \in Names : pipes[n].target = ServiceRef(x)
  BY <1>1, <1>3 DEF ServiceRef
<1>4. CASE \E x \in Names \cup {Remote} : pipes[n].target = PipeRef(x)
  BY <1>1, <1>4 DEF PipeRef
<1> QED
  BY Zenon, <1>1, <1>2, <1>3, <1>4

(* What the loaders find.                                                  *)
LEMMA Loads ==
  ASSUME GraphOK, NEW n
  PROVE  /\ Load(pipes, n) = IF Defined(n) THEN pipes[n] ELSE None
         /\ Load(services, n) = IF n \in Names THEN services[n] ELSE None
BY Zenon DEF GraphOK, Load, Defined

-----------------------------------------------------------------------------
(* domain.ResolveLogicalPath.                                              *)

(* The errors of the loop, and the states it goes through.                 *)
Ends == {"cycle", "not_found", "invalid"}

Walks == [at: Names \cup {Remote}, path: Seq(Names), out: {"more", "service"} \cup Ends]

(* Where a walk from start is after h hops: at the end of a trail, or it   *)
(* has found a chain, or there is none.                                    *)
Resolved(start, h, w) ==
    \/ /\ w.out = "more"
       /\ \E e : /\ Trail(e, h + 1, start) /\ w.at = e[h + 1]
                 /\ Len(w.path) = h /\ \A i \in 1..h : w.path[i] = e[i]
    \/ /\ w.out = "service"
       /\ \E k \in 1..h : \E c : From(c, k, start)
    \/ /\ w.out \in Ends
       /\ \A c, k : ~From(c, k, start)

(* An iteration stays within them.                                         *)
LEMMA WalkTypes ==
  ASSUME GraphOK, NEW w \in Walks
  PROVE  ResolveHop(w) \in Walks
<1> DEFINE t == pipes[w.at].target
           path == Append(w.path, w.at)
<1>1. /\ w.at \in Names \cup {Remote} /\ w.path \in Seq(Names)
      /\ w.out \in {"more", "service"} \cup Ends
  BY DEF Walks
<1>2. \A x \in {"more", "service"} \cup Ends : [w EXCEPT !.out = x] \in Walks
  BY DEF Walks
<1>3. w \in Walks /\ {"cycle", "not_found", "invalid"} \subseteq {"more", "service"} \cup Ends
  BY DEF Ends
<1>4. CASE ~Defined(w.at)
  BY Zenon, <1>2, <1>3, <1>4, Loads DEF ResolveHop
<1>5. CASE Defined(w.at)
  <2>1. Load(pipes, w.at) = pipes[w.at] /\ path \in Seq(Names) /\ w.at \in Names
    BY <1>1, <1>5, Loads DEF Defined
  <2>2. t.kind = "pipe" => t.name \in Names \cup {Remote}
    BY <1>5, TargetKinds
  <2>3. \A x \in {"service", "not_found"} : [at |-> w.at, path |-> path, out |-> x] \in Walks
    BY <2>1 DEF Walks, Ends
  <2>4. t.kind = "pipe" => [at |-> t.name, path |-> path, out |-> "more"] \in Walks
    BY <2>1, <2>2 DEF Walks
  <2> QED
    BY ZenonT(60), <1>2, <1>3, <2>1, <2>3, <2>4 DEF ResolveHop
<1> QED
  BY Zenon, <1>4, <1>5

(* One iteration goes one hop along the trail, or settles the question.    *)
LEMMA WalkSteps ==
  ASSUME GraphOK, NEW start, NEW h \in Nat, NEW w \in Walks, Resolved(start, h, w)
  PROVE  Resolved(start, h + 1, ResolveHop(w))
<1>0. /\ w.at \in Names \cup {Remote} /\ w.path \in Seq(Names)
      /\ w.out \in {"more", "service"} \cup Ends
  BY DEF Walks
<1>1. CASE w.out # "more"
  <2>1. ResolveHop(w) = w
    BY Zenon, <1>1 DEF ResolveHop
  <2>2. 1..h \subseteq 1..(h + 1)
    OBVIOUS
  <2> QED
    BY Zenon, <1>1, <2>1, <2>2 DEF Resolved
<1>2. CASE w.out = "more"
  <2> DEFINE spec == Load(pipes, w.at)
  <2>1. PICK e : /\ Trail(e, h + 1, start) /\ w.at = e[h + 1]
                 /\ Len(w.path) = h /\ \A i \in 1..h : w.path[i] = e[i]
    BY <1>2 DEF Resolved, Ends
  <2>2. w.at \in Range(w.path) <=> ~Fresh(e, h + 1)
    <3>1. (h + 1) - 1 = h
      OBVIOUS
    <3>2. DOMAIN w.path = 1..h
      BY <1>0, <2>1
    <3> QED
      BY Zenon, <2>1, <3>1, <3>2 DEF Range, Fresh
  <2>3. CASE w.at \in Range(w.path)
    <3>1. ResolveHop(w) = [w EXCEPT !.out = "cycle"]
      BY Zenon, <1>2, <2>3 DEF ResolveHop
    <3>2. ResolveHop(w).out \in Ends
      BY <3>1 DEF Walks, Ends
    <3>3. \A c, k : ~From(c, k, start)
      BY Zenon, <2>1, <2>2, <2>3, CyclesEnd
    <3> QED
      BY Zenon, <3>2, <3>3 DEF Resolved
  <2>4. CASE w.at \notin Range(w.path) /\ ~Defined(w.at)
    <3>1. ResolveHop(w) = [w EXCEPT !.out = "not_found"]
      BY Zenon, <1>2, <2>4, Loads DEF ResolveHop
    <3>2. ResolveHop(w).out \in Ends
      BY <3>1 DEF Walks, Ends
    <3>3. \A c, k : ~From(c, k, start)
      BY Zenon, <2>1, <2>4, LooseEnds
    <3> QED
      BY Zenon, <3>2, <3>3 DEF Resolved
  <2>5. CASE w.at \notin Range(w.path) /\ Defined(w.at)
    <3>1. spec = pipes[w.at] /\ spec # None /\ Valid(w.at, spec) /\ w.at \in Names
      BY ZenonT(60), <2>5, Loads DEF GraphOK, Defined
    <3> DEFINE t == pipes[w.at].target
               path == Append(w.path, w.at)
    <3>2. path \in Seq(Names)
      BY <1>0, <3>1
    <3>3. Fresh(e, h + 1) /\ Defined(e[h + 1])
      BY Zenon, <2>1, <2>2, <2>5
    <3>4. CASE t.kind = "pipe"
      <4>1. ResolveHop(w) = [at |-> t.name, path |-> path, out |-> "more"]
        BY Zenon, <1>2, <2>5, <3>1, <3>4 DEF ResolveHop
      <4>2. t.name \in Names \cup {Remote} /\ t = PipeRef(t.name)
        BY <2>5, <3>4, TargetKinds
      <4> DEFINE f == Longer(e, h + 1, t.name)
      <4>3. Trail(f, h + 2, start) /\ f[h + 2] = t.name /\ \A i \in 1..(h + 1) : f[i] = e[i]
        <5>1. (h + 1) + 1 = h + 2
          OBVIOUS
        <5>2. pipes[e[h + 1]].target = PipeRef(t.name)
          BY Zenon, <2>1, <4>2
        <5>3. ASSUME NEW n \in Names \cup {Remote}, pipes[e[h + 1]].target = PipeRef(n)
              PROVE  /\ Trail(Longer(e, h + 1, n), (h + 1) + 1, start)
                     /\ Longer(e, h + 1, n)[(h + 1) + 1] = n
                     /\ \A i \in 1..(h + 1) : Longer(e, h + 1, n)[i] = e[i]
          BY SMTT(30), <2>1, <3>3, <5>3, TrailGoesOn
        <5>4. /\ Trail(f, (h + 1) + 1, start) /\ f[(h + 1) + 1] = t.name
              /\ \A i \in 1..(h + 1) : f[i] = e[i]
          BY Zenon, <4>2, <5>2, <5>3
        <5> QED
          BY Zenon, <5>1, <5>4
      <4>4. Len(path) = h + 1 /\ \A i \in 1..(h + 1) : path[i] = f[i]
        BY SMTT(30), <1>0, <2>1, <4>3
      <4>6. (h + 1) + 1 = h + 2
        OBVIOUS
      <4> HIDE DEF f, t, path
      <4>7. /\ ResolveHop(w).out = "more" /\ ResolveHop(w).at = f[(h + 1) + 1]
            /\ ResolveHop(w).path = path
        BY <4>1, <4>3, <4>6
      <4> QED
        BY Zenon, <4>3, <4>4, <4>6, <4>7 DEF Resolved
    <3>5. CASE t.kind # "pipe" /\ services[t.name] = None
      <4>1. t.kind = "service" /\ t.name \in Names
        BY <2>5, <3>5, TargetKinds
      <4>2. ResolveHop(w) = [at |-> w.at, path |-> path, out |-> "not_found"]
        BY Zenon, <1>2, <2>5, <3>1, <3>5, <4>1, Loads DEF ResolveHop
      <4>3. ResolveHop(w).out \in Ends
        BY <3>1, <3>2, <4>2 DEF Walks, Ends
      <4>4. /\ pipes[e[h + 1]].target.kind = "service"
            /\ services[pipes[e[h + 1]].target.name] = None
        BY Zenon, <2>1, <3>5, <4>1
      <4>5. \A c, k : ~From(c, k, start)
        BY Zenon, <2>1, <4>4, LooseEnds
      <4> QED
        BY Zenon, <4>3, <4>5 DEF Resolved
    <3>6. CASE t.kind # "pipe" /\ services[t.name] # None
      <4>1. t.name \in Names /\ t = ServiceRef(t.name)
        BY <2>5, <3>6, TargetKinds
      <4>2. ResolveHop(w) = [at |-> w.at, path |-> path, out |-> "service"]
        BY Zenon, <1>2, <2>5, <3>1, <3>6, <4>1, Loads DEF ResolveHop
      <4>3. ResolveHop(w).out = "service"
        BY <3>1, <3>2, <4>2 DEF Walks
      <4>4. From(e, h + 1, start)
        BY Zenon, <2>1, <3>3, <3>6, <4>1, TrailEnds
      <4>5. h + 1 \in 1..(h + 1)
        OBVIOUS
      <4> QED
        BY Zenon, <4>3, <4>4, <4>5 DEF Resolved
    <3> QED
      BY Zenon, <3>4, <3>5, <3>6
  <2> QED
    BY Zenon, <2>3, <2>4, <2>5
<1> QED
  BY Zenon, <1>1, <1>2

(* ResolveLogicalPath is what its recursion equation says.                 *)
LEMMA ResolveRuns ==
  ASSUME GraphOK, NEW start \in Names, NEW n \in Nat \ {0}
  PROVE  \E g : /\ g[0] = [at |-> start, path |-> <<>>, out |-> "more"]
                /\ \A h \in 1..n : g[h] = ResolveHop(g[h - 1])
                /\ \A h \in 0..n : g[h] \in Walks
                /\ ResolveLogicalPath(start, n) = g[n]
<1> DEFINE a == [at |-> start, path |-> <<>>, out |-> "more"]
           F == [w \in Walks |-> ResolveHop(w)]
           Equation(g) == g = [h \in 0..n |-> IF h = 0 THEN a ELSE ResolveHop(g[h - 1])]
<1>1. a \in Walks
  BY DEF Walks
<1>2. F \in [Walks -> Walks]
  BY Zenon, WalkTypes
<1>3. PICK f \in [0..n -> Walks] : f[0] = a /\ \A h \in 1..n : f[h] = F[f[h - 1]]
  <2>1. n \in Nat
    OBVIOUS
  <2> HIDE DEF a, F
  <2>2. Iterations(Walks, a, F, n) # {}
    BY Zenon, <1>1, <1>2, <2>1, Iterate
  <2> QED
    BY Zenon, <2>2 DEF Iterations
<1>4. \A h \in 0..n : h # 0 => h \in 1..n /\ h - 1 \in 0..n
  OBVIOUS
<1>5. \A h \in 1..n : f[h] = ResolveHop(f[h - 1])
  <2>1. \A h \in 1..n : h - 1 \in 0..n
    OBVIOUS
  <2> QED
    BY Zenon, <1>3, <2>1
<1>6. Equation(f)
  BY Zenon, <1>3, <1>4, <1>5
<1> DEFINE g == CHOOSE x : Equation(x)
<1>7. Equation(g)
  <2> HIDE DEF Equation
  <2> QED
    BY Zenon, <1>6
<1>8. ~(n <= 0)
  OBVIOUS
<1>9. ResolveLogicalPath(start, n) = g[n]
  BY Zenon, <1>8 DEF ResolveLogicalPath
<1> HIDE DEF g
<1>10. /\ 0 \in 0..n /\ n \in 0..n
       /\ \A h \in 1..n : h \in 0..n /\ h - 1 \in 0..n /\ h # 0
  OBVIOUS
<1>11. g[0] = a /\ \A h \in 1..n : g[h] = ResolveHop(g[h - 1])
  BY Zenon, <1>7, <1>10
<1> HIDE DEF a, F, Equation
<1> DEFINE T == {h \in Nat : h <= n => g[h] \in Walks}
<1>12. 0 \in T
  BY <1>1, <1>11
<1>13. ASSUME NEW h \in Nat, h \in T PROVE h + 1 \in T
  <2> SUFFICES ASSUME h + 1 <= n PROVE g[h + 1] \in Walks
    OBVIOUS
  <2>1. h + 1 \in 1..n /\ (h + 1) - 1 = h /\ g[h] \in Walks
    BY <1>13
  <2> QED
    BY Zenon, <1>11, <2>1, WalkTypes
<1>14. Nat \subseteq T
  <2> HIDE DEF T
  <2> QED
    BY Zenon, <1>12, <1>13, SetInduction
<1>15. \A h \in 0..n : h \in Nat /\ h <= n
  OBVIOUS
<1>16. \A h \in 0..n : g[h] \in Walks
  BY Zenon, <1>14, <1>15
<1> QED
  BY Zenon, <1>9, <1>11, <1>16 DEF a

(* ResolveLogicalPath finds a Service exactly when there is a chain.       *)
LEMMA ResolvesRight ==
  ASSUME GraphOK, NEW start \in Names, NEW n \in Nat \ {0}
  PROVE  ResolveLogicalPath(start, n).out = "service"
           <=> \E k \in 1..n : \E c : From(c, k, start)
<1>1. PICK g : /\ g[0] = [at |-> start, path |-> <<>>, out |-> "more"]
               /\ \A h \in 1..n : g[h] = ResolveHop(g[h - 1])
               /\ \A h \in 0..n : g[h] \in Walks
               /\ ResolveLogicalPath(start, n) = g[n]
  BY Zenon, ResolveRuns
<1> DEFINE T == {h \in Nat : h <= n => Resolved(start, h, g[h])}
<1>2. 0 \in T
  <2> DEFINE e == [i \in 1..1 |-> start]
  <2>1. Trail(e, 0 + 1, start) /\ e[0 + 1] = start
    BY DEF Trail
  <2>2. g[0].out = "more" /\ g[0].at = start /\ g[0].path = <<>>
    BY <1>1
  <2>3. Len(g[0].path) = 0 /\ \A i \in 1..0 : g[0].path[i] = e[i]
    BY <2>2
  <2> HIDE DEF e
  <2>4. Resolved(start, 0, g[0])
    BY Zenon, <2>1, <2>2, <2>3 DEF Resolved
  <2> QED
    BY Zenon, <2>4
<1>3. ASSUME NEW h \in Nat, h \in T PROVE h + 1 \in T
  <2> SUFFICES ASSUME h + 1 <= n PROVE Resolved(start, h + 1, g[h + 1])
    OBVIOUS
  <2>1. h + 1 \in 1..n /\ (h + 1) - 1 = h /\ h \in 0..n /\ h <= n
    OBVIOUS
  <2>2. g[h + 1] = ResolveHop(g[h]) /\ g[h] \in Walks /\ Resolved(start, h, g[h])
    BY Zenon, <1>1, <1>3, <2>1
  <2> QED
    BY Zenon, <2>2, WalkSteps
<1>4. Nat \subseteq T
  <2> HIDE DEF T
  <2> QED
    BY Zenon, <1>2, <1>3, SetInduction
<1>5. n \in Nat /\ n <= n
  OBVIOUS
<1>6. Resolved(start, n, g[n])
  BY Zenon, <1>4, <1>5
<1>7. ASSUME NEW e, Trail(e, n + 1, start), NEW k \in 1..n, NEW c PROVE ~From(c, k, start)
  <2> SUFFICES ASSUME From(c, k, start) PROVE FALSE
    OBVIOUS
  <2>1. k >= n + 1
    BY <1>7, TrailLeads
  <2> QED
    BY <2>1
<1>8. "more" # "service" /\ "service" \notin Ends
  BY DEF Ends
<1> QED
  BY Zenon, <1>1, <1>6, <1>7, <1>8 DEF Resolved

-----------------------------------------------------------------------------
(* The tunnel.                                                             *)

(* The errors of a hop, and the states a tunnel goes through.              *)
Refusals == {"hop_limit", "loop", "unreachable"}

Tunnels == [at: {n \in Names : pipes[n] # None}, visited: Seq(1..MaxKeys), limit: Nat,
            out: {"more", "service"} \cup Refusals]

(* A chain whose Pipes after the first are published.                      *)
OpenFrom(c, k, start) == From(c, k, start) /\ \A i \in 2..k : Discoverable(c[i])

(* Where a tunnel from start is that has gone along m Pipes, the last of   *)
(* which it has not entered; it began with the Pipe number first.          *)
Served(start, limit, first, m, w) ==
    \/ /\ w.out = "more"
       /\ \E e : /\ Trail(e, m, start) /\ w.at = e[m]
                 /\ \A i \in 2..m : Discoverable(e[i])
                 /\ w.limit = limit /\ Len(w.visited) = m - 1
                 /\ \A i \in 1..(m - 1) : w.visited[i] = pipes[e[i]].id
       /\ m = first \/ m <= limit
    \/ /\ w.out = "service"
       /\ \E k \in 1..limit : \E c : OpenFrom(c, k, start)
    \/ /\ w.out \in Refusals
       /\ \A k \in 1..limit : \A c : ~OpenFrom(c, k, start)

(* The list v has the ID of a Pipe exactly if the trail has the Pipe.      *)
Lists(v, e, m) ==
    \A n : Defined(n) => (pipes[n].id \in Range(v) <=> \E i \in 1..(m - 1) : e[i] = n)

(* IDs stand for names: so does the list of IDs of the Pipes of a trail,   *)
(* which has no repetition.                                                *)
LEMMA IDsAreNames ==
  ASSUME GraphOK, NEW e, NEW m \in Nat \ {0}, NEW start, Trail(e, m, start),
         NEW v \in Seq(1..MaxKeys), Len(v) = m - 1,
         \A i \in 1..(m - 1) : v[i] = pipes[e[i]].id
  PROVE  IsInjective(v) /\ Lists(v, e, m)
<1>1. DOMAIN v = 1..(m - 1)
  OBVIOUS
<1>2. \A i \in 1..(m - 1) : Defined(e[i])
  BY Zenon DEF Trail
<1>3. \A n, x : Defined(n) /\ Defined(x) /\ pipes[n].id = pipes[x].id => n = x
  BY Zenon DEF GraphOK, Defined
<1>4. IsInjective(v)
  BY Zenon, <1>1, <1>2, <1>3 DEF IsInjective, Trail
<1>5. \A x : x \in Range(v) <=> \E i \in 1..(m - 1) : v[i] = x
  BY Zenon, <1>1 DEF Range
<1>6. ASSUME NEW n, Defined(n)
      PROVE  pipes[n].id \in Range(v) <=> \E i \in 1..(m - 1) : e[i] = n
  <2>1. \A i \in 1..(m - 1) : v[i] = pipes[n].id <=> e[i] = n
    BY Zenon, <1>2, <1>3, <1>6
  <2> QED
    BY Zenon, <1>5, <2>1
<1> QED
  BY Zenon, <1>4, <1>6 DEF Lists

(* What a hop hands on: it has entered its own Pipe.                       *)
HandsOn(x, v, limit, id) ==
    /\ x.visited = Append(v, id) /\ x.maxHops = limit
    /\ x.remaining = (limit - Len(v)) - 1 /\ x.err = "none"

(* That is what a hop with an admissible request does.                     *)
LEMMA Entered ==
  ASSUME NEW v \in Seq(1..MaxKeys), NEW limit \in 1..DefaultMaxPipeHops, NEW id,
         Len(v) < limit, IsInjective(v), id \notin Range(v)
  PROVE  HandsOn(Advance(FromWire(v, limit), id), v, limit, id)
<1>1. /\ ~(limit <= 0) /\ ~(limit > DefaultMaxPipeHops) /\ ~(Len(v) >= limit)
      /\ ~(limit - Len(v) <= 0)
  BY TraversalAssumption
<1>2. FromWire(v, limit) = [visited |-> v, maxHops |-> limit,
                            remaining |-> limit - Len(v), err |-> "none"]
  BY Zenon, <1>1 DEF FromWire
<1> DEFINE r == FromWire(v, limit)
<1>3. r.err = "none" /\ r.remaining = limit - Len(v) /\ r.visited = v
  BY <1>2
<1>4. Advance(r, id) = [r EXCEPT !.visited = Append(@, id), !.remaining = @ - 1]
  BY Zenon, <1>1, <1>3 DEF Advance
<1> HIDE DEF r
<1>5. \A a, b : LET x == [r EXCEPT !.visited = a, !.remaining = b]
                IN  x.visited = a /\ x.maxHops = limit /\ x.remaining = b /\ x.err = "none"
  <2>1. r = [visited |-> v, maxHops |-> limit, remaining |-> limit - Len(v), err |-> "none"]
    BY Zenon, <1>2 DEF r
  <2> QED
    BY <2>1
<1> QED
  BY <1>3, <1>4, <1>5 DEF r, HandsOn

(* One hop goes one Pipe along the trail, or settles the question.         *)
LEMMA TunnelSteps ==
  ASSUME GraphOK, NEW start, NEW limit \in 1..DefaultMaxPipeHops, NEW first,
         NEW m \in Nat \ {0}, NEW w \in Tunnels, Served(start, limit, first, m, w)
  PROVE  Served(start, limit, first, m + 1, ServeHop(w))
<1>0. /\ Defined(w.at) /\ w.visited \in Seq(1..MaxKeys)
      /\ w.out \in {"more", "service"} \cup Refusals
  BY DEF Tunnels, Defined
<1>1. CASE w.out # "more"
  <2>1. ServeHop(w) = w
    BY Zenon, <1>1 DEF ServeHop
  <2> QED
    BY Zenon, <1>1, <2>1 DEF Served
<1>2. CASE w.out = "more"
  <2>1. PICK e : /\ Trail(e, m, start) /\ w.at = e[m]
                 /\ \A i \in 2..m : Discoverable(e[i])
                 /\ w.limit = limit /\ Len(w.visited) = m - 1
                 /\ \A i \in 1..(m - 1) : w.visited[i] = pipes[e[i]].id
    BY <1>2 DEF Served, Refusals
  <2> DEFINE spec == pipes[w.at]
             t == spec.target
             st == Advance(FromWire(w.visited, w.limit), spec.id)
             forward == ForwardError(t.name, st)
             refused(x) == [w EXCEPT !.out = x]
  <2>2. ASSUME NEW x \in Refusals, ServeHop(w) = refused(x),
               \A k \in 1..limit : \A c : ~OpenFrom(c, k, start)
        PROVE  Served(start, limit, first, m + 1, ServeHop(w))
    <3>1. refused(x).out = x
      BY DEF Tunnels
    <3> QED
      BY Zenon, <2>2, <3>1 DEF Served
  <2>3. ~(w.limit <= 0) /\ ~(w.limit > DefaultMaxPipeHops)
    BY <2>1, TraversalAssumption
  <2>4. /\ IsInjective(w.visited)
        /\ spec.id \in Range(w.visited) <=> ~Fresh(e, m)
    <3>1. IsInjective(w.visited) /\ Lists(w.visited, e, m)
      BY Zenon, <1>0, <2>1, IDsAreNames
    <3>2. spec.id \in Range(w.visited) <=> \E i \in 1..(m - 1) : e[i] = w.at
      BY Zenon, <1>0, <3>1 DEF Lists
    <3> QED
      BY Zenon, <2>1, <3>1, <3>2 DEF Fresh
  <2>5. CASE Len(w.visited) >= w.limit
    <3>1. ServeHop(w) = refused("hop_limit")
      BY Zenon, <1>2, <2>5 DEF ServeHop
    <3>2. ASSUME NEW k \in 1..limit, NEW c PROVE ~OpenFrom(c, k, start)
      <4> SUFFICES ASSUME From(c, k, start) PROVE FALSE
        BY Zenon DEF OpenFrom
      <4>1. k >= m
        BY <2>1, TrailLeads
      <4> QED
        BY <2>1, <2>5, <4>1
    <3> QED
      BY Zenon, <2>2, <3>1, <3>2 DEF Refusals
  <2>6. CASE ~(Len(w.visited) >= w.limit) /\ ~Fresh(e, m)
    <3>1. ServeHop(w) = refused("loop")
      BY Zenon, <1>2, <2>3, <2>4, <2>6 DEF ServeHop
    <3>2. \A c, k : ~From(c, k, start)
      BY Zenon, <2>1, <2>6, CyclesEnd
    <3> QED
      BY Zenon, <2>2, <3>1, <3>2 DEF Refusals, OpenFrom
  <2>7. CASE ~(Len(w.visited) >= w.limit) /\ Fresh(e, m) /\ t.kind = "service"
    <3>1. t.name \in Names /\ t = ServiceRef(t.name)
      BY <1>0, <2>7, TargetKinds
    <3>2. Load(services, t.name) = services[t.name]
      BY Zenon, <3>1, Loads
    <3>3. CASE services[t.name] = None
      <4>1. ServeHop(w) = refused("unreachable")
        BY Zenon, <1>2, <2>3, <2>4, <2>7, <3>2, <3>3 DEF ServeHop
      <4>2. /\ pipes[e[m]].target.kind = "service"
            /\ services[pipes[e[m]].target.name] = None
        BY Zenon, <2>1, <2>7, <3>3
      <4>3. \A c, k : ~From(c, k, start)
        BY Zenon, <2>1, <4>2, LooseEnds
      <4> QED
        BY Zenon, <2>2, <4>1, <4>3 DEF Refusals, OpenFrom
    <3>4. CASE services[t.name] # None
      <4>1. ServeHop(w) = refused("service")
        BY Zenon, <1>2, <2>3, <2>4, <2>7, <3>2, <3>4 DEF ServeHop
      <4>2. ServeHop(w).out = "service"
        BY <4>1 DEF Tunnels
      <4>3. Defined(e[m]) /\ pipes[e[m]].target = ServiceRef(t.name)
        BY Zenon, <1>0, <2>1, <3>1
      <4>4. From(e, m, start)
        BY Zenon, <2>1, <2>7, <3>1, <3>4, <4>3, TrailEnds
      <4>5. m \in 1..limit
        BY <2>1, <2>7
      <4> QED
        BY Zenon, <2>1, <4>2, <4>4, <4>5 DEF Served, OpenFrom
    <3> QED
      BY Zenon, <3>3, <3>4
  <2>8. CASE ~(Len(w.visited) >= w.limit) /\ Fresh(e, m) /\ t.kind # "service"
    <3> DEFINE next == t.name
               f == Longer(e, m, next)
               visited == Append(w.visited, spec.id)
    <3>1. next \in Names \cup {Remote} /\ t = PipeRef(next) /\ spec.id \in 1..MaxKeys
      <4>1. next \in Names \cup {Remote} /\ t = PipeRef(next) /\ spec \in PipeSpec
        BY <1>0, <2>8, TargetKinds
      <4> QED
        BY <4>1 DEF PipeSpec
    <3>2. Defined(e[m]) /\ pipes[e[m]].target = PipeRef(next)
      BY Zenon, <1>0, <2>1, <3>1
    <3>3. /\ Trail(f, m + 1, start) /\ f[m + 1] = next
          /\ \A i \in 1..m : f[i] = e[i]
      <4>1. ASSUME NEW n \in Names \cup {Remote}, pipes[e[m]].target = PipeRef(n)
            PROVE  /\ Trail(Longer(e, m, n), m + 1, start)
                   /\ Longer(e, m, n)[m + 1] = n
                   /\ \A i \in 1..m : Longer(e, m, n)[i] = e[i]
        BY SMTT(30), <2>1, <2>8, <3>2, <4>1, TrailGoesOn
      <4> QED
        BY Zenon, <3>1, <3>2, <4>1
    <3>4. /\ st.visited = visited /\ st.maxHops = limit
          /\ st.remaining = (limit - Len(w.visited)) - 1 /\ st.err = "none"
      <4>1. Len(w.visited) < limit
        BY SMTT(30), <2>1, <2>8
      <4> QED
        <5>1. w.visited \in Seq(1..MaxKeys) /\ IsInjective(w.visited) /\ spec.id \notin Range(w.visited)
          BY Zenon, <1>0, <2>4, <2>8
        <5> HIDE DEF spec
        <5>2. HandsOn(Advance(FromWire(w.visited, limit), spec.id), w.visited, limit, spec.id)
          BY Zenon, <4>1, <5>1, Entered
        <5>3. w.limit = limit
          BY Zenon, <2>1
        <5> QED
          BY Zenon, <5>2, <5>3 DEF HandsOn
    <3>5. /\ visited \in Seq(1..MaxKeys) /\ Len(visited) = m
          /\ \A i \in 1..m : visited[i] = pipes[f[i]].id
      <4>1. visited \in Seq(1..MaxKeys) /\ Len(visited) = m
        BY <1>0, <2>1, <3>1
      <4>2. ASSUME NEW i \in 1..m PROVE visited[i] = pipes[e[i]].id
        <5>1. CASE i = m
          BY <1>0, <2>1, <5>1
        <5>2. CASE i # m
          <6>1. i \in 1..(m - 1)
            BY <5>2
          <6>2. visited[i] = w.visited[i]
            BY <1>0, <2>1, <6>1
          <6> QED
            BY Zenon, <2>1, <6>1, <6>2
        <5> QED
          BY Zenon, <5>1, <5>2
      <4> QED
        BY Zenon, <3>3, <4>1, <4>2
    <3> HIDE DEF f, visited, next, st
    <3>6. st.visited = visited /\ st.maxHops = limit /\ st.err = "none" /\ st.remaining = limit - m
      BY <2>1, <3>4
    <3>7. ASSUME NEW k \in 1..limit, NEW c, OpenFrom(c, k, start)
          PROVE  k >= m + 1 /\ Discoverable(next)
      <4>1. From(c, k, start)
        BY Zenon, <3>7 DEF OpenFrom
      <4>2. k >= m + 1 /\ \A i \in 1..(m + 1) : c[i] = f[i]
        BY <3>3, <4>1, TrailLeads
      <4>3. m + 1 \in 1..(m + 1) /\ m + 1 \in 2..k
        BY <4>2
      <4> QED
        BY Zenon, <3>3, <3>7, <4>2, <4>3 DEF OpenFrom
    <3>8. CASE forward # "none"
      <4>1. ServeHop(w) = refused(forward)
        BY Zenon, <1>2, <2>3, <2>4, <2>8, <3>6, <3>8 DEF ServeHop, st, next
      <4>2. forward \in Refusals
        BY Zenon, <3>8 DEF ForwardError, Refusals
      <4>3. ASSUME NEW k \in 1..limit, NEW c PROVE ~OpenFrom(c, k, start)
        <5> SUFFICES ASSUME OpenFrom(c, k, start) PROVE FALSE
          OBVIOUS
        <5>1. From(c, k, start)
          BY Zenon DEF OpenFrom
        <5>2. Defined(next)
          BY Zenon, <3>3, <5>1, LooseEnds
        <5>3. Load(pipes, next) = pipes[next] /\ pipes[next] # None /\ Valid(next, pipes[next])
          BY Zenon, <5>2, Loads DEF Defined, GraphOK
        <5>4. ~(limit - m < 1)
          BY <3>7
        <5>5. pipes[next].id \in Range(visited)
          BY Zenon, <3>6, <3>8, <5>3, <5>4 DEF ForwardError, next
        <5>6. (m + 1) - 1 = m /\ m + 1 \in Nat \ {0}
          OBVIOUS
        <5>7. \E i \in 1..m : f[i] = next
          <6>1. Lists(visited, f, m + 1)
            <7>1. /\ Len(visited) = (m + 1) - 1
                  /\ \A i \in 1..((m + 1) - 1) : visited[i] = pipes[f[i]].id
              BY Zenon, <3>5, <5>6
            <7> QED
              BY Zenon, <3>3, <3>5, <5>6, <7>1, IDsAreNames
          <6> QED
            BY Zenon, <5>2, <5>5, <5>6, <6>1 DEF Lists
        <5>8. ~Fresh(f, m + 1)
          BY Zenon, <3>3, <5>6, <5>7 DEF Fresh
        <5> QED
          BY Zenon, <3>3, <5>1, <5>8, CyclesEnd
      <4> QED
        BY Zenon, <2>2, <4>1, <4>2, <4>3
    <3>9. CASE forward = "none" /\ ~Discoverable(next)
      <4>1. ServeHop(w) = refused("unreachable")
        BY Zenon, <1>2, <2>3, <2>4, <2>8, <3>6, <3>9 DEF ServeHop, st, next
      <4> QED
        BY Zenon, <2>2, <3>7, <3>9, <4>1 DEF Refusals
    <3>10. CASE forward = "none" /\ Discoverable(next)
      <4>1. ServeHop(w) = [at |-> next, visited |-> visited, limit |-> limit, out |-> "more"]
        BY Zenon, <1>2, <2>3, <2>4, <2>8, <3>6, <3>10 DEF ServeHop, st, next
      <4>2. ~(limit - m < 1)
        BY Zenon, <3>6, <3>10 DEF ForwardError, next
      <4>3. m + 1 <= limit /\ (m + 1) - 1 = m
        BY <4>2
      <4>4. \A i \in 2..(m + 1) : Discoverable(f[i])
        <5>1. \A i \in 2..(m + 1) : i = m + 1 \/ (i \in 2..m /\ i \in 1..m)
          OBVIOUS
        <5> QED
          BY Zenon, <2>1, <3>3, <3>10, <5>1
      <4>5. /\ ServeHop(w).out = "more" /\ ServeHop(w).at = next
            /\ ServeHop(w).limit = limit /\ ServeHop(w).visited = visited
        BY <4>1
      <4>6. \E d : /\ Trail(d, m + 1, start) /\ ServeHop(w).at = d[m + 1]
                   /\ \A i \in 2..(m + 1) : Discoverable(d[i])
                   /\ ServeHop(w).limit = limit
                   /\ Len(ServeHop(w).visited) = (m + 1) - 1
                   /\ \A i \in 1..((m + 1) - 1) : ServeHop(w).visited[i] = pipes[d[i]].id
        BY ZenonT(60), <3>3, <3>5, <4>3, <4>4, <4>5
      <4> QED
        BY Zenon, <4>3, <4>5, <4>6 DEF Served
    <3> QED
      BY Zenon, <3>8, <3>9, <3>10
  <2> QED
    BY Zenon, <2>5, <2>6, <2>7, <2>8
<1> QED
  BY Zenon, <1>1, <1>2

(* A hop stays within the states of a tunnel.                              *)
LEMMA TunnelTypes ==
  ASSUME GraphOK, NEW w \in Tunnels
  PROVE  ServeHop(w) \in Tunnels
<1> DEFINE spec == pipes[w.at]
           t == spec.target
           st == Advance(FromWire(w.visited, w.limit), spec.id)
           forward == ForwardError(t.name, st)
<1>1. /\ w.at \in Names /\ Defined(w.at) /\ w.visited \in Seq(1..MaxKeys) /\ w.limit \in Nat
      /\ w.out \in {"more", "service"} \cup Refusals
  BY DEF Tunnels, Defined
<1>2. \A x \in {"more", "service"} \cup Refusals : [w EXCEPT !.out = x] \in Tunnels
  BY DEF Tunnels
<1>3. {"service", "hop_limit", "loop", "unreachable"} \subseteq {"more", "service"} \cup Refusals
  BY DEF Refusals
<1>4. CASE \/ w.out # "more" \/ w.limit <= 0 \/ w.limit > DefaultMaxPipeHops
           \/ Len(w.visited) >= w.limit
           \/ ~IsInjective(w.visited) \/ spec.id \in Range(w.visited)
           \/ t.kind = "service"
  BY ZenonT(60), <1>2, <1>3, <1>4 DEF ServeHop
<1>5. CASE /\ w.out = "more" /\ ~(w.limit <= 0) /\ ~(w.limit > DefaultMaxPipeHops)
           /\ ~(Len(w.visited) >= w.limit)
           /\ IsInjective(w.visited) /\ spec.id \notin Range(w.visited)
           /\ t.kind # "service"
  <2>1. w.limit \in 1..DefaultMaxPipeHops /\ Len(w.visited) < w.limit
    BY <1>1, <1>5, TraversalAssumption
  <2>2. HandsOn(st, w.visited, w.limit, spec.id)
    <3> HIDE DEF spec
    <3> QED
      BY Zenon, <1>1, <1>5, <2>1, Entered
  <2>3. st.err = "none" /\ st.maxHops = w.limit /\ st.visited = Append(w.visited, spec.id)
    BY Zenon, <2>2 DEF HandsOn
  <2>4. spec.id \in 1..MaxKeys
    <3>1. spec \in PipeSpec
      BY Zenon, <1>1, TargetKinds
    <3> QED
      BY <3>1 DEF PipeSpec
  <2>5. st.visited \in Seq(1..MaxKeys)
    BY SMTT(30), <1>1, <2>3, <2>4
  <2>6. CASE forward # "none"
    <3>1. forward \in Refusals
      BY Zenon, <2>6 DEF ForwardError, Refusals
    <3>2. ServeHop(w) = [w EXCEPT !.out = forward]
      BY Zenon, <1>5, <2>3, <2>6 DEF ServeHop
    <3> HIDE DEF forward
    <3> QED
      BY Zenon, <1>2, <3>1, <3>2
  <2>7. CASE forward = "none" /\ ~Discoverable(t.name)
    <3>1. ServeHop(w) = [w EXCEPT !.out = "unreachable"]
      BY Zenon, <1>5, <2>3, <2>7 DEF ServeHop
    <3> QED
      BY Zenon, <1>2, <1>3, <3>1
  <2>8. CASE forward = "none" /\ Discoverable(t.name)
    <3>1. ServeHop(w) = [at |-> t.name, visited |-> st.visited, limit |-> st.maxHops, out |-> "more"]
      BY Zenon, <1>5, <2>3, <2>8 DEF ServeHop
    <3>2. t.name \in {n \in Names : pipes[n] # None}
      BY Zenon, <2>8, Loads DEF Discoverable, Published, Defined
    <3>3. st.maxHops \in Nat
      BY Zenon, <1>1, <2>3
    <3> HIDE DEF st, t
    <3>4. [at |-> t.name, visited |-> st.visited, limit |-> st.maxHops, out |-> "more"] \in Tunnels
      BY <2>5, <3>2, <3>3 DEF Tunnels
    <3> QED
      BY Zenon, <3>1, <3>4
  <2> QED
    BY Zenon, <2>6, <2>7, <2>8
<1> QED
  BY Zenon, <1>1, <1>4, <1>5

(* OpenPipe is what its recursion equation says.                           *)
LEMMA TunnelRuns ==
  ASSUME GraphOK, NEW start \in Names, pipes[start] # None,
         NEW visited \in Seq(1..MaxKeys), NEW limit \in Nat
  PROVE  \E g : /\ g[0] = [at |-> start, visited |-> visited, limit |-> limit, out |-> "more"]
                /\ \A h \in 1..DefaultMaxPipeHops : g[h] = ServeHop(g[h - 1])
                /\ \A h \in 0..DefaultMaxPipeHops : g[h] \in Tunnels
                /\ OpenPipe(start, visited, limit) = g[DefaultMaxPipeHops]
<1> DEFINE n == DefaultMaxPipeHops
           a == [at |-> start, visited |-> visited, limit |-> limit, out |-> "more"]
           F == [w \in Tunnels |-> ServeHop(w)]
           Equation(g) == g = [h \in 0..n |-> IF h = 0 THEN a ELSE ServeHop(g[h - 1])]
<1>0. n \in Nat
  BY TraversalAssumption
<1>1. a \in Tunnels
  BY DEF Tunnels
<1>2. F \in [Tunnels -> Tunnels]
  BY Zenon, TunnelTypes
<1>3. PICK f \in [0..n -> Tunnels] : f[0] = a /\ \A h \in 1..n : f[h] = F[f[h - 1]]
  <2> HIDE DEF a, F, n
  <2>2. Iterations(Tunnels, a, F, n) # {}
    BY Zenon, <1>0, <1>1, <1>2, Iterate
  <2> QED
    BY Zenon, <2>2 DEF Iterations
<1>4. \A h \in 0..n : h # 0 => h \in 1..n /\ h - 1 \in 0..n
  BY <1>0
<1>5. \A h \in 1..n : f[h] = ServeHop(f[h - 1])
  <2>1. \A h \in 1..n : h - 1 \in 0..n
    BY <1>0
  <2> QED
    BY Zenon, <1>3, <2>1
<1>6. Equation(f)
  BY Zenon, <1>3, <1>4, <1>5
<1> DEFINE g == CHOOSE x : Equation(x)
<1>7. Equation(g)
  <2> HIDE DEF Equation
  <2> QED
    BY Zenon, <1>6
<1>9. OpenPipe(start, visited, limit) = g[n]
  BY Zenon DEF OpenPipe
<1> HIDE DEF g
<1>10. /\ 0 \in 0..n /\ n \in 0..n
       /\ \A h \in 1..n : h \in 0..n /\ h - 1 \in 0..n /\ h # 0
  BY <1>0
<1>11. g[0] = a /\ \A h \in 1..n : g[h] = ServeHop(g[h - 1])
  BY Zenon, <1>7, <1>10
<1> HIDE DEF a, F, Equation
<1> DEFINE T == {h \in Nat : h <= n => g[h] \in Tunnels}
<1>12. 0 \in T
  BY Zenon, <1>1, <1>11
<1>13. ASSUME NEW h \in Nat, h \in T PROVE h + 1 \in T
  <2> SUFFICES ASSUME h + 1 <= n PROVE g[h + 1] \in Tunnels
    OBVIOUS
  <2>1. h + 1 \in 1..n /\ (h + 1) - 1 = h /\ g[h] \in Tunnels
    BY <1>0, <1>13
  <2> QED
    BY Zenon, <1>11, <2>1, TunnelTypes
<1>14. Nat \subseteq T
  <2> HIDE DEF T
  <2> QED
    BY Zenon, <1>12, <1>13, SetInduction
<1>15. \A h \in 0..n : h \in Nat /\ h <= n
  BY <1>0
<1>16. \A h \in 0..n : g[h] \in Tunnels
  BY Zenon, <1>14, <1>15
<1> QED
  BY Zenon, <1>9, <1>11, <1>16 DEF a

(* An OpenPipe that enters the trail from start at its Pipe number first   *)
(* reaches a Service exactly when there is a chain of published Pipes.     *)
LEMMA TunnelsRight ==
  ASSUME GraphOK, NEW start, NEW at \in Names, pipes[at] # None,
         NEW visited \in Seq(1..MaxKeys), NEW limit \in 1..DefaultMaxPipeHops,
         NEW first \in Nat \ {0},
         Served(start, limit, first, first,
                [at |-> at, visited |-> visited, limit |-> limit, out |-> "more"]),
         first + DefaultMaxPipeHops > limit
  PROVE  OpenPipe(at, visited, limit).out = "service"
           <=> \E k \in 1..limit : \E c : OpenFrom(c, k, start)
<1> DEFINE n == DefaultMaxPipeHops
<1>0. n \in Nat \ {0} /\ limit \in Nat
  BY TraversalAssumption
<1>1. PICK g : /\ g[0] = [at |-> at, visited |-> visited, limit |-> limit, out |-> "more"]
               /\ \A h \in 1..n : g[h] = ServeHop(g[h - 1])
               /\ \A h \in 0..n : g[h] \in Tunnels
               /\ OpenPipe(at, visited, limit) = g[n]
  BY Zenon, <1>0, TunnelRuns
<1> DEFINE T == {h \in Nat : h <= n => Served(start, limit, first, first + h, g[h])}
<1>2. 0 \in T
  <2>1. first + 0 = first
    OBVIOUS
  <2> QED
    BY Zenon, <1>1, <2>1
<1>3. ASSUME NEW h \in Nat, h \in T PROVE h + 1 \in T
  <2> SUFFICES ASSUME h + 1 <= n PROVE Served(start, limit, first, first + (h + 1), g[h + 1])
    OBVIOUS
  <2>1. /\ h + 1 \in 1..n /\ (h + 1) - 1 = h /\ h \in 0..n /\ h <= n
        /\ first + h \in Nat \ {0} /\ (first + h) + 1 = first + (h + 1)
    BY <1>0
  <2>2. g[h + 1] = ServeHop(g[h]) /\ g[h] \in Tunnels /\ Served(start, limit, first, first + h, g[h])
    BY Zenon, <1>1, <1>3, <2>1
  <2>3. Served(start, limit, first, (first + h) + 1, ServeHop(g[h]))
    BY Zenon, <2>1, <2>2, TunnelSteps
  <2> QED
    BY Zenon, <2>1, <2>2, <2>3
<1>4. Nat \subseteq T
  <2> HIDE DEF T
  <2> QED
    BY Zenon, <1>2, <1>3, SetInduction
<1>5. n \in Nat /\ n <= n
  BY <1>0
<1>6. Served(start, limit, first, first + n, g[n])
  BY Zenon, <1>4, <1>5
<1>7. ~(first + n = first) /\ ~(first + n <= limit)
  BY <1>0
<1>8. "more" # "service" /\ "service" \notin Refusals
  BY DEF Refusals
<1> QED
  BY Zenon, <1>1, <1>6, <1>7, <1>8 DEF Served

(* In a graph of valid definitions with their own IDs the resolver, the    *)
(* tunnel and the chains agree.                                            *)
LEMMA GraphsAgree ==
  ASSUME GraphOK
  PROVE  TraversalAgrees
<1> SUFFICES ASSUME NEW start \in Names, pipes[start] # None,
                    NEW limit \in 1..DefaultMaxPipeHops
             PROVE  LET chains == Chains(start, limit)
                        open == \E c \in chains : \A i \in 2..Len(c) : Discoverable(c[i])
                        first == pipes[start].target
                    IN  /\ chains # {} <=> ResolveLogicalPath(start, limit).out = "service"
                        /\ Published(start) =>
                              (open <=> OpenPipe(start, <<>>, limit).out = "service")
                        /\ pipes[start].ingress # "tubo" /\ first.kind = "pipe"
                                /\ Discoverable(first.name) /\ limit = DefaultMaxPipeHops =>
                              (open <=> OpenPipe(first.name, <<pipes[start].id>>, limit).out = "service")
  BY Zenon DEF TraversalAgrees
<1> DEFINE chains == Chains(start, limit)
           open == \E c \in chains : \A i \in 2..Len(c) : Discoverable(c[i])
           first == pipes[start].target
<1>1. limit \in Nat \ {0} /\ Defined(start) /\ start \in Names
  BY TraversalAssumption DEF Defined
<1>2. \A c : c \in chains <=> \E k \in 1..limit : From(c, k, start)
  BY Zenon, <1>1, ChainsAreFrom
<1>3. chains # {} <=> ResolveLogicalPath(start, limit).out = "service"
  BY Zenon, <1>1, <1>2, ResolvesRight
<1>4. open <=> \E k \in 1..limit : \E c : OpenFrom(c, k, start)
  <2>1. \A k \in 1..limit : \A c : From(c, k, start) => Len(c) = k
    <3> SUFFICES ASSUME NEW k \in 1..limit, NEW c, From(c, k, start) PROVE Len(c) = k
      BY Zenon
    <3>1. k \in Nat /\ c \in [1..k -> Names]
      BY DEF From
    <3> QED
      BY <3>1
  <2> QED
    BY Zenon, <1>2, <2>1 DEF OpenFrom
<1>5. ASSUME Published(start)
      PROVE  open <=> OpenPipe(start, <<>>, limit).out = "service"
  <2> DEFINE e == [i \in 1..1 |-> start]
             w == [at |-> start, visited |-> <<>>, limit |-> limit, out |-> "more"]
  <2>1. Trail(e, 1, start) /\ e[1] = start
    BY DEF Trail
  <2>2. /\ w.out = "more" /\ w.at = start /\ w.limit = limit /\ w.visited = <<>>
        /\ Len(<<>>) = 1 - 1 /\ 2..1 = {} /\ 1..(1 - 1) = {}
    OBVIOUS
  <2> HIDE DEF e, w
  <2>3. Served(start, limit, 1, 1, w)
    BY Zenon, <2>1, <2>2 DEF Served
  <2>4. <<>> \in Seq(1..MaxKeys) /\ 1 \in Nat \ {0} /\ 1 + DefaultMaxPipeHops > limit
    BY TraversalAssumption
  <2> QED
    BY Zenon, <1>4, <2>3, <2>4, TunnelsRight DEF w
<1>6. ASSUME pipes[start].ingress # "tubo", first.kind = "pipe",
             Discoverable(first.name), limit = DefaultMaxPipeHops
      PROVE  open <=> OpenPipe(first.name, <<pipes[start].id>>, limit).out = "service"
  <2> DEFINE next == first.name
             id == pipes[start].id
             e == [i \in 1..1 |-> start]
             f == Longer(e, 1, next)
             w == [at |-> next, visited |-> <<id>>, limit |-> limit, out |-> "more"]
  <2>1. next \in Names \cup {Remote} /\ first = PipeRef(next) /\ id \in 1..MaxKeys
    <3>1. next \in Names \cup {Remote} /\ first = PipeRef(next) /\ pipes[start] \in PipeSpec
      BY <1>1, <1>6, TargetKinds
    <3> QED
      BY <3>1 DEF PipeSpec
  <2>2. Trail(e, 1, start) /\ e[1] = start /\ Fresh(e, 1)
    BY DEF Trail, Fresh
  <2>3. Trail(f, 2, start) /\ f[2] = next /\ f[1] = start
    <3>1. ASSUME NEW n \in Names \cup {Remote}, pipes[e[1]].target = PipeRef(n)
          PROVE  /\ Trail(Longer(e, 1, n), 1 + 1, start)
                 /\ Longer(e, 1, n)[1 + 1] = n
                 /\ \A i \in 1..1 : Longer(e, 1, n)[i] = e[i]
      <4> HIDE DEF e
      <4> QED
        BY SMTT(30), <1>1, <2>2, <3>1, TrailGoesOn
    <3>2. 1 + 1 = 2 /\ 1 \in 1..1
      OBVIOUS
    <3> QED
      BY Zenon, <2>1, <2>2, <3>1, <3>2
  <2>4. next \in Names /\ pipes[next] # None
    BY Zenon, <1>6, Loads DEF Discoverable, Published, Defined
  <2> HIDE DEF e, f, next, id
  <2>5. /\ w.out = "more" /\ w.at = next /\ w.limit = limit /\ w.visited = <<id>>
        /\ Len(<<id>>) = 2 - 1 /\ 2 - 1 = 1 /\ <<id>>[1] = id
        /\ \A i \in 1..1 : i = 1
        /\ \A i \in 2..2 : i = 2
    OBVIOUS
  <2> HIDE DEF w
  <2>6. \A i \in 2..2 : Discoverable(f[i])
    BY Zenon, <1>6, <2>3, <2>5 DEF next
  <2>7. \A i \in 1..(2 - 1) : w.visited[i] = pipes[f[i]].id
    BY Zenon, <2>3, <2>5 DEF id
  <2>8. Served(start, limit, 2, 2, w)
    BY Zenon, <2>3, <2>5, <2>6, <2>7 DEF Served
  <2>9. <<id>> \in Seq(1..MaxKeys) /\ 2 \in Nat \ {0} /\ 2 + DefaultMaxPipeHops > limit
    BY <2>1, TraversalAssumption
  <2>10. OpenPipe(next, <<id>>, limit).out = "service"
           <=> \E k \in 1..limit : \E c : OpenFrom(c, k, start)
    BY Zenon, <2>4, <2>8, <2>9, TunnelsRight DEF w
  <2> QED
    BY Zenon, <1>4, <2>10 DEF next, id
<1> QED
  BY Zenon, <1>3, <1>5, <1>6

-----------------------------------------------------------------------------
(* The definitions are such a graph.                                       *)

(* What a command is about to store is valid, as what is stored.           *)
ValidInv ==
    /\ \A n \in Names : pipes[n] # None => Valid(n, pipes[n])
    /\ \A c \in Commands : cmd[c].pc = "insertPipe" => Valid(cmd[c].name, cmd[c].spec)

(* The command c goes on at to.                                            *)
Moves(c, to) == \E k : cmd' = [cmd EXCEPT ![c] = k] /\ k.pc = to

(* What Go does.                                                           *)
LEMMA GoMoves ==
  ASSUME cmd \in [Commands -> Cmd], NEW c \in Commands, NEW to, Go(c, to)
  PROVE  Moves(c, to)
<1> DEFINE k == IF to \in Over
                THEN [Idle EXCEPT !.pc = to, !.spent = cmd[c].spent]
                ELSE [cmd[c] EXCEPT !.pc = to]
<1>1. cmd' = [cmd EXCEPT ![c] = k]
  BY Zenon DEF Go
<1>2. k.pc = to
  <2>1. cmd[c] \in Cmd
    BY Zenon
  <2> QED
    BY ZenonT(60), <2>1, IdleOK DEF Cmd
<1> HIDE DEF k
<1> QED
  BY Zenon, <1>1, <1>2 DEF Moves

(* Every step preserves it: only PutPipeSelect moves a command to the      *)
(* insertion, and it has validated the specification.                      *)
LEMMA ValidPreserves == WorkInv /\ ValidInv /\ [Next]_vars => ValidInv'
<1> SUFFICES ASSUME WorkInv, ValidInv, [Next]_vars PROVE ValidInv'
  OBVIOUS
<1>1. CASE UNCHANGED vars
  BY Zenon, <1>1 DEF vars, ValidInv, Valid
<1>2. cmd \in [Commands -> Cmd] /\ pipes \in [Names -> PipeSpec \cup {None}]
  BY Zenon DEF WorkInv, Types
<1>3. ASSUME NEW c \in Commands, NEW k, cmd' = [cmd EXCEPT ![c] = k],
             k.pc = "insertPipe" => Valid(k.name, k.spec),
             \A n \in Names : pipes'[n] # None => Valid(n, pipes'[n])
      PROVE  ValidInv'
  BY Zenon, <1>2, <1>3 DEF ValidInv, Valid
<1>4. ASSUME NEW c \in Commands, NEW to, Moves(c, to), to # "insertPipe", UNCHANGED pipes
      PROVE  ValidInv'
  BY Zenon, <1>3, <1>4 DEF ValidInv, Moves
<1>5. ASSUME NEW c \in Commands, NEW op, NEW to, NEW name, NEW arg, NEW spec,
             Begin(c, op, to, name, arg, spec), to # "insertPipe"
      PROVE  ValidInv'
  <2> DEFINE k == [Idle EXCEPT !.op = op, !.pc = to, !.name = name, !.arg = arg, !.spec = spec]
  <2>1. k.pc = to
    BY DEF Idle
  <2>2. cmd' = [cmd EXCEPT ![c] = k] /\ UNCHANGED pipes
    BY Zenon, <1>5 DEF Begin, store
  <2> HIDE DEF k
  <2>3. Moves(c, to)
    BY Zenon, <2>1, <2>2 DEF Moves
  <2> QED
    BY Zenon, <1>4, <1>5, <2>2, <2>3
<1>6. ASSUME NEW c \in Commands, NEW op, NEW n, NEW t, NEW i,
             \/ ServiceCreate(c, n, t) \/ Attach(c, n, t) \/ PipeCreate(c, n, t, i) \/ Accept(c)
             \/ Connect(c, op, n, i) \/ RemovePipe(c, n) \/ RemoveService(c, n)
      PROVE  ValidInv'
  BY ZenonT(60), <1>5, <1>6 DEF ServiceCreate, Attach, PipeCreate, Accept, Connect, RemovePipe,
     RemoveService
<1>7. ASSUME NEW c \in Commands,
             \/ PutServiceSelect(c) \/ PutServiceInsert(c) \/ PublishGrant(c)
             \/ DeleteService(c) \/ UnlinkKey(c) \/ Breaks(c)
      PROVE  ValidInv'
  <2>1. /\ UNCHANGED pipes
        /\ \E to \in {"insertService", "failed", "key", "done", "putPipe", "broken"} : Go(c, to)
    BY ZenonT(60), <1>7 DEF PutServiceSelect, PutServiceInsert, PublishGrant, DeleteService,
           UnlinkKey, Breaks, store
  <2>2. "insertPipe" \notin {"insertService", "failed", "key", "done", "putPipe", "broken"}
    OBVIOUS
  <2> QED
    BY Zenon, <1>2, <1>4, <2>1, <2>2, GoMoves
<1>8. ASSUME NEW c \in Commands, Kill(c) PROVE ValidInv'
  <2> DEFINE k == [Idle EXCEPT !.pc = "done"]
  <2>1. k.pc # "insertPipe"
    BY DEF Idle
  <2>2. cmd' = [cmd EXCEPT ![c] = k] /\ UNCHANGED pipes
    BY Zenon, <1>8 DEF Kill, store
  <2> HIDE DEF k
  <2> QED
    BY Zenon, <1>3, <2>1, <2>2 DEF ValidInv
<1>9. ASSUME NEW c \in Commands, PutPipeSelect(c) PROVE ValidInv'
  <2>1. UNCHANGED pipes
    BY Zenon, <1>9 DEF PutPipeSelect, store
  <2>2. CASE Valid(cmd[c].name, cmd[c].spec) /\ Go(c, "insertPipe")
    <3> DEFINE k == [cmd[c] EXCEPT !.pc = "insertPipe"]
    <3>1. cmd' = [cmd EXCEPT ![c] = k]
      BY Zenon, <1>2, <2>2 DEF Go
    <3>2. cmd[c] \in Cmd
      BY Zenon, <1>2
    <3>3. k.name = cmd[c].name /\ k.spec = cmd[c].spec
      BY Zenon, <3>2 DEF Cmd
    <3> HIDE DEF k
    <3> QED
      BY Zenon, <1>3, <2>1, <2>2, <3>1, <3>3 DEF ValidInv
  <2>3. CASE Go(c, "failed") \/ Go(c, "done")
    BY Zenon, <1>2, <1>4, <2>1, <2>3, GoMoves
  <2> QED
    BY Zenon, <1>9, <2>2, <2>3 DEF PutPipeSelect
<1>10. ASSUME NEW c \in Commands, PutPipeInsert(c) PROVE ValidInv'
  <2>1. /\ At(c, "insertPipe")
        /\ \E to \in {"done", "failed"} : Go(c, to)
        /\ pipes' = pipes \/ pipes' = [pipes EXCEPT ![cmd[c].name] = cmd[c].spec]
    BY Zenon, <1>10 DEF PutPipeInsert
  <2>2. \A n \in Names : pipes'[n] # None => Valid(n, pipes'[n])
    BY Zenon, <1>2, <2>1 DEF ValidInv, At
  <2>3. "insertPipe" \notin {"done", "failed"}
    OBVIOUS
  <2>4. \E to \in {"done", "failed"} : Moves(c, to)
    BY Zenon, <1>2, <2>1, GoMoves
  <2> QED
    BY Zenon, <1>3, <2>2, <2>3, <2>4 DEF Moves
<1>11. ASSUME NEW c \in Commands, OwnerKey(c) PROVE ValidInv'
  <2>1. PICK a : UNCHANGED pipes /\ cmd' = [cmd EXCEPT ![c].pc = "get", ![c].spec = a]
    BY ZenonT(60), <1>11 DEF OwnerKey, store
  <2>2. Moves(c, "get")
    <3> DEFINE k == [cmd[c] EXCEPT !.pc = "get", !.spec = a]
    <3>1. cmd' = [cmd EXCEPT ![c] = k]
      BY ZenonT(60), <1>2, <2>1
    <3>2. k.pc = "get"
      BY <1>2 DEF Cmd
    <3> HIDE DEF k
    <3> QED
      BY Zenon, <3>1, <3>2 DEF Moves
  <2> QED
    BY Zenon, <1>4, <2>1, <2>2
<1>12. ASSUME NEW c \in Commands, PreserveIdentity(c) PROVE ValidInv'
  <2> DEFINE to == IF cmd[c].op = "create" /\ cmd[c].arg = "tubo" THEN "grant" ELSE "putPipe"
  <2>1. to # "insertPipe"
    OBVIOUS
  <2>2. PICK a : UNCHANGED pipes /\ cmd' = [cmd EXCEPT ![c].pc = to, ![c].spec = a]
    BY ZenonT(60), <1>12 DEF PreserveIdentity, store
  <2> HIDE DEF to
  <2>3. Moves(c, to)
    <3> DEFINE k == [cmd[c] EXCEPT !.pc = to, !.spec = a]
    <3>1. cmd' = [cmd EXCEPT ![c] = k]
      BY ZenonT(60), <1>2, <2>2
    <3>2. k.pc = to
      BY <1>2 DEF Cmd
    <3> HIDE DEF k
    <3> QED
      BY Zenon, <3>1, <3>2 DEF Moves
  <2> QED
    BY Zenon, <1>4, <2>1, <2>2, <2>3
<1>13. ASSUME NEW c \in Commands, Recipient(c) PROVE ValidInv'
  <2>1. /\ UNCHANGED pipes
        /\ \/ Go(c, "failed")
           \/ \E a, b : cmd' = [cmd EXCEPT ![c].pc = "byRef", ![c].key = b, ![c].spec = a]
    BY ZenonT(60), <1>13 DEF Recipient, store
  <2>2. ASSUME NEW a, NEW b, cmd' = [cmd EXCEPT ![c].pc = "byRef", ![c].key = b, ![c].spec = a]
        PROVE  Moves(c, "byRef")
    <3> DEFINE k == [cmd[c] EXCEPT !.pc = "byRef", !.key = b, !.spec = a]
    <3>1. cmd' = [cmd EXCEPT ![c] = k]
      BY ZenonT(60), <1>2, <2>2
    <3>2. k.pc = "byRef"
      BY <1>2 DEF Cmd
    <3> HIDE DEF k
    <3> QED
      BY Zenon, <3>1, <3>2 DEF Moves
  <2>3. CASE Go(c, "failed")
    BY Zenon, <1>2, <1>4, <2>1, <2>3, GoMoves
  <2>4. CASE \E a, b : cmd' = [cmd EXCEPT ![c].pc = "byRef", ![c].key = b, ![c].spec = a]
    <3>1. Moves(c, "byRef")
      BY ZenonT(60), <2>2, <2>4
    <3> QED
      BY Zenon, <1>4, <2>1, <3>1
  <2> QED
    BY Zenon, <2>1, <2>3, <2>4
<1>14. ASSUME NEW c \in Commands, LookupRef(c) \/ LookupID(c) PROVE ValidInv'
  <2> DEFINE to == AccessStep(c)
  <2>1. to # "insertPipe"
    BY Zenon DEF AccessStep
  <2> HIDE DEF to
  <2>2. /\ UNCHANGED pipes
        /\ \/ Go(c, "failed") \/ Go(c, "byID") \/ Go(c, to)
           \/ cmd' = [cmd EXCEPT ![c].pc = to, ![c].upsert = FALSE]
    BY ZenonT(60), <1>14 DEF LookupRef, LookupID, store, to
  <2>3. ASSUME cmd' = [cmd EXCEPT ![c].pc = to, ![c].upsert = FALSE] PROVE Moves(c, to)
    <3> DEFINE k == [cmd[c] EXCEPT !.pc = to, !.upsert = FALSE]
    <3>1. cmd' = [cmd EXCEPT ![c] = k]
      BY ZenonT(60), <1>2, <2>3
    <3>2. k.pc = to
      BY <1>2 DEF Cmd
    <3> HIDE DEF k
    <3> QED
      BY Zenon, <3>1, <3>2 DEF Moves
  <2> QED
    BY Zenon, <1>2, <1>4, <2>1, <2>2, <2>3, GoMoves
<1>15. ASSUME NEW c \in Commands, AcceptKey(c) PROVE ValidInv'
  <2>1. PICK a : UNCHANGED pipes /\ cmd' = [cmd EXCEPT ![c].pc = "redeem", ![c].key = a]
    BY ZenonT(60), <1>15 DEF AcceptKey, store
  <2>2. Moves(c, "redeem")
    <3> DEFINE k == [cmd[c] EXCEPT !.pc = "redeem", !.key = a]
    <3>1. cmd' = [cmd EXCEPT ![c] = k]
      BY ZenonT(60), <1>2, <2>1
    <3>2. k.pc = "redeem"
      BY <1>2 DEF Cmd
    <3> HIDE DEF k
    <3> QED
      BY Zenon, <3>1, <3>2 DEF Moves
  <2> QED
    BY Zenon, <1>4, <2>1, <2>2
<1>16. ASSUME NEW c \in Commands, Redeem(c) PROVE ValidInv'
  <2>1. /\ UNCHANGED pipes
        /\ Go(c, "failed") \/ cmd' = [cmd EXCEPT ![c].pc = "bind", ![c].spent = TRUE]
    BY Zenon, <1>16 DEF Redeem, store
  <2>2. ASSUME cmd' = [cmd EXCEPT ![c].pc = "bind", ![c].spent = TRUE] PROVE Moves(c, "bind")
    <3> DEFINE k == [cmd[c] EXCEPT !.pc = "bind", !.spent = TRUE]
    <3>1. cmd' = [cmd EXCEPT ![c] = k]
      BY ZenonT(60), <1>2, <2>2
    <3>2. k.pc = "bind"
      BY <1>2 DEF Cmd
    <3> HIDE DEF k
    <3> QED
      BY Zenon, <3>1, <3>2 DEF Moves
  <2> QED
    BY Zenon, <1>2, <1>4, <2>1, <2>2, GoMoves
<1>17. ASSUME NEW c \in Commands, Bind(c) \/ Acquire(c) PROVE ValidInv'
  <2>1. /\ UNCHANGED pipes
        /\ \/ Go(c, "failed") \/ Go(c, "done")
           \/ cmd' = [cmd EXCEPT ![c].pc = "putPipe", ![c].name = RecipientRef(@)]
    BY Zenon, <1>17 DEF Bind, Acquire, AfterAccess, store
  <2>2. ASSUME cmd' = [cmd EXCEPT ![c].pc = "putPipe", ![c].name = RecipientRef(@)]
        PROVE  Moves(c, "putPipe")
    <3> DEFINE k == [cmd[c] EXCEPT !.pc = "putPipe", !.name = RecipientRef(cmd[c].name)]
    <3>1. cmd' = [cmd EXCEPT ![c] = k]
      BY ZenonT(60), <1>2, <2>2
    <3>2. k.pc = "putPipe"
      BY <1>2 DEF Cmd
    <3> HIDE DEF k
    <3> QED
      BY Zenon, <3>1, <3>2 DEF Moves
  <2> QED
    BY Zenon, <1>2, <1>4, <2>1, <2>2, GoMoves
<1>18. ASSUME NEW c \in Commands, DeletePipe(c) PROVE ValidInv'
  <2>1. CASE Go(c, "failed") /\ UNCHANGED pipes
    BY Zenon, <1>2, <1>4, <2>1, GoMoves
  <2>2. CASE /\ pipes' = [pipes EXCEPT ![cmd[c].name] = None]
             /\ cmd' = [cmd EXCEPT ![c].pc = "unlink", ![c].arg = pipes[cmd[c].name].path]
    <3>1. \A n \in Names : pipes'[n] # None => Valid(n, pipes'[n])
      BY Zenon, <1>2, <2>2 DEF ValidInv
    <3> DEFINE k == [cmd[c] EXCEPT !.pc = "unlink", !.arg = pipes[cmd[c].name].path]
    <3>2. cmd' = [cmd EXCEPT ![c] = k]
      BY ZenonT(60), <1>2, <2>2
    <3>3. k.pc = "unlink"
      BY <1>2 DEF Cmd
    <3> HIDE DEF k
    <3> QED
      BY Zenon, <1>3, <3>1, <3>2, <3>3
  <2> QED
    BY Zenon, <1>18, <2>1, <2>2 DEF DeletePipe
<1> QED
  BY ZenonT(60), <1>1, <1>6, <1>7, <1>8, <1>9, <1>10, <1>11, <1>12, <1>13, <1>14, <1>15,
     <1>16, <1>17, <1>18 DEF Next

(* TraversalAgrees: in every reachable store, for any number of names and  *)
(* any hop limit, ResolveLogicalPath finds a Service from a Pipe exactly   *)
(* when there is a chain of distinct Pipes to one within the limit, and an *)
(* OpenPipe that the tunnel handlers pass on from process to process       *)
(* reaches it exactly when the Pipes after the first are published.        *)
THEOREM TraversalsAgree == Spec => []TraversalAgrees
<1>1. Init => ValidInv
  <2> SUFFICES ASSUME Init PROVE ValidInv
    OBVIOUS
  <2>1. Idle.pc = "idle"
    BY Zenon, IdleOK
  <2> QED
    BY Zenon, <2>1 DEF Init, ValidInv
<1>2. WorkInv /\ ValidInv => TraversalAgrees
  <2>1. WorkInv /\ ValidInv => GraphOK
    BY Zenon DEF WorkInv, Types, StoreInv, Distinct, ValidInv, GraphOK
  <2> QED
    BY Zenon, <2>1, GraphsAgree
<1> QED
  BY <1>1, <1>2, WorkInvariance, ValidPreserves, PTL DEF Spec

=============================================================================
