------------------------------- MODULE LocalKey -------------------------------
(***************************************************************************)
(* The owner-local private-key file (internal/localkey): Load, and         *)
(* Provision, which creates the key once or returns the one already there. *)
(*                                                                         *)
(* Processes call Provision on one path at once.  Each system call is a    *)
(* step and may fail; a process may be killed between two of them, and the *)
(* machine may lose power, after which a directory holds the entries that  *)
(* had reached the disk.  The entry of the key file, the entry of its      *)
(* directory and the data of the file reach the disk separately.           *)
(*                                                                         *)
(* The lock is flock on an inode, while the lock file is a name: a holder  *)
(* removes the name before it unlocks, so that a process already waiting   *)
(* on the removed inode and one that creates the name again hold the lock  *)
(* at the same time.                                                       *)
(***************************************************************************)
EXTENDS Integers, FiniteSets

CONSTANTS
    Procs,       \* processes that call Provision
    Keys,        \* private keys
    Inodes,      \* inodes of lock files
    None,        \* no key, no inode
    Corrupt      \* a file whose data never reached the disk

ASSUME Distinct == /\ None \notin Keys \cup Inodes
                   /\ Corrupt \notin Keys \cup {None}

VARIABLES
    dir,        \* the key directory: "absent", "made" or "durable"
    key,        \* what path names in the running system
    disk,       \* what path names on the disk
    synced,     \* keys whose file data was fsynced
    lockfile,   \* the inode the lock's name refers to
    pc,         \* where each process is in provision
    ino,        \* the lock inode each process has open
    my,         \* the key each process generated
    given,      \* keys returned to callers, by Load or by Provision
    gone,       \* history: given keys that path no longer names
    made        \* keys whose creation was reported, while dir survives

files == <<dir, key, disk, synced, lockfile>>
procs == <<pc, ino, my>>
vars  == <<dir, key, disk, synced, lockfile, pc, ino, my, given, gone, made>>

(* Between Flock and LOCK_UN.                                              *)
Holding   == {"load", "write", "link", "clean", "sync", "rollback", "resync",
              "unlink", "unlock"}
(* Between os.Link and the return of writeDurableNoClobber.                *)
Published == {"clean", "sync", "rollback"}
PCs       == {"idle", "mkdir", "parent", "open", "wait"} \cup Holding

Init ==
    /\ dir \in {"absent", "durable"}
    /\ key = None /\ disk = None /\ synced = {}
    /\ lockfile = None
    /\ pc = [p \in Procs |-> "idle"]
    /\ ino = [p \in Procs |-> None]
    /\ my = [p \in Procs |-> None]
    /\ given = {} /\ gone = {} /\ made = {}

Goes(p, where) == pc' = [pc EXCEPT ![p] = where]

-----------------------------------------------------------------------------
(* Load: the path is looked up, opened and read; the file a name refers to *)
(* is never written again, so the result is that of the last look-up.      *)
Loadable == key \in Keys

Load ==
    /\ dir # "absent" /\ Loadable
    /\ given' = given \cup {key}
    /\ UNCHANGED <<files, procs, gone, made>>

-----------------------------------------------------------------------------
(* provision: the directory.                                               *)
Provision(p) ==
    /\ pc[p] = "idle"
    /\ Goes(p, IF dir = "absent" THEN "mkdir" ELSE "open")
    /\ UNCHANGED <<files, ino, my, given, gone, made>>

(* Mkdir; a directory another process has just made will do.               *)
MkDir(p) ==
    /\ pc[p] = "mkdir"
    /\ IF dir = "absent"
         THEN dir' = "made" /\ Goes(p, "parent")
         ELSE UNCHANGED dir /\ Goes(p, "open")
    /\ UNCHANGED <<key, disk, synced, lockfile, ino, my, given, gone, made>>

SyncParent(p) ==
    /\ pc[p] = "parent"
    /\ \/ dir' = "durable" /\ Goes(p, "open")
       \/ UNCHANGED dir /\ Goes(p, "idle")
    /\ UNCHANGED <<key, disk, synced, lockfile, ino, my, given, gone, made>>

-----------------------------------------------------------------------------
(* acquireLock: open or create the name, then block in flock.              *)
Open(p) ==
    /\ pc[p] = "open"
    /\ \/ /\ lockfile' \in IF lockfile # None THEN {lockfile}
                           ELSE Inodes \ {ino[q] : q \in Procs}
          /\ ino' = [ino EXCEPT ![p] = lockfile']
          /\ Goes(p, "wait")
       \/ Goes(p, "idle") /\ UNCHANGED <<lockfile, ino>>
    /\ UNCHANGED <<dir, key, disk, synced, my, given, gone, made>>

Flock(p) ==
    /\ pc[p] = "wait"
    /\ \A q \in Procs : pc[q] \in Holding => ino[q] # ino[p]
    /\ Goes(p, "load")
    /\ UNCHANGED <<files, ino, my, given, gone, made>>

-----------------------------------------------------------------------------
(* GenerateKey: a key nobody has.                                          *)
Unused == Keys \ ({key, disk} \cup given \cup {my[q] : q \in Procs})

(* The second Load, under the lock: return what is there, fail on a bad    *)
(* file, and generate a key only when there is none (which may fail too).  *)
LoadOrGenerate(p) ==
    /\ pc[p] = "load"
    /\ \/ /\ Loadable
          /\ given' = given \cup {key}
          /\ Goes(p, "unlink")
          /\ UNCHANGED <<my, synced>>
       \/ /\ key = Corrupt
          /\ Goes(p, "unlink")
          /\ UNCHANGED <<my, synced, given>>
       \/ /\ key = None
          /\ \E k \in Unused :
               my' = [my EXCEPT ![p] = k] /\ synced' = synced \ {k}
          /\ Goes(p, "write")
          /\ UNCHANGED given
       \/ /\ key = None
          /\ Goes(p, "unlink")
          /\ UNCHANGED <<my, synced, given>>
    /\ UNCHANGED <<dir, key, disk, lockfile, ino, gone, made>>

Forgets(p) == my' = [my EXCEPT ![p] = None]

(* Mutant: the temporary file is not fsynced.                              *)
WriteTemp_Unsynced(p) ==
    /\ pc[p] = "write"
    /\ Goes(p, "link")
    /\ UNCHANGED <<files, ino, my, given, gone, made>>

(* writeDurableNoClobber: the temporary file, written and fsynced.         *)
WriteTemp(p) ==
    /\ pc[p] = "write"
    /\ \/ synced' = synced \cup {my[p]} /\ Goes(p, "link") /\ UNCHANGED my
       \/ Goes(p, "unlink") /\ Forgets(p) /\ UNCHANGED synced
    /\ UNCHANGED <<dir, key, disk, lockfile, ino, given, gone, made>>

(* Mutant: rename, which replaces a file that is there, instead of link.   *)
Link_Clobber(p) ==
    /\ pc[p] = "link"
    /\ key' = my[p] /\ Goes(p, "clean")
    /\ UNCHANGED <<dir, disk, synced, lockfile, ino, my, given, gone, made>>

(* Mutant: the loser of the race returns the key it could not publish.     *)
Link_LoserReturns(p) ==
    /\ pc[p] = "link"
    /\ \/ key = None /\ key' = my[p] /\ Goes(p, "clean") /\ UNCHANGED <<my, given>>
       \/ /\ key # None /\ given' = given \cup {my[p]}
          /\ Goes(p, "unlink") /\ Forgets(p) /\ UNCHANGED key
    /\ UNCHANGED <<dir, disk, synced, lockfile, ino, gone, made>>

(* os.Link: fails when path is there, and may fail otherwise.              *)
Link(p) ==
    /\ pc[p] = "link"
    /\ \/ key = None /\ key' = my[p] /\ Goes(p, "clean") /\ UNCHANGED my
       \/ Goes(p, "unlink") /\ Forgets(p) /\ UNCHANGED key
    /\ UNCHANGED <<dir, disk, synced, lockfile, ino, given, gone, made>>

(* os.Remove(path), its error ignored.  Callers that have the key keep it. *)
RemovePath ==
    \/ key' = None /\ gone' = gone \cup (given \cap {key})
    \/ UNCHANGED <<key, gone>>

(* os.Remove(tmp); when it fails the published name goes too.              *)
RemoveTemp(p) ==
    /\ pc[p] = "clean"
    /\ \/ Goes(p, "sync") /\ UNCHANGED <<key, my, gone>>
       \/ RemovePath /\ Goes(p, "unlink") /\ Forgets(p)
    /\ UNCHANGED <<dir, disk, synced, lockfile, ino, given, made>>

Reports(p) ==
    /\ given' = given \cup {my[p]} /\ made' = made \cup {my[p]}
    /\ Goes(p, "unlink") /\ Forgets(p)

(* Mutant: success without the fsync of the directory.                     *)
SyncDir_Skipped(p) ==
    /\ pc[p] = "sync"
    /\ Reports(p)
    /\ UNCHANGED <<files, ino, gone>>

(* syncDir(dir).  Success is reported after it, and only then.             *)
SyncDir(p) ==
    /\ pc[p] = "sync"
    /\ \/ disk' = key /\ Reports(p)
       \/ Goes(p, "rollback") /\ UNCHANGED <<disk, my, given, made>>
    /\ UNCHANGED <<dir, key, synced, lockfile, ino, gone>>

(* The fsync failed: take the name back, and try to sync that.             *)
Rollback(p) ==
    /\ pc[p] = "rollback"
    /\ RemovePath
    /\ Goes(p, "resync") /\ Forgets(p)
    /\ UNCHANGED <<dir, disk, synced, lockfile, ino, given, made>>

SyncRollback(p) ==
    /\ pc[p] = "resync"
    /\ disk' \in {key, disk}
    /\ Goes(p, "unlink")
    /\ UNCHANGED <<dir, key, synced, lockfile, ino, my, given, gone, made>>

-----------------------------------------------------------------------------
(* The deferred release: the name goes first, whichever inode it refers to *)
(* by now, then the lock.                                                  *)
Unlink(p) ==
    /\ pc[p] = "unlink"
    /\ lockfile' \in {None, lockfile}
    /\ Goes(p, "unlock")
    /\ UNCHANGED <<dir, key, disk, synced, ino, my, given, gone, made>>

(* Mutant: the release forgets LOCK_UN while the process lives on.         *)
Unlock_Forgotten(p) ==
    /\ pc[p] = "unlock"
    /\ UNCHANGED vars

Unlock(p) ==
    /\ pc[p] = "unlock"
    /\ Goes(p, "idle")
    /\ ino' = [ino EXCEPT ![p] = None]
    /\ UNCHANGED <<files, my, given, gone, made>>

-----------------------------------------------------------------------------
(* A process is killed: the kernel drops its lock, its files stay.         *)
Kill(p) ==
    /\ pc[p] # "idle"
    /\ Goes(p, "idle")
    /\ ino' = [ino EXCEPT ![p] = None]
    /\ Forgets(p)
    /\ UNCHANGED <<files, given, gone, made>>

(* The kernel writes directory entries back when it likes.                 *)
Writeback ==
    /\ \/ dir = "made" /\ dir' = "durable" /\ UNCHANGED disk
       \/ dir # "absent" /\ disk # key /\ disk' = key /\ UNCHANGED dir
    /\ UNCHANGED <<key, synced, lockfile, procs, given, gone, made>>

(* Power is lost: processes go, and what had not reached the disk.  With   *)
(* the directory go the keys in it; otherwise a key whose name had not     *)
(* reached the disk goes, and path may name an earlier one again, whose    *)
(* removal had not reached it.                                             *)
PowerLoss ==
    /\ pc' = [p \in Procs |-> "idle"]
    /\ ino' = [p \in Procs |-> None]
    /\ my' = [p \in Procs |-> None]
    /\ \/ /\ dir # "durable"
          /\ dir' = "absent" /\ key' = None /\ disk' = None
          /\ lockfile' = None
          /\ made' = {}
       \/ /\ dir # "absent"
          /\ dir' = "durable"
          /\ disk' = IF disk \in synced \cup {None} THEN disk ELSE Corrupt
          /\ key' = disk'
          /\ lockfile' \in {None, lockfile}
          /\ UNCHANGED made
    /\ gone' = given \ {key'}
    /\ UNCHANGED <<synced, given>>

-----------------------------------------------------------------------------
Step(p) ==
    \/ MkDir(p) \/ SyncParent(p) \/ Open(p)
    \/ LoadOrGenerate(p) \/ WriteTemp(p) \/ Link(p) \/ RemoveTemp(p)
    \/ SyncDir(p) \/ Rollback(p) \/ SyncRollback(p)
    \/ Unlink(p) \/ Unlock(p)

Next ==
    \/ \E p \in Procs : Provision(p) \/ Flock(p) \/ Step(p) \/ Kill(p)
    \/ Load \/ Writeback \/ PowerLoss

Spec == Init /\ [][Next]_vars

(* A system call returns, and flock serves the waiters of an inode in turn *)
(* so that none is passed over for ever.                                   *)
Fairness == \A p \in Procs : WF_vars(Step(p)) /\ SF_vars(Flock(p))

FairSpec == Spec /\ Fairness

-----------------------------------------------------------------------------
TypeOK ==
    /\ dir \in {"absent", "made", "durable"}
    /\ key \in Keys \cup {None, Corrupt}
    /\ disk \in Keys \cup {None, Corrupt}
    /\ synced \subseteq Keys
    /\ lockfile \in Inodes \cup {None}
    /\ pc \in [Procs -> PCs]
    /\ ino \in [Procs -> Inodes \cup {None}]
    /\ my \in [Procs -> Keys \cup {None}]
    /\ given \subseteq Keys
    /\ gone \subseteq given
    /\ made \subseteq Keys

(* The key a process works on is its own, and from link until it is done   *)
(* path names that key and nobody was told it is there for good: a rollback *)
(* never removes another creator's key, nor one already reported.          *)
RollbackIsOwn ==
    /\ TypeOK
    /\ \A p \in Procs :
         /\ my[p] # None <=> pc[p] \in {"write", "link"} \cup Published
         /\ pc[p] \in Published => key = my[p] /\ my[p] \notin made
         /\ \A q \in Procs : my[p] = my[q] => p = q \/ my[p] = None

(* A key whose creation Provision reported stays the key, in the running   *)
(* system and on the disk, whatever fails, is killed or loses power later  *)
(* (only a directory that was itself never synced can take it along).      *)
CreatedKeyStays == made \subseteq {key} \cap {disk}

(* Callers that hold a key, from Load or from Provision, hold the same one *)
(* (the lock does not ensure this, link does), except those whose key is   *)
(* gone since: it was taken back by a creator that then failed, or lost    *)
(* with the power, before anybody was told it had been created.            *)
GivenKeysAgree == given \ gone \subseteq {key} /\ gone \cap ({key} \cup made) = {}

(* A key that was generated and not yet linked is nowhere else.            *)
NewKeysAreNew ==
    \A p \in Procs :
      pc[p] \in {"write", "link"} => my[p] \notin given \cup {key, disk}

(* path never names, and no process is about to make it name, a file whose *)
(* data is not on the disk, so that no power loss leaves a truncated key,  *)
(* which Load would reject for ever.                                       *)
KeyIsWhole ==
    /\ {key, disk} \subseteq synced \cup {None}
    /\ \A p \in Procs : pc[p] \in {"link"} \cup Published => my[p] \in synced

(* To its callers the path is a cell that is written once (KeyCell): each  *)
(* gets what the cell holds, no creator replaces another creator's key,    *)
(* and a second key, one that no caller has, comes to be only after the    *)
(* first was taken back by its creator's rollback or by a power loss; that *)
(* never happens to a key whose creation was reported.                     *)
Cell == INSTANCE KeyCell WITH cell <- key, kept <- (dir = "durable")
KeyCellSpec == Cell!Spec

(* Provision returns, whoever else provisions and whatever fails.          *)
ProvisionReturns == \A p \in Procs : pc[p] # "idle" ~> pc[p] = "idle"

=============================================================================
