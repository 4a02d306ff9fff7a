--------------------------- MODULE LockAndDelete ---------------------------
(***************************************************************************)
(* ContainerLocks with the one operation that destroys what the locks are  *)
(* made of: LockAndDelete takes the full lock and runs os.RemoveAll on the *)
(* container's directory, lock files included, entry by entry, while other *)
(* processes are anywhere in their own calls.  The module covers one life  *)
(* of the name: a container created anew under it is Inventory's matter.   *)
(***************************************************************************)
EXTENDS ContainerLocks

CONSTANTS
    MaxInodes      \* bound: inodes ever given out (lock files, directories)

\* The entries of the directory that are not lock files.
Contents == {"config.json", "storage"}

VARIABLES
    present,   \* the entries of Contents that exist
    opened,    \* opened[p]: p has read config.json (container.Open)
    removal    \* removal[p]: whether p runs RemoveAll, and the entries it
               \* has listed and not unlinked yet

dvars == <<present, opened, removal>>

NoRemoval == [on |-> FALSE, todo |-> {}]
Removing(p) == removal[p].on

\* An entry is a file of Contents or the lock file of a level.
LockFileLevels == Levels \ {FullContainerLock}
Entry == [name : Contents] \cup [lock : LockFileLevels]
Listing == {e \in Entry : IF "lock" \in DOMAIN e THEN files[e.lock] # 0
                                                 ELSE e.name \in present}

DTypeOK ==
    /\ TypeOK
    /\ present \subseteq Contents
    /\ opened \in [Procs -> BOOLEAN]
    /\ removal \in [Procs -> [on : BOOLEAN, todo : SUBSET Entry]]

DInit ==
    /\ Init
    /\ present = Contents
    /\ opened = [p \in Procs |-> FALSE]
    /\ removal = [p \in Procs |-> NoRemoval]

-----------------------------------------------------------------------------
\* Every command first opens the container: config.json must be readable.
Open(p) ==
    /\ ~opened[p]
    /\ "config.json" \in present
    /\ opened' = [opened EXCEPT ![p] = TRUE]
    /\ UNCHANGED <<vars, present, removal>>

\* The steps of Lock; any time may have passed since Open (delete asks the
\* user to confirm in between).
LockCall(p) ==
    /\ \/ \E site \in Sites : opened[p] /\ Lock(p, site)
       \/ CreateLockFile(p) /\ inodes < MaxInodes
       \/ OpenLockFile(p)
       \/ Flock(p)
       \/ WouldBlock(p)
    /\ ~Removing(p)
    /\ UNCHANGED dvars

DRelease(p) ==
    /\ ~Removing(p)
    /\ \E lk \in held[p] : Release(p, lk) /\ role[p] # "delete"
    /\ UNCHANGED dvars

\* The process ends, also in the middle of RemoveAll.
DDie(p) ==
    /\ opened' = [opened EXCEPT ![p] = FALSE]
    /\ removal' = [removal EXCEPT ![p] = NoRemoval]
    /\ Die(p)
    /\ UNCHANGED present

DeleteGranted(p) == \E lk \in held[p] : lk.level = FullContainerLock
                                        /\ role[p] = "delete"

\* RemoveAll opens the directory and lists it, once.
RemoveAllList(p) ==
    /\ DeleteGranted(p)
    /\ ~Removing(p)
    /\ files[FullContainerLock] # 0
    /\ removal' = [removal EXCEPT ![p] = [on |-> TRUE, todo |-> Listing]]
    /\ UNCHANGED <<vars, present, opened>>

\* It unlinks the listed entries from the directory it has opened.
RemoveAllUnlink(p, e) ==
    /\ e \in removal[p].todo
    /\ removal' = [removal EXCEPT ![p].todo = @ \ {e}]
    /\ IF "lock" \in DOMAIN e
       THEN files' = [files EXCEPT ![e.lock] = 0] /\ UNCHANGED present
       ELSE present' = present \ {e.name} /\ UNCHANGED files
    /\ UNCHANGED <<inodes, role, call, held, opened>>

\* Then rmdir by name, which fails if an entry appeared meanwhile; either
\* way the deferred Release follows and the command ends.
RemoveAllRmdir(p) ==
    /\ Removing(p)
    /\ removal[p].todo = {}
    /\ files' = IF Listing = {} THEN [files EXCEPT ![FullContainerLock] = 0]
                                ELSE files
    /\ removal' = [removal EXCEPT ![p] = NoRemoval]
    /\ opened' = [opened EXCEPT ![p] = FALSE]
    /\ held' = [held EXCEPT ![p] = {}]
    /\ role' = [role EXCEPT ![p] = "none"]
    /\ UNCHANGED <<inodes, call, present>>

DNext ==
    \E p \in Procs :
          \/ Open(p)
          \/ LockCall(p)
          \/ DRelease(p)
          \/ DDie(p)
          \/ RemoveAllList(p)
          \/ \E e \in Entry : RemoveAllUnlink(p, e)
          \/ RemoveAllRmdir(p)

DSpec == DInit /\ [][DNext]_<<vars, dvars>>

-----------------------------------------------------------------------------
\* A container runs: its nsboxd was granted the run lock and lives.
Running(p) == role[p] = "nsboxd" /\ RunLock \in HeldLevels(p)

\* It runs on the lock file the directory has now, not on one that a delete
\* has unlinked since.
RunningOnFile(p) ==
    /\ Running(p)
    /\ \E lk \in held[p] : files[RunLock] \in lk.fds

\* A delete is refused while the container runs: no delete gets past its
\* lock to RemoveAll while an nsboxd holds the run.lock that is there, also
\* after earlier deletes that died half-way (container.go:366-376, 388-393).
DeleteRefusedWhileRunning ==
    [][\A p, q \in Procs :
         (~Removing(p) /\ removal'[p].on) => ~RunningOnFile(q)]_<<vars, dvars>>
=============================================================================
