--------------------------- MODULE ContainerLocks ---------------------------
(***************************************************************************)
(* The lock hierarchy of one container (internal/container/container.go,   *)
(* Lock, Release, LockUntilProcessDeath) as the nsbox, nsboxd and kill     *)
(* processes drive it.  A lock is a flock(2) on an inode: run.lock,        *)
(* exports.lock and config.lock in the container's directory, and the      *)
(* directory itself for the full lock, which then takes the three files    *)
(* below it one by one.  Every system call of Lock is a step of its own.   *)
(*                                                                         *)
(* An inode is locked as long as an open file description that locked it   *)
(* exists, so "locked" is derived from the descriptors of the processes.   *)
(* Nothing in this module removes a lock file or the directory:            *)
(* LockAndDelete adds that.                                                *)
(***************************************************************************)
EXTENDS Naturals

CONSTANTS
    Procs,       \* processes that may work on the container
    Sites        \* the call sites of Lock they go through (CallSites)

RunLock == 0
ExportsLock == 1
ConfigLock == 2
FullContainerLock == 3
Levels == 0..3

\* The levels a granted lock stands for: a full lock includes all of them.
Covers(level) == IF level = FullContainerLock THEN Levels ELSE {level}

(***************************************************************************)
(* Who locks what: the role of a process, what it already holds, the level *)
(* it asks for, whether it waits, and whether it keeps the lock until it   *)
(* dies (LockUntilProcessDeath) or releases it.                            *)
(***************************************************************************)
CallSites ==
    {[role |-> "nsboxd", holds |-> {}, level |-> RunLock,
      wait |-> FALSE, keep |-> TRUE],
     [role |-> "nsboxd", holds |-> {RunLock}, level |-> ExportsLock,
      wait |-> FALSE, keep |-> FALSE],
     [role |-> "config", holds |-> {}, level |-> ConfigLock,
      wait |-> FALSE, keep |-> TRUE],
     [role |-> "config", holds |-> {ConfigLock}, level |-> ExportsLock,
      wait |-> FALSE, keep |-> FALSE],
     [role |-> "kill", holds |-> {}, level |-> RunLock,
      wait |-> TRUE, keep |-> FALSE],
     [role |-> "delete", holds |-> {}, level |-> FullContainerLock,
      wait |-> FALSE, keep |-> FALSE],
     [role |-> "rename", holds |-> {}, level |-> FullContainerLock,
      wait |-> FALSE, keep |-> TRUE]}

\* The theorems hold for any callers, not only for those of this version.
ASSUME SitesAssumption ==
    Sites \subseteq [role : STRING, holds : SUBSET Levels, level : Levels,
                     wait : BOOLEAN, keep : BOOLEAN]

Roles == {c.role : c \in Sites}

VARIABLES
    files,    \* files[l]: the inode the path of level l names, 0 if none;
              \* files[FullContainerLock] is the container's directory
    inodes,   \* number of inodes given out so far
    role,     \* the command a process runs, "none" before it starts one
    call,     \* the Lock call in progress in each process
    held      \* the Lock values each process owns: [level, keep, fds]

vars == <<files, inodes, role, call, held>>

NoCall == [pc |-> "idle", level |-> 0, wait |-> FALSE, keep |-> FALSE,
           at |-> 0, fd |-> 0, got |-> {}]

\* The inodes p has locked: by the call in progress and by finished ones.
Fds(p) == call[p].got \cup UNION {lk.fds : lk \in held[p]}
Flocked(ino) == \E p \in Procs : ino \in Fds(p)
HeldLevels(p) == {lk.level : lk \in held[p]}

TypeOK ==
    /\ files \in [Levels -> Nat]
    /\ inodes \in Nat
    /\ role \in [Procs -> Roles \cup {"none"}]
    /\ call \in [Procs -> [pc : {"idle", "create", "open", "flock"},
                           level : Levels, wait : BOOLEAN, keep : BOOLEAN,
                           at : Levels, fd : Nat, got : SUBSET Nat]]
    /\ held \in [Procs -> SUBSET [level : Levels, keep : BOOLEAN,
                                  fds : SUBSET Nat]]

-----------------------------------------------------------------------------
\* A container that was just created: its directory holds no lock file yet.
Init ==
    /\ files = [l \in Levels |-> IF l = FullContainerLock THEN 1 ELSE 0]
    /\ inodes = 1
    /\ role = [p \in Procs |-> "none"]
    /\ call = [p \in Procs |-> NoCall]
    /\ held = [p \in Procs |-> {}]

\* The first step of a call on a level: the files are created if missing,
\* the directory is only opened.
FirstPc(level) == IF level = FullContainerLock THEN "open" ELSE "create"

\* Mutant of Lock: the flags are dropped and every call waits.
LockAlwaysWaits(p, site) ==
    /\ call[p].pc = "idle"
    /\ role[p] \in {"none", site.role}
    /\ HeldLevels(p) = site.holds
    /\ role' = [role EXCEPT ![p] = site.role]
    /\ call' = [call EXCEPT ![p] =
                   [pc |-> FirstPc(site.level), level |-> site.level,
                    wait |-> TRUE, keep |-> site.keep,
                    at |-> site.level, fd |-> 0, got |-> {}]]
    /\ UNCHANGED <<files, inodes, held>>

Lock(p, site) ==
    /\ call[p].pc = "idle"
    /\ role[p] \in {"none", site.role}
    /\ HeldLevels(p) = site.holds
    /\ role' = [role EXCEPT ![p] = site.role]
    /\ call' = [call EXCEPT ![p] =
                   [pc |-> FirstPc(site.level), level |-> site.level,
                    wait |-> site.wait, keep |-> site.keep,
                    at |-> site.level, fd |-> 0, got |-> {}]]
    /\ UNCHANGED <<files, inodes, held>>

\* The call returns an error; what a full lock had locked is released.  The
\* descriptor of the level that failed stays open until the process dies, but
\* has no lock, and none is ever asked for on it: it is not in the model.
Fail(p) ==
    /\ call' = [call EXCEPT ![p] = NoCall]
    /\ UNCHANGED <<role, held>>

\* os.Create(path): the existing file, or a new one in an existing directory.
CreateLockFile(p) ==
    /\ call[p].pc = "create"
    /\ \/ /\ files[FullContainerLock] = 0
          /\ Fail(p)
          /\ UNCHANGED <<files, inodes>>
       \/ /\ files[FullContainerLock] # 0
          /\ \/ /\ files[call[p].at] # 0
                /\ UNCHANGED <<files, inodes>>
             \/ /\ files[call[p].at] = 0
                /\ inodes' = inodes + 1
                /\ files' = [files EXCEPT ![call[p].at] = inodes + 1]
          /\ call' = [call EXCEPT ![p].pc = "open"]
          /\ UNCHANGED <<role, held>>

\* unix.Open(path): the inode the path names now.
OpenLockFile(p) ==
    /\ call[p].pc = "open"
    /\ \/ /\ files[call[p].at] = 0
          /\ Fail(p)
       \/ /\ files[call[p].at] # 0
          /\ call' = [call EXCEPT ![p].pc = "flock",
                                  ![p].fd = files[call[p].at]]
          /\ UNCHANGED <<role, held>>
    /\ UNCHANGED <<files, inodes>>

\* Mutants of NextLevel: a loop that starts at the second level, and one
\* that does not start over below the directory's own level.
NextLevelSkipsRun(at) == IF at = FullContainerLock THEN ExportsLock ELSE at + 1
NextLevelAbove(at) == at + 1
\* Mutant of LastLevel: a loop that ends one level early.
LastLevelEarly(c) == c.level # FullContainerLock \/ c.at = ExportsLock

\* The level a full lock takes next: the directory comes first, then 0, 1, 2.
NextLevel(at) == IF at = FullContainerLock THEN RunLock ELSE at + 1
LastLevel(c) == c.level # FullContainerLock \/ c.at = ConfigLock

\* flock(fd, LOCK_EX) succeeds.  The call returns when no level is left.
Flock(p) ==
    /\ call[p].pc = "flock"
    /\ ~Flocked(call[p].fd)
    /\ LET c == call[p]
           got == c.got \cup {c.fd}
       IN  \/ /\ LastLevel(c)
              /\ call' = [call EXCEPT ![p] = NoCall]
              /\ held' = [held EXCEPT ![p] = @ \cup
                             {[level |-> c.level, keep |-> c.keep,
                               fds |-> got]}]
           \/ /\ ~LastLevel(c)
              /\ call' = [call EXCEPT ![p].pc = "create",
                                      ![p].at = NextLevel(c.at),
                                      ![p].got = got]
              /\ UNCHANGED held
    /\ UNCHANGED <<files, inodes, role>>

\* flock(fd, LOCK_EX | LOCK_NB) finds the inode locked: EWOULDBLOCK.
\* A call that waits has no such step: it stays in flock until it gets it.
WouldBlock(p) ==
    /\ call[p].pc = "flock"
    /\ ~call[p].wait
    /\ Flocked(call[p].fd)
    /\ Fail(p)
    /\ UNCHANGED <<files, inodes>>

Release(p, lk) ==
    /\ call[p].pc = "idle"
    /\ lk \in held[p]
    /\ ~lk.keep
    /\ held' = [held EXCEPT ![p] = @ \ {lk}]
    /\ UNCHANGED <<files, inodes, role, call>>

\* The process ends, of itself or killed at any point of a call; the kernel
\* closes its descriptors.  Another process may take its place.
Die(p) ==
    /\ role[p] # "none"
    /\ role' = [role EXCEPT ![p] = "none"]
    /\ call' = [call EXCEPT ![p] = NoCall]
    /\ held' = [held EXCEPT ![p] = {}]
    /\ UNCHANGED <<files, inodes>>

LockStep(p) ==
    \/ \E site \in Sites : Lock(p, site)
    \/ CreateLockFile(p)
    \/ OpenLockFile(p)
    \/ Flock(p)
    \/ WouldBlock(p)
    \/ \E lk \in held[p] : Release(p, lk)
    \/ Die(p)

Next == \E p \in Procs : LockStep(p)

Spec == Init /\ [][Next]_vars

-----------------------------------------------------------------------------
\* Two granted locks never cover a common level: neither two processes in
\* one level, nor a full lock beside a lock of any level below it, however
\* the steps of the calls interleave (container.go:305, 364-376).
LockExclusion ==
    \A p, q \in Procs : \A a \in held[p], b \in held[q] :
        (p # q \/ a # b) => Covers(a.level) \cap Covers(b.level) = {}

\* A process blocked in a waiting flock, and those that hold what it waits
\* for, half-taken full locks included.
Waiting(p) == /\ call[p].pc = "flock"
              /\ call[p].wait
              /\ Flocked(call[p].fd)
Blocks(q, p) == call[p].fd \in Fds(q)

\* No group of processes waits for itself: the callers' order of levels and
\* their choice to wait or not leaves someone able to go on.
NoCircularWait ==
    \A S \in (SUBSET Procs) \ {{}} :
        ~\A p \in S : Waiting(p) /\ \E q \in S : Blocks(q, p)

\* The levels granted to a process, and the promise they keep: the calls,
\* taken step by step, look as if each were granted at once or not at all.
Granted == [p \in Procs |-> UNION {Covers(lk.level) : lk \in held[p]}]
Promise == INSTANCE LockPromise WITH granted <- Granted
PromiseKept == Promise!Spec
=============================================================================
