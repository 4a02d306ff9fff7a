------------------------ MODULE ContainerLocksProofs ------------------------
(***************************************************************************)
(* Proofs about ContainerLocks, for any set of processes and any set of    *)
(* call sites: types, mutual exclusion of granted locks, that the          *)
(* step-by-step calls implement the promise of LockPromise, and that       *)
(* nobody waits in a circle; and about LockAndDelete, for the same and any *)
(* contents of the directory, that a delete refuses what runs.             *)
(***************************************************************************)
EXTENDS LockAndDelete, TLAPS

\* Distinct levels name distinct inodes, and the directory exists.
FilesInv ==
    /\ files[FullContainerLock] # 0
    /\ \A l \in Levels : files[l] <= inodes
    /\ \A l, m \in Levels : files[l] # 0 /\ l # m => files[l] # files[m]

\* The levels a call in progress has behind it.
Behind(c) == IF c.level # FullContainerLock \/ c.at = FullContainerLock
             THEN {}
             ELSE {l \in Levels : l = FullContainerLock \/ l < c.at}

\* fds are the inodes that the levels in S name in the directory f.
Names(f, fds, S) == /\ \A l \in S : f[l] # 0 /\ f[l] \in fds
                    /\ \A i \in fds : \E l \in S : i = f[l]

\* A call in progress has locked the files of the levels behind it, and the
\* descriptor it is about to lock is the file of its current level.
CallInv ==
    \A p \in Procs :
        /\ call[p].pc = "idle" => call[p].got = {}
        /\ call[p].pc # "idle" =>
              /\ call[p].level # FullContainerLock => call[p].at = call[p].level
              /\ Names(files, call[p].got, Behind(call[p]))
        /\ call[p].pc = "create" => call[p].at # FullContainerLock
        /\ call[p].pc = "flock" => /\ files[call[p].at] # 0
                                   /\ call[p].fd = files[call[p].at]

HeldInv ==
    \A p \in Procs : \A lk \in held[p] : Names(files, lk.fds, Covers(lk.level))

\* No inode is locked twice.
Exclusive ==
    /\ \A p, q \in Procs : \A a \in held[p], b \in held[q] :
          (p # q \/ a # b) => a.fds \cap b.fds = {}
    /\ \A p, q \in Procs : \A a \in held[p] : a.fds \cap call[q].got = {}
    /\ \A p, q \in Procs : p # q => call[p].got \cap call[q].got = {}

IInv == TypeOK /\ FilesInv /\ CallInv /\ HeldInv /\ Exclusive

-----------------------------------------------------------------------------
\* Granted locks that share no inode share no level.
LEMMA NoCommonLevel ==
    ASSUME NEW S, NEW T, NEW fds, NEW gds,
           Names(files, fds, S), Names(files, gds, T), fds \cap gds = {}
    PROVE  S \cap T = {}
  BY DEF Names

\* A new file on a level that had none leaves what was named unchanged.
LEMMA NamesKept ==
    ASSUME NEW S \in SUBSET Levels, NEW fds, Names(files, fds, S),
           \A l \in Levels : files[l] # 0 => files'[l] = files[l]
    PROVE  Names(files', fds, S)
  BY DEF Names

LEMMA CoversType ==
    \A l \in Levels : Covers(l) \in SUBSET Levels /\ Covers(l) # {}
  BY DEF Covers, Levels, FullContainerLock

\* The initial state satisfies the invariant.
LEMMA InitIInv == Init => IInv
  <1> SUFFICES ASSUME Init PROVE IInv
    OBVIOUS
  <1> USE DEF Init, NoCall, Levels, FullContainerLock
  <1>1. TypeOK
    BY DEF TypeOK, Roles
  <1>2. FilesInv
    BY DEF FilesInv
  <1>3. CallInv
    BY DEF CallInv
  <1>4. HeldInv /\ Exclusive
    BY DEF HeldInv, Exclusive
  <1> QED
    BY <1>1, <1>2, <1>3, <1>4 DEF IInv

-----------------------------------------------------------------------------
(***************************************************************************)
(* One lemma per kind of step.                                             *)
(***************************************************************************)
\* What every step that changes no file and touches only the call of p and
\* its role has to show: the new call of p is good and locks nothing more.
LEMMA CallStep ==
    ASSUME IInv, NEW p \in Procs, NEW c,
           c \in [pc : {"idle", "create", "open", "flock"},
                  level : Levels, wait : BOOLEAN, keep : BOOLEAN,
                  at : Levels, fd : Nat, got : SUBSET Nat],
           c.got \subseteq call[p].got,
           call' = [call EXCEPT ![p] = c],
           c.pc = "idle" => c.got = {},
           c.pc # "idle" =>
              /\ c.level # FullContainerLock => c.at = c.level
              /\ Names(files, c.got, Behind(c)),
           c.pc = "create" => c.at # FullContainerLock,
           c.pc = "flock" => files[c.at] # 0 /\ c.fd = files[c.at],
           role' \in [Procs -> Roles \cup {"none"}],
           UNCHANGED <<files, inodes, held>>
    PROVE  IInv'
  <1>1. TypeOK'
    BY DEF IInv, TypeOK
  <1>2. FilesInv'
    BY DEF IInv, FilesInv
  <1>3. CallInv'
    <2> SUFFICES ASSUME NEW q \in Procs
                 PROVE  /\ call'[q].pc = "idle" => call'[q].got = {}
                        /\ call'[q].pc # "idle" =>
                              /\ call'[q].level # FullContainerLock
                                    => call'[q].at = call'[q].level
                              /\ Names(files, call'[q].got, Behind(call'[q]))
                        /\ call'[q].pc = "create"
                              => call'[q].at # FullContainerLock
                        /\ call'[q].pc = "flock"
                              => /\ files[call'[q].at] # 0
                                 /\ call'[q].fd = files[call'[q].at]
      BY DEF CallInv, Names, Behind
    <2>1. CASE q = p
      BY <2>1 DEF IInv, TypeOK
    <2>2. CASE q # p
      <3>1. call'[q] = call[q]
        BY <2>2 DEF IInv, TypeOK
      <3> QED
        BY <3>1 DEF IInv, CallInv
    <2> QED
      BY <2>1, <2>2
  <1>4. HeldInv'
    BY DEF IInv, HeldInv, Names
  <1>5. Exclusive'
    <2>1. \A q \in Procs : call'[q].got \subseteq call[q].got
      BY DEF IInv, TypeOK
    <2> QED
      BY <2>1 DEF IInv, Exclusive
  <1> QED
    BY <1>1, <1>2, <1>3, <1>4, <1>5 DEF IInv
LEMMA LockIInv ==
    ASSUME IInv, NEW p \in Procs, NEW site \in Sites, Lock(p, site)
    PROVE  IInv'
  <1> DEFINE c == [pc |-> FirstPc(site.level), level |-> site.level,
                   wait |-> site.wait, keep |-> site.keep,
                   at |-> site.level, fd |-> 0, got |-> {}]
  <1>1. site.role \in Roles
    BY DEF Roles
  <1>2. /\ site.level \in Levels
        /\ site.wait \in BOOLEAN
        /\ site.keep \in BOOLEAN
    BY SitesAssumption
  <1>3. Names(files, c.got, Behind(c))
    BY DEF Names, Behind
  <1>4. c.pc \in {"create", "open"} /\ (c.pc = "create" => c.at # FullContainerLock)
    BY DEF FirstPc
  <1>5. role' \in [Procs -> Roles \cup {"none"}]
    BY <1>1 DEF Lock, IInv, TypeOK
  <1>6. call' = [call EXCEPT ![p] = c] /\ UNCHANGED <<files, inodes, held>>
    BY DEF Lock
  <1>7. c.level = site.level /\ c.at = site.level /\ c.got = {}
        /\ c.wait = site.wait /\ c.keep = site.keep /\ c.fd = 0
    OBVIOUS
  <1>8. c \in [pc : {"idle", "create", "open", "flock"},
               level : Levels, wait : BOOLEAN, keep : BOOLEAN,
               at : Levels, fd : Nat, got : SUBSET Nat]
    BY <1>2, <1>4
  <1> HIDE DEF c
  <1> QED
    BY <1>3, <1>4, <1>5, <1>6, <1>7, <1>8, CallStep

LEMMA FailIInv ==
    ASSUME IInv, NEW p \in Procs, Fail(p), UNCHANGED <<files, inodes>>
    PROVE  IInv'
  <1>1. NoCall \in [pc : {"idle", "create", "open", "flock"},
                    level : Levels, wait : BOOLEAN, keep : BOOLEAN,
                    at : Levels, fd : Nat, got : SUBSET Nat]
    BY DEF NoCall, Levels
  <1>2. NoCall.pc = "idle" /\ NoCall.got = {}
    BY DEF NoCall
  <1>3. /\ call' = [call EXCEPT ![p] = NoCall]
        /\ UNCHANGED held
        /\ role' \in [Procs -> Roles \cup {"none"}]
    BY DEF Fail, IInv, TypeOK
  <1> QED
    BY <1>1, <1>2, <1>3, CallStep

LEMMA OpenIInv ==
    ASSUME IInv, NEW p \in Procs, OpenLockFile(p)
    PROVE  IInv'
  <1>1. CASE files[call[p].at] = 0
    BY <1>1, FailIInv DEF OpenLockFile
  <1>2. CASE files[call[p].at] # 0
    <2> DEFINE c == [call[p] EXCEPT !.pc = "flock", !.fd = files[call[p].at]]
    <2>1. call[p] \in [pc : {"idle", "create", "open", "flock"},
                       level : Levels, wait : BOOLEAN, keep : BOOLEAN,
                       at : Levels, fd : Nat, got : SUBSET Nat]
      BY DEF IInv, TypeOK
    <2>2. /\ c.pc = "flock" /\ c.fd = files[call[p].at] /\ c.at = call[p].at
          /\ c.level = call[p].level /\ c.got = call[p].got
          /\ c.wait = call[p].wait /\ c.keep = call[p].keep
      BY <2>1
    <2>3. c \in [pc : {"idle", "create", "open", "flock"},
                 level : Levels, wait : BOOLEAN, keep : BOOLEAN,
                 at : Levels, fd : Nat, got : SUBSET Nat]
      BY <2>1 DEF IInv, TypeOK
    <2>4. call' = [call EXCEPT ![p] = c]
      BY <1>2 DEF OpenLockFile
    <2>5. /\ c.level # FullContainerLock => c.at = c.level
          /\ Names(files, c.got, Behind(c))
      <3>1. call[p].pc # "idle"
        BY DEF OpenLockFile
      <3> QED
        BY <2>2, <3>1 DEF IInv, CallInv, Behind
    <2>6. UNCHANGED <<files, inodes, held>>
          /\ role' \in [Procs -> Roles \cup {"none"}]
      BY <1>2 DEF OpenLockFile, IInv, TypeOK, Fail
    <2> HIDE DEF c
    <2> QED
      BY <1>2, <2>2, <2>3, <2>4, <2>5, <2>6, CallStep
  <1> QED
    BY <1>1, <1>2

LEMMA CreateIInv ==
    ASSUME IInv, NEW p \in Procs, CreateLockFile(p)
    PROVE  IInv'
  <1>1. CASE files[FullContainerLock] = 0
    BY <1>1, FailIInv DEF CreateLockFile
  <1> DEFINE c == [call[p] EXCEPT !.pc = "open"]
  <1>2. call[p] \in [pc : {"idle", "create", "open", "flock"},
                     level : Levels, wait : BOOLEAN, keep : BOOLEAN,
                     at : Levels, fd : Nat, got : SUBSET Nat]
    BY DEF IInv, TypeOK
  <1>3. /\ c \in [pc : {"idle", "create", "open", "flock"},
                   level : Levels, wait : BOOLEAN, keep : BOOLEAN,
                   at : Levels, fd : Nat, got : SUBSET Nat]
        /\ c.pc = "open" /\ c.at = call[p].at /\ c.level = call[p].level
        /\ c.got = call[p].got
    BY <1>2
  <1>4. /\ c.level # FullContainerLock => c.at = c.level
        /\ Names(files, c.got, Behind(c))
    <2>1. call[p].pc # "idle"
      BY DEF CreateLockFile
    <2> QED
      BY <1>3, <2>1 DEF IInv, CallInv, Behind
  <1>5. CASE files[FullContainerLock] # 0 /\ files[call[p].at] # 0
    <2>1. /\ call' = [call EXCEPT ![p] = c]
          /\ UNCHANGED <<files, inodes, held>>
          /\ role' \in [Procs -> Roles \cup {"none"}]
      BY <1>5 DEF CreateLockFile, IInv, TypeOK
    <2> HIDE DEF c
    <2> QED
      BY <1>3, <1>4, <2>1, CallStep
  <1>6. CASE files[FullContainerLock] # 0 /\ files[call[p].at] = 0
    <2> DEFINE a == call[p].at
    <2>1. /\ inodes' = inodes + 1
          /\ files' = [files EXCEPT ![a] = inodes + 1]
          /\ call' = [call EXCEPT ![p] = c]
          /\ UNCHANGED <<role, held>>
      BY <1>6 DEF CreateLockFile
    <2>2. a \in Levels /\ files \in [Levels -> Nat] /\ inodes \in Nat
      BY DEF IInv, TypeOK
    <2>3. \A l \in Levels : files[l] # 0 => files'[l] = files[l]
      BY <1>6, <2>1, <2>2
    <2>4. TypeOK'
      BY <1>3, <2>1, <2>2 DEF IInv, TypeOK
    <2>5. FilesInv'
      <3>1. \A l \in Levels : files'[l] = IF l = a THEN inodes + 1 ELSE files[l]
        BY <2>1, <2>2
      <3>2. \A l \in Levels : files[l] \in Nat /\ files[l] <= inodes
        BY <2>2 DEF IInv, FilesInv
      <3>3. files'[FullContainerLock] # 0
        BY <1>6, <2>2, <3>1 DEF Levels, FullContainerLock
      <3>4. \A l \in Levels : files'[l] <= inodes'
        BY <2>1, <2>2, <3>1, <3>2
      <3>5. \A l, m \in Levels : files'[l] # 0 /\ l # m => files'[l] # files'[m]
        BY <2>2, <3>1, <3>2 DEF IInv, FilesInv
      <3> QED
        BY <3>3, <3>4, <3>5 DEF FilesInv
    <2>6. CallInv'
      <3> SUFFICES ASSUME NEW q \in Procs
                   PROVE  /\ call'[q].pc = "idle" => call'[q].got = {}
                          /\ call'[q].pc # "idle" =>
                                /\ call'[q].level # FullContainerLock
                                      => call'[q].at = call'[q].level
                                /\ Names(files', call'[q].got, Behind(call'[q]))
                          /\ call'[q].pc = "create"
                                => call'[q].at # FullContainerLock
                          /\ call'[q].pc = "flock"
                                => /\ files'[call'[q].at] # 0
                                   /\ call'[q].fd = files'[call'[q].at]
        BY DEF CallInv, Names, Behind
      <3>1. \A d : Behind(d) \in SUBSET Levels
        BY DEF Behind
      <3>2. CASE q = p
        <4>1. call'[q] = c
          BY <2>1, <3>2 DEF IInv, TypeOK
        <4>2. Names(files', c.got, Behind(c))
          BY <1>4, <2>3, <3>1 DEF Names, Behind
        <4> QED
          BY <1>3, <1>4, <4>1, <4>2 DEF Names, Behind
      <3>3. CASE q # p
        <4>1. call'[q] = call[q]
          BY <2>1, <3>3 DEF IInv, TypeOK
        <4>2. call[q].pc # "idle" => Names(files, call[q].got, Behind(call[q]))
          BY DEF IInv, CallInv
        <4>3. call[q].pc # "idle" => Names(files', call'[q].got, Behind(call'[q]))
          BY <2>3, <3>1, <4>1, <4>2 DEF Names, Behind
        <4>4. call[q].at \in Levels
          BY DEF IInv, TypeOK
        <4> QED
          BY <2>3, <4>1, <4>3, <4>4 DEF IInv, CallInv
      <3> QED
        BY <3>2, <3>3
    <2>7. HeldInv'
      <3> SUFFICES ASSUME NEW q \in Procs, NEW lk \in held[q]
                   PROVE  Names(files', lk.fds, Covers(lk.level))
        BY <2>1 DEF HeldInv
      <3>1. lk.level \in Levels
        BY DEF IInv, TypeOK
      <3>2. Covers(lk.level) \in SUBSET Levels
        BY <3>1, CoversType
      <3>3. Names(files, lk.fds, Covers(lk.level))
        BY DEF IInv, HeldInv
      <3> QED
        BY <2>3, <3>2, <3>3 DEF Names, Covers
    <2>8. Exclusive'
      <3>1. \A q \in Procs : call'[q].got = call[q].got
        BY <1>3, <2>1 DEF IInv, TypeOK
      <3> QED
        BY <2>1, <3>1 DEF IInv, Exclusive
    <2> QED
      BY <2>4, <2>5, <2>6, <2>7, <2>8 DEF IInv
  <1> QED
    BY <1>1, <1>5, <1>6
CallType == [pc : {"idle", "create", "open", "flock"},
             level : Levels, wait : BOOLEAN, keep : BOOLEAN,
             at : Levels, fd : Nat, got : SUBSET Nat]

\* What a successful flock adds is locked by nobody else, and completes the
\* names of the levels behind the call with the one it was at.
LEMMA FlockNames ==
    ASSUME IInv, NEW p \in Procs, call[p].pc = "flock"
    PROVE  /\ LastLevel(call[p]) =>
                Names(files, call[p].got \cup {call[p].fd}, Covers(call[p].level))
           /\ ~LastLevel(call[p]) =>
                /\ NextLevel(call[p].at) \in Levels \ {FullContainerLock}
                /\ call[p].level = FullContainerLock
                /\ Names(files, call[p].got \cup {call[p].fd},
                         {l \in Levels : l = FullContainerLock
                                         \/ l < NextLevel(call[p].at)})
  <1> DEFINE c == call[p]
  <1>1. c \in CallType
    BY DEF IInv, TypeOK, CallType
  <1>2. /\ c.level # FullContainerLock => c.at = c.level
        /\ Names(files, c.got, Behind(c))
        /\ files[c.at] # 0
        /\ c.fd = files[c.at]
    BY DEF IInv, CallInv
  <1>3. Names(files, c.got \cup {c.fd}, Behind(c) \cup {c.at})
    BY <1>2 DEF Names
  <1>4. LastLevel(c) => Behind(c) \cup {c.at} = Covers(c.level)
    BY <1>1, <1>2 DEF LastLevel, Behind, Covers, CallType, Levels,
                      FullContainerLock, ConfigLock
  <1>5. ~LastLevel(c) =>
           /\ c.level = FullContainerLock
           /\ NextLevel(c.at) \in Levels \ {FullContainerLock}
           /\ Behind(c) \cup {c.at} =
                 {l \in Levels : l = FullContainerLock \/ l < NextLevel(c.at)}
    BY <1>1 DEF LastLevel, NextLevel, Behind, CallType, Levels,
                FullContainerLock, ConfigLock, RunLock
  <1> QED
    BY <1>3, <1>4, <1>5

LEMMA NotFlocked ==
    ASSUME NEW ino, ~Flocked(ino)
    PROVE  \A q \in Procs : /\ ino \notin call[q].got
                            /\ \A lk \in held[q] : ino \notin lk.fds
  BY DEF Flocked, Fds

LEMMA FlockIInv ==
    ASSUME IInv, NEW p \in Procs, Flock(p)
    PROVE  IInv'
  <1> DEFINE c == call[p]
             got == c.got \cup {c.fd}
             new == [level |-> c.level, keep |-> c.keep, fds |-> got]
             next == [c EXCEPT !.pc = "create", !.at = NextLevel(c.at), !.got = got]
  <1>1. c \in CallType /\ c.pc = "flock" /\ ~Flocked(c.fd)
    BY DEF IInv, TypeOK, CallType, Flock
  <1>2. got \in SUBSET Nat
    BY <1>1 DEF CallType
  <1>3. UNCHANGED <<files, inodes, role>>
    BY DEF Flock
  <1>4. FilesInv'
    BY <1>3 DEF IInv, FilesInv
  <1>5. \A q \in Procs : /\ c.fd \notin call[q].got
                        /\ \A lk \in held[q] : c.fd \notin lk.fds
    BY <1>1, NotFlocked
  <1>6. /\ \A q \in Procs : \A lk \in held[q] : lk.fds \cap got = {}
        /\ \A q \in Procs : q # p => call[q].got \cap got = {}
    BY <1>5 DEF IInv, Exclusive
  <1>7. CASE LastLevel(c)
    <2>1. /\ call' = [call EXCEPT ![p] = NoCall]
          /\ held' = [held EXCEPT ![p] = @ \cup {new}]
      BY <1>7 DEF Flock
    <2>2. new \in [level : Levels, keep : BOOLEAN, fds : SUBSET Nat]
      BY <1>1, <1>2 DEF CallType
    <2>3. NoCall \in CallType /\ NoCall.pc = "idle" /\ NoCall.got = {}
      BY DEF NoCall, CallType, Levels
    <2>4. TypeOK'
      BY <1>3, <2>1, <2>2, <2>3 DEF IInv, TypeOK, CallType
    <2>5. CallInv'
      BY <1>3, <2>1, <2>3 DEF IInv, CallInv, TypeOK, Behind, Names
    <2>6. new.fds = got /\ new.level = c.level
      OBVIOUS
    <2>7. Names(files, new.fds, Covers(new.level))
      BY <1>1, <1>7, <2>6, FlockNames
    <2> HIDE DEF new, got, c
    <2>8. \A q \in Procs : held'[q] = IF q = p THEN held[q] \cup {new} ELSE held[q]
      BY <2>1 DEF IInv, TypeOK
    <2>in. ASSUME NEW q \in Procs, NEW lk \in held'[q]
           PROVE  lk \in held[q] \/ (q = p /\ lk = new)
      BY <2>8
    <2>9. HeldInv'
      <3> SUFFICES ASSUME NEW q \in Procs, NEW lk \in held'[q]
                   PROVE  Names(files, lk.fds, Covers(lk.level))
        BY <1>3 DEF HeldInv, Names
      <3> QED
        BY <2>in, <2>7 DEF IInv, HeldInv
    <2>10. Exclusive'
      <3>1. \A q \in Procs : call'[q].got = IF q = p THEN {} ELSE call[q].got
        BY <2>1, <2>3 DEF IInv, TypeOK
      <3>2. ASSUME NEW q \in Procs, NEW r \in Procs,
                   NEW a \in held'[q], NEW b \in held'[r], q # r \/ a # b
            PROVE  a.fds \cap b.fds = {}
        <4>1. CASE a \in held[q] /\ b \in held[r]
          BY <3>2, <4>1 DEF IInv, Exclusive
        <4>2. CASE a = new /\ b \in held[r]
          BY <1>6, <2>6, <4>2
        <4>3. CASE a \in held[q] /\ b = new
          BY <1>6, <2>6, <4>3
        <4> QED
          BY <2>in, <3>2, <4>1, <4>2, <4>3
      <3>3. ASSUME NEW q \in Procs, NEW r \in Procs, NEW a \in held'[q]
            PROVE  a.fds \cap call'[r].got = {}
        <4>1. CASE a \in held[q]
          BY <3>1, <4>1 DEF IInv, Exclusive
        <4>2. CASE a = new
          BY <1>6, <2>6, <3>1, <4>2
        <4> QED
          BY <2>in, <4>1, <4>2
      <3> QED
        BY <3>1, <3>2, <3>3 DEF IInv, Exclusive
    <2> QED
      BY <1>4, <2>4, <2>5, <2>9, <2>10 DEF IInv
  <1>8. CASE ~LastLevel(c)
    <2>1. /\ call' = [call EXCEPT ![p] = next]
          /\ UNCHANGED held
      BY <1>8 DEF Flock
    <2>2. /\ NextLevel(c.at) \in Levels \ {FullContainerLock}
          /\ c.level = FullContainerLock
          /\ Names(files, got, {l \in Levels : l = FullContainerLock
                                              \/ l < NextLevel(c.at)})
      BY <1>1, <1>8, FlockNames
    <2>3. /\ next \in CallType /\ next.pc = "create" /\ next.got = got
          /\ next.at = NextLevel(c.at) /\ next.level = c.level
      BY <1>1, <1>2, <2>2 DEF CallType
    <2> HIDE DEF next, got, c
    <2>4. TypeOK'
      BY <1>3, <2>1, <2>3 DEF IInv, TypeOK, CallType
    <2>5. \A q \in Procs : call'[q] = IF q = p THEN next ELSE call[q]
      BY <2>1 DEF IInv, TypeOK
    <2>6. CallInv'
      <3>1. Behind(next) = {l \in Levels : l = FullContainerLock
                                           \/ l < NextLevel(c.at)}
        BY <2>2, <2>3 DEF Behind
      <3>2. Names(files, next.got, Behind(next))
        BY <2>2, <2>3, <3>1
      <3>3. ASSUME NEW q \in Procs
            PROVE  /\ call'[q].pc = "idle" => call'[q].got = {}
                   /\ call'[q].pc # "idle" =>
                         /\ call'[q].level # FullContainerLock
                               => call'[q].at = call'[q].level
                         /\ Names(files', call'[q].got, Behind(call'[q]))
                   /\ call'[q].pc = "create"
                         => call'[q].at # FullContainerLock
                   /\ call'[q].pc = "flock"
                         => /\ files'[call'[q].at] # 0
                            /\ call'[q].fd = files'[call'[q].at]
        BY <1>3, <2>2, <2>3, <2>5, <3>2 DEF IInv, CallInv
      <3> QED
        BY <3>3 DEF CallInv, Names, Behind
    <2>7. HeldInv'
      BY <1>3, <2>1 DEF IInv, HeldInv, Names
    <2>8. Exclusive'
      BY <1>6, <2>1, <2>3, <2>5 DEF IInv, Exclusive
    <2> QED
      BY <1>4, <2>4, <2>6, <2>7, <2>8 DEF IInv
  <1> QED
    BY <1>7, <1>8

LEMMA ReleaseIInv ==
    ASSUME IInv, NEW p \in Procs, NEW lk \in held[p], Release(p, lk)
    PROVE  IInv'
  <1>1. /\ held' = [held EXCEPT ![p] = @ \ {lk}]
        /\ UNCHANGED <<files, inodes, role, call>>
    BY DEF Release
  <1>2. \A q \in Procs : held'[q] \subseteq held[q]
    BY <1>1 DEF IInv, TypeOK
  <1>3. TypeOK' /\ FilesInv' /\ CallInv'
    BY <1>1 DEF IInv, TypeOK, FilesInv, CallInv, Names, Behind
  <1>4. HeldInv' /\ Exclusive'
    BY <1>1, <1>2 DEF IInv, HeldInv, Exclusive, Names
  <1> QED
    BY <1>3, <1>4 DEF IInv

LEMMA DieIInv ==
    ASSUME IInv, NEW p \in Procs, Die(p)
    PROVE  IInv'
  <1>1. /\ held' = [held EXCEPT ![p] = {}]
        /\ call' = [call EXCEPT ![p] = NoCall]
        /\ role' = [role EXCEPT ![p] = "none"]
        /\ UNCHANGED <<files, inodes>>
    BY DEF Die
  <1>2. NoCall \in CallType /\ NoCall.pc = "idle" /\ NoCall.got = {}
    BY DEF NoCall, CallType, Levels
  <1>3. /\ \A q \in Procs : held'[q] \subseteq held[q]
        /\ \A q \in Procs : call'[q].got \subseteq call[q].got
    BY <1>1, <1>2 DEF IInv, TypeOK
  <1>4. TypeOK' /\ FilesInv'
    BY <1>1, <1>2 DEF IInv, TypeOK, FilesInv, CallType
  <1>5. CallInv'
    <2>1. \A q \in Procs : call'[q] = call[q] \/ call'[q] = NoCall
      BY <1>1 DEF IInv, TypeOK
    <2> QED
      BY <1>1, <1>2, <2>1 DEF IInv, CallInv, Names, Behind
  <1>6. HeldInv' /\ Exclusive'
    BY <1>1, <1>3 DEF IInv, HeldInv, Exclusive, Names
  <1> QED
    BY <1>4, <1>5, <1>6 DEF IInv

LEMMA NextIInv == IInv /\ [Next]_vars => IInv'
  <1> SUFFICES ASSUME IInv, [Next]_vars PROVE IInv'
    OBVIOUS
  <1>1. CASE UNCHANGED vars
    BY <1>1 DEF vars, IInv, TypeOK, FilesInv, CallInv, HeldInv, Exclusive,
                Names, Behind
  <1>2. ASSUME NEW p \in Procs, LockStep(p) PROVE IInv'
    <2>1. CASE \E site \in Sites : Lock(p, site)
      BY <2>1, LockIInv
    <2>2. CASE CreateLockFile(p)
      BY <2>2, CreateIInv
    <2>3. CASE OpenLockFile(p)
      BY <2>3, OpenIInv
    <2>4. CASE Flock(p)
      BY <2>4, FlockIInv
    <2>5. CASE WouldBlock(p)
      BY <2>5, FailIInv DEF WouldBlock
    <2>6. CASE \E lk \in held[p] : Release(p, lk)
      BY <2>6, ReleaseIInv
    <2>7. CASE Die(p)
      BY <2>7, DieIInv
    <2> QED
      BY <1>2, <2>1, <2>2, <2>3, <2>4, <2>5, <2>6, <2>7 DEF LockStep
  <1> QED
    BY <1>1, <1>2 DEF Next

THEOREM Invariance == Spec => []IInv
  BY InitIInv, NextIInv, PTL DEF Spec

-----------------------------------------------------------------------------
\* Every reachable state has the declared types.
THEOREM Typing == Spec => []TypeOK
  BY Invariance, PTL DEF IInv

LEMMA IInvExclusion == IInv => LockExclusion
  <1> SUFFICES ASSUME IInv, NEW p \in Procs, NEW q \in Procs,
                      NEW a \in held[p], NEW b \in held[q], p # q \/ a # b
               PROVE  Covers(a.level) \cap Covers(b.level) = {}
    BY DEF LockExclusion
  <1> QED
    BY NoCommonLevel DEF IInv, HeldInv, Exclusive

\* However the steps of concurrent Lock calls interleave, and whoever dies
\* in the middle of one, two granted locks never share a level.
THEOREM MutualExclusion == Spec => []LockExclusion
  BY Invariance, IInvExclusion, PTL

-----------------------------------------------------------------------------
(***************************************************************************)
(* Refinement: every step of the calls is a step of LockPromise, a grant   *)
(* being the last flock of a call.                                         *)
(***************************************************************************)
LEMMA InitPromise == Init => Promise!Init
  BY DEF Init, Promise!Init, Granted

LEMMA GrantedKept == UNCHANGED held => UNCHANGED Granted
  BY DEF Granted

LEMMA GrantedValue ==
    \A p \in Procs : Granted[p] = UNION {Covers(lk.level) : lk \in held[p]}
  BY DEF Granted

\* The last flock of a call grants its level, or all levels for a full lock.
LEMMA FlockGrants ==
    ASSUME IInv, NEW p \in Procs, Flock(p)
    PROVE  UNCHANGED Granted \/ \E S \in Promise!Grants : Promise!Grant(p, S)
  <1> DEFINE c == call[p]
             new == [level |-> c.level, keep |-> c.keep,
                     fds |-> c.got \cup {c.fd}]
             S == Covers(c.level)
  <1>1. CASE ~LastLevel(c)
    BY <1>1, GrantedKept DEF Flock
  <1>2. CASE LastLevel(c)
    <2>1. held' = [held EXCEPT ![p] = @ \cup {new}]
      BY <1>2 DEF Flock
    <2>2. \A q \in Procs : held'[q] = IF q = p THEN held[q] \cup {new} ELSE held[q]
      BY <2>1 DEF IInv, TypeOK
    <2>3. c.level \in Levels
      BY DEF IInv, TypeOK
    <2>4. S \in Promise!Grants /\ S # {}
      BY <2>3 DEF Promise!Grants, Covers, Levels, FullContainerLock
    <2>5. new.level = c.level /\ new \in held'[p]
      BY <2>2
    <2>6. Granted' = [Granted EXCEPT ![p] = @ \cup S]
      <3> HIDE DEF new, c
      <3>1. ASSUME NEW q \in Procs
            PROVE  UNION {Covers(lk.level) : lk \in held'[q]}
                     = IF q = p THEN Granted[q] \cup Covers(new.level)
                                ELSE Granted[q]
        <4>1. CASE q = p
          BY <2>2, <4>1, GrantedValue
        <4>2. CASE q # p
          BY <2>2, <4>2, GrantedValue
        <4> QED
          BY <4>1, <4>2
      <3> QED
        BY <2>5, <3>1 DEF Granted
    <2>7. ASSUME NEW q \in Procs PROVE Granted[q] \cap S = {}
      \* What q holds is on other inodes than the one just locked.
      <3> SUFFICES ASSUME NEW lk \in held[q] PROVE Covers(lk.level) \cap S = {}
        BY GrantedValue
      <3>1. IInv'
        BY FlockIInv
      <3>2. LockExclusion'
        BY <3>1, IInvExclusion, PTL
      <3>3. lk \in held'[q]
        BY <2>2
      <3>4. q # p \/ lk # new
        <4>1. call[p].fd \notin lk.fds
          BY NotFlocked DEF Flock
        <4>2. call[p].fd \in new.fds
          OBVIOUS
        <4> QED
          BY <4>1, <4>2
      <3> HIDE DEF new, c
      <3> QED
        BY <2>5, <3>2, <3>3, <3>4 DEF LockExclusion
    <2> QED
      BY <2>4, <2>6, <2>7 DEF Promise!Grant
  <1> QED
    BY <1>1, <1>2

\* A release yields the levels of its lock, and no other lock covers them.
LEMMA ReleaseYields ==
    ASSUME IInv, NEW p \in Procs, NEW lk \in held[p], Release(p, lk)
    PROVE  \E S \in SUBSET Levels : Promise!Yield(p, S)
  <1> DEFINE S == Covers(lk.level)
  <1>1. lk.level \in Levels
    BY DEF IInv, TypeOK
  <1>2. S \in SUBSET Levels /\ S \subseteq Granted[p]
    BY <1>1, CoversType, GrantedValue
  <1>3. \A q \in Procs : held'[q] = IF q = p THEN held[q] \ {lk} ELSE held[q]
    BY DEF Release, IInv, TypeOK
  <1>4. \A other \in held[p] : other # lk => Covers(other.level) \cap S = {}
    BY IInvExclusion DEF LockExclusion
  <1>5. Granted' = [Granted EXCEPT ![p] = @ \ S]
    <2>1. ASSUME NEW q \in Procs
          PROVE  UNION {Covers(o.level) : o \in held'[q]}
                   = IF q = p THEN Granted[q] \ S ELSE Granted[q]
      <3>1. CASE q = p
        <4>1. Granted[q] = UNION {Covers(o.level) : o \in held[q]}
          BY GrantedValue
        <4>2. ASSUME NEW l
              PROVE  (\E o \in held[q] \ {lk} : l \in Covers(o.level))
                       <=> (\E o \in held[q] : l \in Covers(o.level)) /\ l \notin S
          BY <1>4, <3>1
        <4>3. held'[q] = held[q] \ {lk}
          BY <1>3, <3>1
        <4> HIDE DEF S
        <4>4. ASSUME NEW l
              PROVE  l \in UNION {Covers(o.level) : o \in held'[q]}
                       <=> l \in Granted[q] /\ l \notin S
          BY <4>1, <4>2, <4>3
        <4> QED
          BY <3>1, <4>4
      <3>2. CASE q # p
        BY <1>3, <3>2, GrantedValue
      <3> QED
        BY <3>1, <3>2
    <2> QED
      BY <2>1 DEF Granted
  <1> QED
    BY <1>2, <1>5 DEF Promise!Yield

\* A death yields all that was granted.
LEMMA DieYields ==
    ASSUME IInv, NEW p \in Procs, Die(p)
    PROVE  \E S \in SUBSET Levels : Promise!Yield(p, S)
  <1>1. \A q \in Procs : held'[q] = IF q = p THEN {} ELSE held[q]
    BY DEF Die, IInv, TypeOK
  <1>2. Granted[p] \in SUBSET Levels
    BY GrantedValue, CoversType DEF IInv, TypeOK
  <1>3. Granted' = [Granted EXCEPT ![p] = @ \ Granted[p]]
    <2>1. ASSUME NEW q \in Procs
          PROVE  UNION {Covers(o.level) : o \in held'[q]}
                   = IF q = p THEN Granted[q] \ Granted[p] ELSE Granted[q]
      <3>1. CASE q = p
        BY <1>1, <3>1
      <3>2. CASE q # p
        BY <1>1, <3>2, GrantedValue
      <3> QED
        BY <3>1, <3>2
    <2> QED
      BY <2>1 DEF Granted
  <1> QED
    BY <1>2, <1>3 DEF Promise!Yield

LEMMA StepPromise == IInv /\ [Next]_vars => [Promise!Next]_Granted
  <1> SUFFICES ASSUME IInv, [Next]_vars
               PROVE  Promise!Next \/ UNCHANGED Granted
    OBVIOUS
  <1>1. CASE UNCHANGED vars
    BY <1>1, GrantedKept DEF vars
  <1>2. ASSUME NEW p \in Procs, LockStep(p)
        PROVE  Promise!Next \/ UNCHANGED Granted
    <2>1. CASE \E site \in Sites : Lock(p, site)
      BY <2>1, GrantedKept DEF Lock
    <2>2. CASE CreateLockFile(p) \/ OpenLockFile(p) \/ WouldBlock(p)
      BY <2>2, GrantedKept DEF CreateLockFile, OpenLockFile, WouldBlock, Fail
    <2>3. CASE Flock(p)
      BY <2>3, FlockGrants DEF Promise!Next
    <2>4. CASE \E lk \in held[p] : Release(p, lk)
      BY <2>4, ReleaseYields DEF Promise!Next
    <2>5. CASE Die(p)
      BY <2>5, DieYields DEF Promise!Next
    <2> QED
      BY <1>2, <2>1, <2>2, <2>3, <2>4, <2>5 DEF LockStep
  <1> QED
    BY <1>1, <1>2 DEF Next

\* Taken step by step by any number of processes, with deaths at any point,
\* the calls of Lock and Release look like the atomic grants and yields of
\* LockPromise.
THEOREM Refinement == Spec => PromiseKept
  BY Invariance, InitPromise, StepPromise, PTL
     DEF Spec, PromiseKept, Promise!Spec

-----------------------------------------------------------------------------
(***************************************************************************)
(* Waiting.  The one caller that waits (kill, for the run lock) holds      *)
(* nothing while it does, so no one can be waiting for it.                 *)
(***************************************************************************)
WaitersHoldNothing ==
    \A c \in Sites : c.wait => c.holds = {} /\ c.level # FullContainerLock

WaitInv ==
    \A p \in Procs : call[p].pc # "idle" /\ call[p].wait
        => held[p] = {} /\ call[p].level # FullContainerLock

LEMMA WaitInvStep ==
    ASSUME WaitersHoldNothing, IInv, WaitInv, [Next]_vars
    PROVE  WaitInv'
  <1>1. CASE UNCHANGED vars
    BY <1>1 DEF vars, WaitInv
  <1>2. ASSUME NEW p \in Procs, LockStep(p) PROVE WaitInv'
    <2> USE DEF WaitInv
    <2>f. ASSUME Fail(p) PROVE WaitInv'
      BY <2>f DEF Fail, NoCall, IInv, TypeOK
    <2>1. ASSUME NEW site \in Sites, Lock(p, site) PROVE WaitInv'
      <3>1. site.wait => held[p] = {} /\ site.level # FullContainerLock
        <4>1. site.wait => HeldLevels(p) = {}
          BY <2>1 DEF Lock, WaitersHoldNothing
        <4> QED
          BY <4>1 DEF HeldLevels, WaitersHoldNothing
      <3>2. /\ \A q \in Procs : q # p => call'[q] = call[q]
            /\ call'[p].wait = site.wait
            /\ call'[p].level = site.level
            /\ UNCHANGED held
        BY <2>1 DEF Lock, IInv, TypeOK
      <3> QED
        BY <3>1, <3>2
    <2>2. CASE CreateLockFile(p)
      BY <2>2, <2>f DEF CreateLockFile, IInv, TypeOK
    <2>3. CASE OpenLockFile(p)
      BY <2>3, <2>f DEF OpenLockFile, IInv, TypeOK
    <2>4. CASE Flock(p)
      <3>1. CASE LastLevel(call[p])
        <4>1. call' = [call EXCEPT ![p] = NoCall]
          BY <2>4, <3>1 DEF Flock
        <4>2. \A q \in Procs : q # p => held'[q] = held[q]
          BY <2>4, <3>1 DEF Flock, IInv, TypeOK
        <4> QED
          BY <4>1, <4>2 DEF NoCall, IInv, TypeOK
      <3>2. CASE ~LastLevel(call[p])
        <4>1. UNCHANGED held
          BY <2>4, <3>2 DEF Flock
        <4>2. call[p].pc = "flock"
          BY <2>4 DEF Flock
        <4>3. /\ call'[p].wait = call[p].wait /\ call'[p].level = call[p].level
              /\ \A q \in Procs : q # p => call'[q] = call[q]
          BY <2>4, <3>2 DEF Flock, IInv, TypeOK
        <4> QED
          BY <4>1, <4>2, <4>3
      <3> QED
        BY <3>1, <3>2
    <2>5. CASE WouldBlock(p)
      BY <2>5, <2>f DEF WouldBlock
    <2>6. CASE \E lk \in held[p] : Release(p, lk)
      BY <2>6 DEF Release, IInv, TypeOK
    <2>7. CASE Die(p)
      BY <2>7 DEF Die, NoCall, IInv, TypeOK
    <2> QED
      BY <1>2, <2>1, <2>2, <2>3, <2>4, <2>5, <2>6, <2>7 DEF LockStep
  <1> QED
    BY <1>1, <1>2 DEF Next

LEMMA WaitInvSafe == IInv /\ WaitInv => NoCircularWait
  <1> SUFFICES ASSUME IInv, WaitInv, NEW S \in SUBSET Procs, S # {},
                      \A p \in S : Waiting(p) /\ \E q \in S : Blocks(q, p)
               PROVE  FALSE
    BY DEF NoCircularWait
  <1>1. PICK p \in S : Waiting(p) /\ \E q \in S : Blocks(q, p)
    OBVIOUS
  <1>2. PICK q \in S : Blocks(q, p)
    BY <1>1
  <1>3. call[q].pc = "flock" /\ call[q].wait
    BY DEF Waiting
  <1>4. held[q] = {} /\ call[q].level # FullContainerLock
    BY <1>3 DEF WaitInv
  <1>5. call[q].got = {}
    BY <1>3, <1>4 DEF IInv, CallInv, Names, Behind
  <1>6. Fds(q) = {}
    BY <1>4, <1>5 DEF Fds
  <1> QED
    BY <1>2, <1>6 DEF Blocks

\* Whatever the levels and the order they are asked for, no group of
\* processes waits for itself, as long as a caller that waits holds nothing
\* and asks for one level, as kill does (kill.go:99).
THEOREM NoDeadlock ==
    ASSUME WaitersHoldNothing
    PROVE  Spec => []NoCircularWait
  <1>1. Init => WaitInv
    BY DEF Init, NoCall, WaitInv
  <1>2. IInv /\ WaitInv /\ [Next]_vars => WaitInv'
    BY WaitInvStep
  <1> QED
    BY <1>1, <1>2, Invariance, WaitInvSafe, PTL DEF Spec
-----------------------------------------------------------------------------
(***************************************************************************)
(* LockAndDelete: lock files go away under the locks that were made of     *)
(* them, so IInv does not hold there.  What is left is what a full lock is *)
(* worth: whoever has locked the directory is alone in it, so the files    *)
(* that the call then locks stay where they are.                           *)
(***************************************************************************)
\* The inode of the directory, which is made once.
Directory == 1

Calls == [pc : {"idle", "create", "open", "flock"}, level : Levels, wait : BOOLEAN,
          keep : BOOLEAN, at : Levels, fd : Nat, got : SUBSET Nat]
Grants == [level : Levels, keep : BOOLEAN, fds : SUBSET Nat]
Removals == [on : BOOLEAN, todo : SUBSET Entry]

\* A call for the full lock that is past the directory has locked it, and the
\* lock files behind it, which still have their names in f.
FullCall(f, c) ==
    c.level = FullContainerLock /\ c.pc # "idle" =>
        /\ c.at = FullContainerLock =>
              c.pc # "create" /\ (c.pc = "flock" => c.fd = Directory)
        /\ c.at # FullContainerLock =>
              /\ Directory \in c.got
              /\ \A l \in LockFileLevels : l < c.at => f[l] # 0 /\ f[l] \in c.got
              /\ c.pc = "flock" => f[c.at] # 0 /\ c.fd = f[c.at]

\* So does a full lock that has been granted, until its holder removes them.
FullHeldInv ==
    \A p \in Procs : \A lk \in held[p] : lk.level = FullContainerLock =>
        /\ Directory \in lk.fds
        /\ ~Removing(p) =>
              \A l \in LockFileLevels : files[l] # 0 /\ files[l] \in lk.fds

RemovalInv ==
    \A p \in Procs :
        IF Removing(p) THEN \E lk \in held[p] : lk.level = FullContainerLock
                       ELSE removal[p].todo = {}

DInv ==
    /\ DTypeOK
    /\ Exclusive
    /\ files[FullContainerLock] \in {0, Directory}
    /\ \A p \in Procs : FullCall(files, call[p])
    /\ FullHeldInv
    /\ RemovalInv

LEMMA DTyped ==
    DTypeOK <=> /\ files \in [Levels -> Nat]
                /\ inodes \in Nat
                /\ role \in [Procs -> Roles \cup {"none"}]
                /\ call \in [Procs -> Calls]
                /\ held \in [Procs -> SUBSET Grants]
                /\ present \subseteq Contents
                /\ opened \in [Procs -> BOOLEAN]
                /\ removal \in [Procs -> Removals]
  BY DEF DTypeOK, TypeOK, Calls, Grants, Removals

LEMMA NoCallIs ==
    NoCall \in Calls /\ NoCall.pc = "idle" /\ NoCall.got = {}
  BY DEF NoCall, Calls, Levels

LEMMA LevelsAre ==
    /\ FullContainerLock \in Levels /\ FullContainerLock \notin LockFileLevels
    /\ LockFileLevels \subseteq Levels
    /\ RunLock \in LockFileLevels
    /\ \A l \in Levels : l # FullContainerLock => l \in LockFileLevels
    /\ Levels \subseteq Nat
  BY DEF Levels, LockFileLevels, FullContainerLock, RunLock

\* Who has locked the directory is alone with it.
LEMMA AloneInside ==
    ASSUME DInv, NEW p \in Procs, NEW lk \in held[p], lk.level = FullContainerLock
    PROVE  /\ \A q \in Procs : Directory \notin call[q].got
           /\ \A q \in Procs : \A b \in held[q] :
                 b.level = FullContainerLock => q = p /\ b = lk
  BY DEF DInv, Exclusive, FullHeldInv

\* A file on a level that had none disturbs no call.
LEMMA FullCallKept ==
    ASSUME NEW f, NEW g, NEW c \in Calls, FullCall(f, c),
           \A l \in LockFileLevels : f[l] # 0 => g[l] = f[l]
    PROVE  FullCall(g, c)
  BY LevelsAre DEF FullCall, Calls

LEMMA DInitInv == DInit => DInv
<1> SUFFICES ASSUME DInit PROVE DInv
  OBVIOUS
<1> USE DEF DInit, Init
<1>1. DTypeOK
  <2>1. removal \in [Procs -> Removals]
    BY DEF NoRemoval, Removals
  <2>2. files \in [Levels -> Nat]
    OBVIOUS
  <2> QED BY <2>1, <2>2, NoCallIs, DTyped
<1>2. Exclusive
  BY NoCallIs DEF Exclusive
<1>3. files[FullContainerLock] = Directory
  BY LevelsAre DEF Directory
<1>4. \A p \in Procs : FullCall(files, call[p])
  BY NoCallIs DEF FullCall
<1>5. FullHeldInv /\ RemovalInv
  BY DEF FullHeldInv, RemovalInv, Removing, NoRemoval
<1> QED BY <1>1, <1>2, <1>3, <1>4, <1>5 DEF DInv

\* A step that changes the call of one process, and at most adds a file.
LEMMA DCallStep ==
    ASSUME DInv, NEW p \in Procs, NEW c \in Calls, c.got \subseteq call[p].got,
           call' = [call EXCEPT ![p] = c],
           FullCall(files', c),
           role' \in [Procs -> Roles \cup {"none"}], held' = held,
           files' \in [Levels -> Nat], inodes' \in Nat,
           files'[FullContainerLock] = files[FullContainerLock],
           \A l \in LockFileLevels : files[l] # 0 => files'[l] = files[l],
           UNCHANGED dvars
    PROVE  DInv'
<1>1. /\ call \in [Procs -> Calls]
      /\ held \in [Procs -> SUBSET Grants]
  BY DTyped DEF DInv
<1>2. DTypeOK'
  <2>1. call' \in [Procs -> Calls]
    BY <1>1
  <2> QED BY <2>1, DTyped DEF DInv, dvars, DTypeOK, TypeOK, Calls
<1>3. \A q \in Procs : call'[q].got \subseteq call[q].got
  BY <1>1
<1>4. Exclusive'
  BY <1>3 DEF DInv, Exclusive
<1>5. ASSUME NEW q \in Procs PROVE FullCall(files', call'[q])
  <2>1. CASE q = p
    BY <1>1, <2>1
  <2>2. CASE q # p
    BY <1>1, <2>2, FullCallKept DEF DInv
  <2> QED BY <2>1, <2>2
<1>6. FullHeldInv'
  BY DEF DInv, FullHeldInv, Removing, dvars
<1>7. RemovalInv'
  BY DEF DInv, RemovalInv, Removing, dvars
<1>8. (\A q \in Procs : FullCall(files, call[q]))'
  BY <1>5 DEF FullCall
<1> QED BY <1>2, <1>4, <1>6, <1>7, <1>8 DEF DInv

LEMMA DFail ==
    ASSUME DInv, NEW p \in Procs, Fail(p), UNCHANGED <<files, inodes, dvars>>
    PROVE  DInv'
<1>1. /\ call' = [call EXCEPT ![p] = NoCall] /\ UNCHANGED <<role, held>>
  BY DEF Fail
<1>2. FullCall(files', NoCall)
  BY NoCallIs DEF FullCall
<1> QED BY <1>1, <1>2, NoCallIs, DCallStep, DTyped DEF DInv

LEMMA DLock ==
    ASSUME DInv, NEW p \in Procs, NEW site \in Sites, Lock(p, site), UNCHANGED dvars
    PROVE  DInv'
<1> DEFINE c == [pc |-> FirstPc(site.level), level |-> site.level, wait |-> site.wait,
                 keep |-> site.keep, at |-> site.level, fd |-> 0, got |-> {}]
<1>1. site.level \in Levels /\ site.wait \in BOOLEAN /\ site.keep \in BOOLEAN
  BY SitesAssumption
<1>2. /\ c.level = site.level /\ c.at = site.level /\ c.got = {}
      /\ c.pc \in {"create", "open"}
      /\ site.level = FullContainerLock => c.pc = "open"
  BY DEF FirstPc
<1>3. c \in Calls
  BY <1>1, <1>2 DEF Calls
<1>4. call' = [call EXCEPT ![p] = c] /\ UNCHANGED <<files, inodes, held>>
  BY DEF Lock
<1>5. role' \in [Procs -> Roles \cup {"none"}]
  BY DTyped DEF Lock, DInv, Roles
<1> HIDE DEF c
<1>6. FullCall(files, c)
  BY <1>2 DEF FullCall
<1> QED BY <1>2, <1>3, <1>4, <1>5, <1>6, DCallStep, DTyped DEF DInv

LEMMA DCreate ==
    ASSUME DInv, NEW p \in Procs, CreateLockFile(p), UNCHANGED dvars
    PROVE  DInv'
<1> DEFINE c == [call[p] EXCEPT !.pc = "open"]
           a == call[p].at
<1>1. CASE files[FullContainerLock] = 0
  BY <1>1, DFail DEF CreateLockFile
<1>2. call[p] \in Calls
  BY DTyped DEF DInv
<1>3. /\ c \in Calls /\ c.pc = "open" /\ c.at = a
      /\ c.level = call[p].level /\ c.got = call[p].got
      /\ a \in Levels
  BY <1>2 DEF Calls
<1>4. call[p].pc = "create" /\ FullCall(files, call[p])
  BY DEF CreateLockFile, DInv
<1>5. FullCall(files, c)
  BY <1>3, <1>4 DEF FullCall
<1>6. files \in [Levels -> Nat] /\ inodes \in Nat /\ role \in [Procs -> Roles \cup {"none"}]
  BY DTyped DEF DInv
<1>7. CASE files[FullContainerLock] # 0 /\ files[a] # 0
  <2>1. call' = [call EXCEPT ![p] = c] /\ UNCHANGED <<files, inodes, held, role>>
    BY <1>7 DEF CreateLockFile
  <2> HIDE DEF c
  <2> QED BY <1>3, <1>5, <1>6, <2>1, DCallStep
<1>8. CASE files[FullContainerLock] # 0 /\ files[a] = 0
  <2>1. /\ call' = [call EXCEPT ![p] = c] /\ UNCHANGED <<held, role>>
        /\ inodes' = inodes + 1 /\ files' = [files EXCEPT ![a] = inodes + 1]
    BY <1>8 DEF CreateLockFile
  <2>2. /\ files' \in [Levels -> Nat] /\ inodes' \in Nat
        /\ \A l \in Levels : files[l] # 0 => files'[l] = files[l]
    BY <1>3, <1>6, <1>8, <2>1
  <2> HIDE DEF c
  <2>3. FullCall(files', c)
    BY <1>3, <1>5, <2>2, FullCallKept, LevelsAre
  <2> QED BY <1>3, <1>6, <1>8, <2>1, <2>2, <2>3, DCallStep, LevelsAre
<1> QED BY <1>1, <1>7, <1>8

LEMMA DOpen ==
    ASSUME DInv, NEW p \in Procs, OpenLockFile(p), UNCHANGED dvars
    PROVE  DInv'
<1> DEFINE c == [call[p] EXCEPT !.pc = "flock", !.fd = files[call[p].at]]
           a == call[p].at
<1>1. CASE files[a] = 0
  BY <1>1, DFail DEF OpenLockFile
<1>2. CASE files[a] # 0
  <2>1. call[p] \in Calls /\ files \in [Levels -> Nat]
    BY DTyped DEF DInv
  <2>2. /\ c \in Calls /\ c.pc = "flock" /\ c.at = a /\ c.fd = files[a]
        /\ c.level = call[p].level /\ c.got = call[p].got
        /\ a \in Levels
    BY <2>1 DEF Calls
  <2>3. /\ call[p].pc = "open" /\ FullCall(files, call[p])
        /\ files[FullContainerLock] \in {0, Directory}
    BY DEF OpenLockFile, DInv
  <2>4. FullCall(files, c)
    BY <1>2, <2>2, <2>3 DEF FullCall
  <2>5. call' = [call EXCEPT ![p] = c] /\ UNCHANGED <<files, inodes, held, role>>
    BY <1>2 DEF OpenLockFile
  <2> HIDE DEF c
  <2> QED BY <2>2, <2>4, <2>5, DCallStep, DTyped DEF DInv
<1> QED BY <1>1, <1>2

\* A lock on an inode that nobody had locked.
LEMMA DFlock ==
    ASSUME DInv, NEW p \in Procs, Flock(p), ~Removing(p), UNCHANGED dvars
    PROVE  DInv'
<1> DEFINE c == call[p]
           got == c.got \cup {c.fd}
<1>1. /\ call \in [Procs -> Calls] /\ held \in [Procs -> SUBSET Grants]
      /\ c \in Calls /\ files \in [Levels -> Nat]
  BY DTyped DEF DInv
<1>2. /\ c.pc = "flock" /\ UNCHANGED <<files, inodes, role>>
      /\ FullCall(files, c)
  BY DEF Flock, DInv
<1>3. \A q \in Procs : c.fd \notin call[q].got /\ \A lk \in held[q] : c.fd \notin lk.fds
  BY DEF Flock, Flocked, Fds
<1>4. got \in SUBSET Nat /\ c.level \in Levels /\ c.at \in Levels /\ c.keep \in BOOLEAN
  BY <1>1 DEF Calls
<1>5. CASE LastLevel(c)
  <2> DEFINE new == [level |-> c.level, keep |-> c.keep, fds |-> got]
  <2>1. /\ call' = [call EXCEPT ![p] = NoCall]
        /\ held' = [held EXCEPT ![p] = @ \cup {new}]
    BY <1>5 DEF Flock
  <2>2. new \in Grants /\ new.level = c.level /\ new.fds = got
    BY <1>4 DEF Grants
  <2> HIDE DEF new
  <2>3. /\ \A q \in Procs : call'[q] = IF q = p THEN NoCall ELSE call[q]
        /\ \A q \in Procs : held'[q] = IF q = p THEN held[q] \cup {new} ELSE held[q]
        /\ held' \in [Procs -> SUBSET Grants] /\ call' \in [Procs -> Calls]
    BY <1>1, <2>1, <2>2, NoCallIs
  <2>4. DTypeOK'
    BY <1>2, <2>3, DTyped DEF DInv, dvars, DTypeOK, TypeOK, Calls, Grants
  <2>5. Exclusive'
    <3>1. ASSUME NEW q \in Procs, NEW r \in Procs, NEW x \in held'[q], NEW y \in held'[r],
                 q # r \/ x # y
          PROVE  x.fds \cap y.fds = {}
      <4>1. \A s \in Procs : \A z \in held[s] : z.fds \cap got = {}
        BY <1>3 DEF DInv, Exclusive
      <4>2. CASE x \in held[q] /\ y \in held[r]
        BY <3>1, <4>2 DEF DInv, Exclusive
      <4>3. CASE q = p /\ x = new /\ y \in held[r]
        BY <2>2, <4>1, <4>3
      <4>4. CASE r = p /\ y = new /\ x \in held[q]
        BY <2>2, <4>1, <4>4
      <4> QED BY <2>3, <3>1, <4>2, <4>3, <4>4
    <3>2. ASSUME NEW q \in Procs, NEW r \in Procs, NEW x \in held'[q]
          PROVE  x.fds \cap call'[r].got = {}
      <4>1. CASE r = p
        BY <2>3, <4>1, NoCallIs
      <4>2. CASE r # p /\ x \in held[q]
        BY <2>3, <4>2 DEF DInv, Exclusive
      <4>3. CASE r # p /\ q = p /\ x = new
        BY <1>3, <2>2, <2>3, <4>3 DEF DInv, Exclusive
      <4> QED BY <2>3, <4>1, <4>2, <4>3
    <3>3. \A q, r \in Procs : q # r => call'[q].got \cap call'[r].got = {}
      BY <2>3, NoCallIs DEF DInv, Exclusive
    <3> QED BY <3>1, <3>2, <3>3 DEF Exclusive
  <2>6. (\A q \in Procs : FullCall(files, call[q]))'
    BY <1>2, <2>3, NoCallIs DEF DInv, FullCall
  <2>7. c.level = FullContainerLock =>
            /\ Directory \in got
            /\ \A l \in LockFileLevels : files[l] # 0 /\ files[l] \in got
    BY <1>2, <1>5 DEF FullCall, LastLevel, LockFileLevels, Levels, FullContainerLock,
       ConfigLock
  <2>8. FullHeldInv'
    BY <1>2, <2>2, <2>3, <2>7 DEF DInv, FullHeldInv, Removing, dvars
  <2>9. RemovalInv'
    BY <2>3 DEF DInv, RemovalInv, Removing, dvars
  <2> QED BY <1>2, <2>4, <2>5, <2>6, <2>8, <2>9 DEF DInv
<1>6. CASE ~LastLevel(c)
  <2> DEFINE d == [c EXCEPT !.pc = "create", !.at = NextLevel(c.at), !.got = got]
  <2>1. call' = [call EXCEPT ![p] = d] /\ held' = held
    BY <1>6 DEF Flock
  <2>2. /\ c.level = FullContainerLock /\ c.at # ConfigLock
        /\ NextLevel(c.at) \in LockFileLevels
    BY <1>4, <1>6 DEF LastLevel, NextLevel, LockFileLevels, Levels, FullContainerLock,
       ConfigLock, RunLock
  <2>3. /\ d \in Calls /\ d.pc = "create" /\ d.at = NextLevel(c.at) /\ d.got = got
        /\ d.level = c.level
    BY <1>1, <1>4, <2>2, LevelsAre DEF Calls
  <2> HIDE DEF d
  <2>4. /\ \A q \in Procs : call'[q] = IF q = p THEN d ELSE call[q]
        /\ call' \in [Procs -> Calls]
    BY <1>1, <2>1, <2>3
  <2>5. DTypeOK'
    BY <1>2, <2>1, <2>4, DTyped DEF DInv, dvars, DTypeOK, TypeOK, Calls, Grants
  <2>6. Exclusive'
    <3>1. ASSUME NEW q \in Procs, NEW r \in Procs, NEW x \in held[q]
          PROVE  x.fds \cap call'[r].got = {}
      <4>1. CASE r = p
        BY <1>3, <2>3, <2>4, <4>1 DEF DInv, Exclusive
      <4>2. CASE r # p
        BY <2>4, <4>2 DEF DInv, Exclusive
      <4> QED BY <4>1, <4>2
    <3>2. ASSUME NEW q \in Procs, NEW r \in Procs, q # r
          PROVE  call'[q].got \cap call'[r].got = {}
      <4>1. \A s \in Procs : s # p => got \cap call[s].got = {}
        BY <1>3 DEF DInv, Exclusive
      <4>2. CASE q = p
        BY <2>3, <2>4, <3>2, <4>1, <4>2
      <4>3. CASE r = p
        BY <2>3, <2>4, <3>2, <4>1, <4>3
      <4>4. CASE q # p /\ r # p
        BY <2>4, <3>2, <4>4 DEF DInv, Exclusive
      <4> QED BY <4>2, <4>3, <4>4
    <3> QED BY <2>1, <3>1, <3>2 DEF DInv, Exclusive
  <2>7. Directory \in got
    BY <1>2, <2>2 DEF FullCall
  <2>8. \A l \in LockFileLevels : l < NextLevel(c.at) => files[l] # 0 /\ files[l] \in got
    BY <1>2, <1>4, <2>2 DEF FullCall, NextLevel, LockFileLevels, Levels, FullContainerLock,
       RunLock, ConfigLock
  <2>9. FullCall(files, d)
    BY <2>2, <2>3, <2>7, <2>8, LevelsAre DEF FullCall
  <2>10. (\A q \in Procs : FullCall(files, call[q]))'
    BY <1>2, <2>4, <2>9 DEF DInv, FullCall
  <2>11. FullHeldInv' /\ RemovalInv'
    BY <1>2, <2>1 DEF DInv, FullHeldInv, RemovalInv, Removing, dvars
  <2> QED BY <1>2, <2>5, <2>6, <2>10, <2>11 DEF DInv
<1> QED BY <1>5, <1>6

\* Locks are given up by a process that does not remove anything, or that
\* stops to.
LEMMA DGivesUp ==
    ASSUME DInv, NEW p \in Procs, NEW rest \in SUBSET held[p],
           held' = [held EXCEPT ![p] = rest],
           call' = call \/ call' = [call EXCEPT ![p] = NoCall],
           \/ ~Removing(p) /\ removal' = removal
           \/ rest = {} /\ removal' = [removal EXCEPT ![p] = NoRemoval],
           files' \in [Levels -> Nat], inodes' = inodes,
           \A l \in LockFileLevels : files'[l] = files[l],
           files'[FullContainerLock] \in {0, Directory},
           role' \in [Procs -> Roles \cup {"none"}],
           opened' \in [Procs -> BOOLEAN], present' = present
    PROVE  DInv'
<1>1. /\ call \in [Procs -> Calls] /\ held \in [Procs -> SUBSET Grants]
      /\ removal \in [Procs -> Removals]
  BY DTyped DEF DInv
<1>2. /\ \A q \in Procs : call'[q] = call[q] \/ call'[q] = NoCall
      /\ \A q \in Procs : held'[q] = IF q = p THEN rest ELSE held[q]
      /\ call' \in [Procs -> Calls]
      /\ held' \in [Procs -> SUBSET Grants]
  BY <1>1, NoCallIs
<1>3. NoRemoval \in Removals /\ NoRemoval.on = FALSE /\ NoRemoval.todo = {}
  BY DEF NoRemoval, Removals
<1>4. /\ removal' \in [Procs -> Removals]
      /\ \A q \in Procs : q # p => removal'[q] = removal[q]
      /\ rest # {} => removal'[p] = removal[p] /\ ~Removing(p)
      /\ ~removal'[p].on /\ removal'[p].todo = {}
  BY <1>1, <1>3 DEF DInv, RemovalInv, Removing
<1>5. DTypeOK'
  BY <1>2, <1>4, DTyped DEF DInv, DTypeOK, TypeOK, Calls, Grants, Removals
<1>6. Exclusive'
  <2>1. /\ \A q \in Procs : call'[q].got \subseteq call[q].got
        /\ \A q \in Procs : held'[q] \subseteq held[q]
    BY <1>2, NoCallIs
  <2> QED BY <2>1 DEF DInv, Exclusive
<1>7. ASSUME NEW q \in Procs PROVE FullCall(files', call'[q])
  <2>1. CASE call'[q] = NoCall
    BY <2>1, NoCallIs DEF FullCall
  <2>2. CASE call'[q] = call[q]
    BY <1>1, <2>2, FullCallKept DEF DInv
  <2> QED BY <1>2, <2>1, <2>2
<1>8. (\A q \in Procs : FullCall(files, call[q]))'
  BY <1>7 DEF FullCall
<1>9. FullHeldInv'
  BY <1>2, <1>4 DEF DInv, FullHeldInv, Removing
<1>10. RemovalInv'
  BY <1>2, <1>4 DEF DInv, RemovalInv, Removing
<1> QED BY <1>5, <1>6, <1>8, <1>9, <1>10 DEF DInv

LEMMA DList ==
    ASSUME DInv, NEW p \in Procs, RemoveAllList(p)
    PROVE  DInv'
<1>1. PICK lk \in held[p] : lk.level = FullContainerLock
  BY DEF RemoveAllList, DeleteGranted
<1>2. /\ UNCHANGED <<files, inodes, role, call, held, present, opened>>
      /\ removal' = [removal EXCEPT ![p] = [on |-> TRUE, todo |-> Listing]]
  BY DEF RemoveAllList, vars
<1>3. [on |-> TRUE, todo |-> Listing] \in Removals
  BY DEF Listing, Removals
<1>4. /\ removal' \in [Procs -> Removals]
      /\ \A q \in Procs : q # p => removal'[q] = removal[q]
      /\ removal'[p].on
  BY <1>2, <1>3, DTyped DEF DInv
<1>5. DTypeOK'
  BY <1>2, <1>4, DTyped DEF DInv, DTypeOK, TypeOK, Removals
<1>6. Exclusive' /\ (\A q \in Procs : FullCall(files, call[q]))'
  BY <1>2 DEF DInv, Exclusive, FullCall
<1>7. FullHeldInv'
  BY <1>2, <1>4 DEF DInv, FullHeldInv, Removing
<1>8. RemovalInv'
  BY <1>1, <1>2, <1>4 DEF DInv, RemovalInv, Removing
<1> QED BY <1>2, <1>5, <1>6, <1>7, <1>8 DEF DInv

LEMMA DUnlink ==
    ASSUME DInv, NEW p \in Procs, NEW e \in Entry, RemoveAllUnlink(p, e)
    PROVE  DInv'
<1>1. Removing(p)
  BY DEF DInv, RemovalInv, RemoveAllUnlink
<1>2. PICK lk \in held[p] : lk.level = FullContainerLock
  BY <1>1 DEF DInv, RemovalInv
<1>3. /\ UNCHANGED <<inodes, role, call, held, opened>>
      /\ removal' = [removal EXCEPT ![p].todo = @ \ {e}]
  BY DEF RemoveAllUnlink
<1>4. /\ removal' \in [Procs -> Removals]
      /\ \A q \in Procs : q # p => removal'[q] = removal[q]
      /\ removal'[p].on
  <2>1. removal \in [Procs -> Removals]
    BY DTyped DEF DInv
  <2> QED BY <1>1, <1>3, <2>1 DEF Removals, Removing
<1>5. /\ files' \in [Levels -> Nat]
      /\ files'[FullContainerLock] = files[FullContainerLock]
      /\ present' \subseteq Contents
  <2>1. files \in [Levels -> Nat] /\ present \subseteq Contents
    BY DTyped DEF DInv
  <2>2. CASE "lock" \in DOMAIN e
    <3>1. e.lock \in LockFileLevels
      BY <2>2 DEF Entry
    <3> QED BY <2>1, <2>2, <3>1, LevelsAre DEF RemoveAllUnlink
  <2>3. CASE ~("lock" \in DOMAIN e)
    BY <2>1, <2>3 DEF RemoveAllUnlink
  <2> QED BY <2>2, <2>3
<1>6. DTypeOK'
  BY <1>3, <1>4, <1>5, DTyped DEF DInv, DTypeOK, TypeOK, Removals
<1>7. Exclusive'
  BY <1>3 DEF DInv, Exclusive
<1>8. (\A q \in Procs : FullCall(files, call[q]))'
  BY <1>2, <1>3, AloneInside DEF DInv, FullCall
<1>9. FullHeldInv'
  BY <1>2, <1>3, <1>4, AloneInside DEF DInv, FullHeldInv, Removing
<1>10. RemovalInv'
  BY <1>2, <1>3, <1>4 DEF DInv, RemovalInv, Removing
<1> QED BY <1>5, <1>6, <1>7, <1>8, <1>9, <1>10 DEF DInv

LEMMA DNextInv == DInv /\ [DNext]_<<vars, dvars>> => DInv'
<1> SUFFICES ASSUME DInv, [DNext]_<<vars, dvars>> PROVE DInv'
  OBVIOUS
<1>0. /\ files \in [Levels -> Nat] /\ role \in [Procs -> Roles \cup {"none"}]
      /\ opened \in [Procs -> BOOLEAN]
      /\ files[FullContainerLock] \in {0, Directory}
  BY DTyped DEF DInv
<1>1. ASSUME NEW p \in Procs, Open(p) PROVE DInv'
  <2>1. /\ UNCHANGED <<files, inodes, role, call, held, present, removal>>
        /\ opened' \in [Procs -> BOOLEAN]
    BY <1>0, <1>1 DEF Open, vars
  <2> QED BY <2>1 DEF DInv, DTypeOK, TypeOK, Exclusive, FullCall, FullHeldInv,
          RemovalInv, Removing
<1>2. ASSUME NEW p \in Procs, LockCall(p) PROVE DInv'
  <2>1. UNCHANGED dvars /\ ~Removing(p)
    BY <1>2 DEF LockCall
  <2>2. CASE WouldBlock(p)
    BY <2>1, <2>2, DFail DEF WouldBlock
  <2> QED BY <1>2, <2>1, <2>2, DLock, DCreate, DOpen, DFlock DEF LockCall
<1>3. ASSUME NEW p \in Procs, DRelease(p) PROVE DInv'
  <2>1. PICK lk \in held[p] : Release(p, lk)
    BY <1>3 DEF DRelease
  <2>2. /\ held' = [held EXCEPT ![p] = held[p] \ {lk}]
        /\ UNCHANGED <<files, inodes, role, call, present, opened, removal>>
        /\ ~Removing(p)
    BY <1>3, <2>1 DEF DRelease, Release, dvars
  <2>3. held[p] \ {lk} \in SUBSET held[p]
    OBVIOUS
  <2> QED BY <1>0, <2>2, <2>3, DGivesUp
<1>4. ASSUME NEW p \in Procs, DDie(p) PROVE DInv'
  <2>1. /\ held' = [held EXCEPT ![p] = {}]
        /\ call' = [call EXCEPT ![p] = NoCall]
        /\ removal' = [removal EXCEPT ![p] = NoRemoval]
        /\ UNCHANGED <<files, inodes, present>>
        /\ role' \in [Procs -> Roles \cup {"none"}]
        /\ opened' \in [Procs -> BOOLEAN]
    BY <1>0, <1>4 DEF DDie, Die
  <2> QED BY <1>0, <2>1, DGivesUp
<1>5. ASSUME NEW p \in Procs, RemoveAllRmdir(p) PROVE DInv'
  <2>1. /\ held' = [held EXCEPT ![p] = {}]
        /\ removal' = [removal EXCEPT ![p] = NoRemoval]
        /\ UNCHANGED <<inodes, call, present>>
        /\ role' \in [Procs -> Roles \cup {"none"}]
        /\ opened' \in [Procs -> BOOLEAN]
    BY <1>0, <1>5 DEF RemoveAllRmdir
  <2>2. /\ files' \in [Levels -> Nat]
        /\ \A l \in LockFileLevels : files'[l] = files[l]
        /\ files'[FullContainerLock] \in {0, Directory}
    BY <1>0, <1>5, LevelsAre DEF RemoveAllRmdir
  <2> QED BY <2>1, <2>2, DGivesUp
<1>6. CASE UNCHANGED <<vars, dvars>>
  BY <1>6 DEF vars, dvars, DInv, DTypeOK, TypeOK, Exclusive, FullCall, FullHeldInv,
      RemovalInv, Removing
<1> QED BY <1>1, <1>2, <1>3, <1>4, <1>5, <1>6, DList, DUnlink DEF DNext

LEMMA DInvariance == DSpec => []DInv
  BY DInitInv, DNextInv, PTL DEF DSpec

\* No delete goes on to remove a directory while a container runs on the
\* run.lock that is in it, for any callers and any number of processes, whoever
\* died half-way through which calls and removals before (container.go:366-393).
THEOREM DeleteRefused == DSpec => DeleteRefusedWhileRunning
<1>1. ASSUME DInv, [DNext]_<<vars, dvars>>
      PROVE  [\A p, q \in Procs : (~Removing(p) /\ removal'[p].on) => ~RunningOnFile(q)]_<<vars, dvars>>
  <2> SUFFICES ASSUME DNext, NEW p \in Procs, NEW q \in Procs, ~Removing(p), removal'[p].on
               PROVE  ~RunningOnFile(q)
    BY <1>1
  <2>1. removal \in [Procs -> Removals]
    BY <1>1, DTyped DEF DInv
  <2>2. RemoveAllList(p)
    <3>1. ASSUME NEW r \in Procs, RemoveAllList(r) PROVE r = p
      BY <2>1, <3>1 DEF RemoveAllList, Removing
    <3>2. ASSUME NEW r \in Procs,
                 \/ Open(r) \/ LockCall(r) \/ DRelease(r) \/ DDie(r) \/ RemoveAllRmdir(r)
                 \/ \E e \in Entry : RemoveAllUnlink(r, e)
          PROVE  FALSE
      <4>1. CASE Open(r) \/ LockCall(r) \/ DRelease(r)
        BY <4>1 DEF Open, LockCall, DRelease, dvars, Removing
      <4>2. CASE DDie(r) \/ RemoveAllRmdir(r)
        BY <2>1, <4>2 DEF DDie, RemoveAllRmdir, Removing, NoRemoval
      <4>3. CASE \E e \in Entry : RemoveAllUnlink(r, e)
        BY <2>1, <4>3 DEF RemoveAllUnlink, Removing, Removals
      <4> QED BY <3>2, <4>1, <4>2, <4>3
    <3> QED BY <3>1, <3>2 DEF DNext
  <2>3. PICK lk \in held[p] : lk.level = FullContainerLock /\ role[p] = "delete"
    BY <2>2 DEF RemoveAllList, DeleteGranted
  <2>4. files[RunLock] \in lk.fds
    BY <1>1, <2>3, LevelsAre DEF DInv, FullHeldInv
  <2>5. ASSUME NEW b \in held[q], files[RunLock] \in b.fds PROVE q = p
    BY <1>1, <2>3, <2>4, <2>5 DEF DInv, Exclusive
  <2> QED BY <2>3, <2>5 DEF RunningOnFile, Running
<1> QED BY <1>1, DInvariance, PTL DEF DSpec, DeleteRefusedWhileRunning
=============================================================================
