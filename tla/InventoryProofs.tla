-------------------------- MODULE InventoryProofs --------------------------
(***************************************************************************)
(* Proofs about the containers of one user (Inventory): for any processes, *)
(* names, commands and targets of rename, the types; that a container is   *)
(* touched by the holder of its full lock only; that containers arrive     *)
(* complete, but for a create whose stage another one took away; and that  *)
(* only a delete destroys one.                                             *)
(***************************************************************************)
EXTENDS Inventory, FiniteSetTheorems, TLAPS

\* Where a process relies on the full lock of the container it was given.
Holding == {"unlink", "isdefault", "move"}

\* Whoever is there has the lock of what the path leads to, and no directory
\* is locked twice.
HolderInv ==
    /\ \A p \in Procs : work[p].pc \in Holding =>
          /\ locked[p] # 0
          /\ locked[p] = dir[Live(work[p].name)].id
    /\ \A p, q \in Procs : p # q /\ locked[p] # 0 => locked[p] # locked[q]

-----------------------------------------------------------------------------
(***************************************************************************)
(* Types                                                                   *)
(***************************************************************************)
LEMMA EntryFacts ==
    /\ \A n \in Names, m \in Names : Live(n) = Live(m) => n = m
    /\ \A n \in Names, m \in Names : Staged(n) = Staged(m) => n = m
    /\ \A n \in Names, m \in Names : Live(n) # Staged(m)
    /\ \A n \in Names : Live(n) \in Entries /\ Staged(n) \in Entries
    /\ Entries \subseteq [name : Names \cup {NoName}, stage : BOOLEAN]
  BY DEF Live, Staged, Entries

LEMMA CardNat == Cardinality(Names) \in Nat
  BY FS_CardinalityType, InventoryAssumption DEF InventoryAssumption

LEMMA InitTyped == Init => TypeOK
<1> SUFFICES ASSUME Init PROVE TypeOK
  OBVIOUS
<1>1. dir \in [Entries -> Dirs]
  <2> PICK S \in SUBSET Names, f \in [Names -> 1..Cardinality(Names)] :
          dir = [e \in Entries |->
                       IF ~e.stage /\ e.name \in S
                       THEN [id |-> f[e.name], config |-> TRUE, storage |-> Parts]
                       ELSE NoDir]
    BY DEF Init
  <2>1. \A n \in Names : f[n] \in Nat
    BY CardNat
  <2>2. NoDir \in Dirs /\ Parts \in SUBSET Parts
    BY DEF NoDir, Dirs
  <2>3. \A e \in Entries : e.name \in Names
    BY DEF Entries
  <2> QED BY <2>1, <2>2, <2>3 DEF Dirs
<1>2. default \in Names \cup {NoName}
  BY DEF Init
<1>3. work \in [Procs -> Works]
  BY DEF Init, Idle, Works
<1>4. commands \in 0..MaxCommands
  BY InventoryAssumption DEF Init, InventoryAssumption
<1> QED BY <1>1, <1>2, <1>3, <1>4, CardNat DEF Init, TypeOK

\* A command begins with the work that Start gives it.
LEMMA StartTyped ==
    ASSUME TypeOK, NEW p \in Procs, NEW cmd, NEW pc, NEW n \in Names \cup {NoName},
           NEW to \in [name : Names \cup {NoName}, stage : BOOLEAN],
           cmd \in {"create", "delete", "rename", "set-default"},
           pc \in {"create", "open", "check", "lock"},
           cmd \in {"delete", "rename"} => n \in Names,
           Start(p, cmd, pc, n, to)
    PROVE  TypeOK'
<1>1. OpenedId(cmd, n) \in Nat
  BY EntryFacts DEF OpenedId, TypeOK, Dirs
<1>2. [Idle EXCEPT !.pc = pc, !.cmd = cmd, !.name = n, !.to = to,
                   !.id = OpenedId(cmd, n)] \in Works
  BY <1>1 DEF Idle, Works
<1>3. commands' \in 0..MaxCommands
  BY InventoryAssumption DEF Start, TypeOK, InventoryAssumption
<1> QED BY <1>2, <1>3 DEF Start, TypeOK, files

\* A step of one process that leaves the directories alone, or gives one
\* entry another directory.
LEMMA GotoTyped ==
    ASSUME TypeOK, NEW p \in Procs,
           NEW pc \in {"panic", "done", "stage", "mkdir", "config", "extract",
                       "unstage", "default", "open", "remove", "symlink",
                       "rename", "confirm", "isdefault", "move", "list"},
           Goto(p, pc)
    PROVE  work' \in [Procs -> Works]
  BY DEF Goto, TypeOK, Works

\* What list and RemoveAll have still to visit.
Todos == SUBSET (Names \cup Parts \cup {"config.json"})

LEMMA TodoTyped ==
    ASSUME TypeOK, NEW p \in Procs, NEW t \in Todos,
           NEW pc \in {"extract", "unstage", "unlink", "list", "done"}
    PROVE  /\ [work EXCEPT ![p].pc = pc, ![p].todo = t] \in [Procs -> Works]
           /\ [work EXCEPT ![p].todo = t] \in [Procs -> Works]
           /\ [work EXCEPT ![p].todo = t, ![p].pc = pc] \in [Procs -> Works]
           /\ work[p].todo \in Todos
<1>1. work[p] \in Works
  BY DEF TypeOK
<1>2. /\ [work[p] EXCEPT !.pc = pc, !.todo = t] \in Works
      /\ [work[p] EXCEPT !.todo = t] \in Works
      /\ [work[p] EXCEPT !.todo = t, !.pc = pc] \in Works
      /\ work[p].todo \in Todos
  BY <1>1 DEF Works, Todos
<1> QED BY <1>2 DEF TypeOK

LEMMA ExitTyped ==
    ASSUME TypeOK, NEW p \in Procs, Fails(p) PROVE TypeOK'
  BY DEF Fails, Exit, TypeOK, Works, Idle, files

\* The directory of one entry becomes another one.
LEMMA DirTyped ==
    ASSUME TypeOK, NEW e \in Entries, NEW d \in Dirs
    PROVE  [dir EXCEPT ![e] = d] \in [Entries -> Dirs]
  BY DEF TypeOK

\* The names that processes work on.
LEMMA NamesTyped ==
    ASSUME TypeOK, NEW p \in Procs
    PROVE  /\ work[p] \in Works
           /\ work[p].name \in Names \cup {NoName}
           /\ NewDefault(p) \in Names \cup {NoName}
  BY DEF TypeOK, Works, NewDefault

\* A process past its first step has a name, but for set-default and list.
NamedInv == \A p \in Procs :
    /\ work[p].cmd \in {"create", "delete", "rename"} => work[p].name \in Names
    /\ work[p].cmd = "rename" => work[p].to \in RenameTargets
    /\ work[p].pc \in {"create", "stage", "mkdir", "config", "extract",
                       "unstage", "default"} => work[p].cmd = "create"
    /\ work[p].pc \in {"check", "confirm", "unlink"} => work[p].cmd = "delete"
    /\ work[p].pc \in {"lock", "isdefault", "move"} => work[p].cmd = "rename"

LEMMA CreateTyped ==
    ASSUME TypeOK, NamedInv, NEW p \in Procs, Create(p)
    PROVE  TypeOK'
<1>1. CASE \E n \in Names : StartCreate(p, n)
  <2> PICK n \in Names : StartCreate(p, n)
    BY <1>1
  <2>1. Start(p, "create", "create", n, Idle.to)
    BY DEF StartCreate
  <2>2. Idle.to \in [name : Names \cup {NoName}, stage : BOOLEAN]
    BY DEF Idle
  <2> QED BY <2>1, <2>2, StartTyped
<1>2. CASE CheckNew(p)
  BY <1>2, GotoTyped DEF CheckNew, TypeOK, files
<1>3. CASE ResetStage(p)
  <2>1. Staged(work[p].name) \in Entries
    BY <1>3, EntryFacts DEF ResetStage, At, NamedInv
  <2>2. NoDir \in Dirs
    BY DEF NoDir, Dirs
  <2>3. cut' \in SUBSET Procs
    BY <1>3 DEF ResetStage, Filling, TypeOK
  <2> QED BY <1>3, <2>1, <2>2, <2>3, DirTyped, GotoTyped DEF ResetStage, DirStep, TypeOK
<1>4. CASE MakeStage(p)
  <2> DEFINE e == Staged(work[p].name)
             d == IF dir[e].id = 0 THEN [NoDir EXCEPT !.id = inodes + 1] ELSE dir[e]
  <2>1. e \in Entries
    BY <1>4, EntryFacts DEF MakeStage, At, NamedInv
  <2>2. d \in Dirs
    <3>1. dir[e] \in Dirs /\ inodes + 1 \in Nat
      BY <2>1 DEF TypeOK
    <3>2. [NoDir EXCEPT !.id = inodes + 1] \in Dirs
      BY <3>1 DEF NoDir, Dirs
    <3> QED BY <3>1, <3>2
  <2>3. dir' = [dir EXCEPT ![e] = d]
    BY <1>4 DEF MakeStage
  <2>4. dir' \in [Entries -> Dirs]
    BY <2>1, <2>2, <2>3, DirTyped
  <2>5. inodes' \in Nat /\ work' \in [Procs -> Works]
    BY <1>4, GotoTyped DEF MakeStage, TypeOK
  <2> QED BY <1>4, <2>4, <2>5 DEF MakeStage, TypeOK
<1>5. CASE WriteNewConfig(p)
  <2>1. Staged(work[p].name) \in Entries
    BY <1>5, EntryFacts DEF WriteNewConfig, At, NamedInv
  <2>2. dir' \in [Entries -> Dirs]
    BY <1>5, <2>1 DEF WriteNewConfig, TypeOK, Dirs
  <2>3. work' \in [Procs -> Works]
    BY <1>5, TodoTyped DEF WriteNewConfig, Todos
  <2> QED BY <1>5, <2>2, <2>3 DEF WriteNewConfig, TypeOK
<1>6. CASE SaveImage(p)
  <2> DEFINE part == IF "first" \in work[p].todo THEN "first" ELSE "rest"
  <2>1. Staged(work[p].name) \in Entries
    BY <1>6, EntryFacts DEF SaveImage, At, NamedInv
  <2>2. part \in Parts
    BY DEF Parts
  <2>3. dir' \in [Entries -> Dirs]
    BY <1>6, <2>1, <2>2 DEF SaveImage, TypeOK, Dirs
  <2>4. work' \in [Procs -> Works]
    <3>1. work[p].todo \ {part} \in Todos
      BY TodoTyped DEF Todos
    <3>2. work' = [work EXCEPT ![p].todo = work[p].todo \ {part},
                               ![p].pc = IF part = "rest" THEN "unstage" ELSE "extract"]
      BY <1>6 DEF SaveImage, At
    <3> QED BY <3>1, <3>2, TodoTyped
  <2> QED BY <1>6, <2>3, <2>4 DEF SaveImage, TypeOK
<1>7. CASE Unstage(p)
  <2>1. work[p].name \in Names
    BY <1>7 DEF Unstage, At, NamedInv
  <2>2. NoDir \in Dirs
    BY DEF NoDir, Dirs
  <2>3. dir' \in [Entries -> Dirs]
    BY <1>7, <2>1, <2>2, EntryFacts DEF Unstage, TypeOK
  <2>4. cut' \in SUBSET Procs
    BY <1>7 DEF Unstage, Filling, TypeOK
  <2> QED BY <1>7, <2>3, <2>4, GotoTyped DEF Unstage, TypeOK
<1>8. CASE DefaultIfNone(p)
  BY <1>8, GotoTyped DEF DefaultIfNone, TypeOK, files
<1>9. CASE CreateFails(p)
  BY <1>9, ExitTyped DEF CreateFails
<1> QED BY <1>1, <1>2, <1>3, <1>4, <1>5, <1>6, <1>7, <1>8, <1>9 DEF Create

LEMMA SetDefaultTyped ==
    ASSUME TypeOK, NamedInv, NEW p \in Procs, SetDefaultContainer(p)
    PROVE  TypeOK'
<1>1. CASE \E n \in Names \cup {NoName} : Start(p, "set-default", "open", n, Idle.to)
  <2>1. Idle.to \in [name : Names \cup {NoName}, stage : BOOLEAN]
    BY DEF Idle
  <2> QED BY <1>1, <2>1, StartTyped
<1>2. CASE OpenDefault(p)
  BY <1>2, GotoTyped DEF OpenDefault, TypeOK, files
<1>3. CASE RemoveDefaultTmp(p)
  BY <1>3, GotoTyped DEF RemoveDefaultTmp, TypeOK
<1>4. CASE SymlinkDefaultTmp(p)
  BY <1>4, GotoTyped, NamesTyped DEF SymlinkDefaultTmp, TypeOK
<1>5. CASE RenameDefaultTmp(p)
  BY <1>5, GotoTyped DEF RenameDefaultTmp, TypeOK
<1>6. CASE UnsetDefault(p)
  BY <1>6, GotoTyped DEF UnsetDefault, TypeOK
<1>7. CASE SetDefaultFails(p)
  BY <1>7, ExitTyped DEF SetDefaultFails
<1> QED BY <1>1, <1>2, <1>3, <1>4, <1>5, <1>6, <1>7 DEF SetDefaultContainer

LEMMA LockTyped ==
    ASSUME TypeOK, NEW p \in Procs, work[p].name \in Names, Lock(p)
    PROVE  locked' \in [Procs -> Nat]
  BY EntryFacts DEF Lock, TypeOK, Dirs

LEMMA DeleteTyped ==
    ASSUME TypeOK, NamedInv, NEW p \in Procs, Delete(p)
    PROVE  TypeOK'
<1>1. CASE \E n \in Names : StartOpen(p, "delete", "check", n, Idle.to)
  <2>1. Idle.to \in [name : Names \cup {NoName}, stage : BOOLEAN]
    BY DEF Idle
  <2> QED BY <1>1, <2>1, StartTyped DEF StartOpen
<1>2. CASE CheckDefault(p)
  BY <1>2, GotoTyped DEF CheckDefault, TypeOK, files
<1>3. CASE LockAndDelete(p)
  <2>1. work[p].name \in Names
    BY <1>3 DEF LockAndDelete, At, NamedInv
  <2>2. dir[Live(work[p].name)].storage \subseteq Parts
    BY <2>1, EntryFacts DEF TypeOK, Dirs
  <2>3. work' \in [Procs -> Works]
    BY <1>3, <2>2, TodoTyped DEF LockAndDelete, Todos
  <2> QED BY <1>3, <2>1, <2>3, LockTyped DEF LockAndDelete, TypeOK, files
<1>4. CASE \E f \in Parts \cup {"config.json"} : Unlink(p, f)
  <2> PICK f \in Parts \cup {"config.json"} : Unlink(p, f)
    BY <1>4
  <2>1. Live(work[p].name) \in Entries
    BY EntryFacts DEF Unlink, At, NamedInv
  <2>2. dir' \in [Entries -> Dirs]
    BY <2>1 DEF Unlink, TypeOK, Dirs
  <2>3. work' \in [Procs -> Works]
    <3>1. work[p].todo \ {f} \in Todos
      BY TodoTyped DEF Todos
    <3> QED BY <3>1, TodoTyped DEF Unlink
  <2> QED BY <2>2, <2>3 DEF Unlink, TypeOK
<1>5. CASE Rmdir(p)
  <2>1. Live(work[p].name) \in Entries
    BY <1>5, EntryFacts DEF Rmdir, At, NamedInv
  <2>2. NoDir \in Dirs
    BY DEF NoDir, Dirs
  <2> QED BY <1>5, <2>1, <2>2, DirTyped, GotoTyped DEF Rmdir, DirStep, TypeOK
<1>6. CASE DeleteFails(p)
  BY <1>6, ExitTyped DEF DeleteFails
<1> QED BY <1>1, <1>2, <1>3, <1>4, <1>5, <1>6 DEF Delete

LEMMA RenameTyped ==
    ASSUME TypeOK, NamedInv, NEW p \in Procs, RenameCommand(p)
    PROVE  TypeOK'
<1>1. CASE \E n \in Names, to \in RenameTargets :
              to # Live(n) /\ StartOpen(p, "rename", "lock", n, to)
  <2>1. RenameTargets \subseteq [name : Names \cup {NoName}, stage : BOOLEAN]
    BY EntryFacts, InventoryAssumption DEF InventoryAssumption
  <2> QED BY <1>1, <2>1, StartTyped DEF StartOpen
<1>2. CASE LockForRename(p)
  <2>1. work[p].name \in Names
    BY <1>2 DEF LockForRename, At, NamedInv
  <2> QED BY <1>2, <2>1, LockTyped, GotoTyped DEF LockForRename, TypeOK, files
<1>3. CASE IsDefaultContainer(p)
  <2>1. work' \in [Procs -> Works]
    <3>1. CASE DefaultGone
      BY <1>3, <3>1, GotoTyped DEF IsDefaultContainer
    <3>2. CASE ~DefaultGone
      <4>1. (default = work[p].name) \in BOOLEAN /\ work[p] \in Works
        BY DEF TypeOK
      <4>2. [work[p] EXCEPT !.pc = "move", !.was = (default = work[p].name)] \in Works
        BY <4>1 DEF Works
      <4> QED BY <1>3, <3>2, <4>2 DEF IsDefaultContainer, TypeOK
    <3> QED BY <3>1, <3>2
  <2> QED BY <1>3, <2>1 DEF IsDefaultContainer, TypeOK, files
<1>4. CASE Rename(p)
  <2>1. Live(work[p].name) \in Entries /\ work[p].to \in Entries
    BY <1>4, EntryFacts, InventoryAssumption
    DEF Rename, At, NamedInv, InventoryAssumption
  <2>2. NoDir \in Dirs
    BY DEF NoDir, Dirs
  <2>3. dir' \in [Entries -> Dirs]
    BY <1>4, <2>1, <2>2 DEF Rename, TypeOK
  <2>4. work' \in [Procs -> Works]
    BY <1>4, GotoTyped DEF Rename
  <2> QED BY <1>4, <2>3, <2>4 DEF Rename, TypeOK
<1>5. CASE RenameFails(p)
  BY <1>5, ExitTyped DEF RenameFails
<1> QED BY <1>1, <1>2, <1>3, <1>4, <1>5 DEF RenameCommand

LEMMA ListTyped ==
    ASSUME TypeOK, NEW p \in Procs, List(p)
    PROVE  TypeOK'
<1>1. CASE StartList(p)
  <2>1. [Idle EXCEPT !.pc = "list", !.cmd = "list",
                     !.todo = {n \in Names : dir[Live(n)].id # 0}] \in Works
    BY DEF Idle, Works
  <2>2. commands' \in 0..MaxCommands
    BY <1>1, InventoryAssumption DEF StartList, TypeOK, InventoryAssumption
  <2> QED BY <1>1, <2>1, <2>2 DEF StartList, TypeOK, files
<1>2. CASE \E n \in Names : ListItem(p, n)
  <2>1. work' \in [Procs -> Works]
    <3> PICK n \in Names : ListItem(p, n)
      BY <1>2
    <3>1. work[p].todo \ {n} \in Todos
      BY TodoTyped DEF Todos
    <3>2. work' = [work EXCEPT ![p].todo = work[p].todo \ {n},
                               ![p].pc = IF work[p].todo = {n} THEN "done" ELSE "list"]
      BY DEF ListItem, At
    <3> QED BY <3>1, <3>2, TodoTyped
  <2> QED BY <1>2, <2>1 DEF ListItem, TypeOK, files
<1>3. CASE ListFails(p)
  BY <1>3, ExitTyped DEF ListFails
<1> QED BY <1>1, <1>2, <1>3 DEF List

LEMMA NextTyped == TypeOK /\ NamedInv /\ [Next]_vars => TypeOK'
<1> SUFFICES ASSUME TypeOK, NamedInv, [Next]_vars PROVE TypeOK'
  OBVIOUS
<1>1. CASE Next
  <2> PICK p \in Procs : \/ Create(p) \/ SetDefaultContainer(p) \/ Delete(p)
                         \/ RenameCommand(p) \/ List(p) \/ Die(p)
    BY <1>1 DEF Next
  <2> QED BY CreateTyped, SetDefaultTyped, DeleteTyped, RenameTyped, ListTyped,
             ExitTyped DEF Die
<1>2. CASE UNCHANGED vars
  BY <1>2 DEF vars, TypeOK
<1> QED BY <1>1, <1>2

-----------------------------------------------------------------------------
(***************************************************************************)
(* The commands and the names they are given                               *)
(***************************************************************************)
\* Every step of p leaves the work of the others alone, and a step that is
\* not the first one of a command keeps its command and its names.
Steps(p) == /\ \A q \in Procs : q # p => work'[q] = work[q]
            /\ \/ At(p, "idle")
               \/ work'[p] = Idle
               \/ /\ work'[p].cmd = work[p].cmd
                  /\ work'[p].name = work[p].name
                  /\ work'[p].to = work[p].to

LEMMA GotoSteps ==
    ASSUME TypeOK, NEW p \in Procs, NEW pc, Goto(p, pc)
    PROVE  Steps(p) /\ work'[p].pc = pc
  BY DEF TypeOK, Works, Goto, Steps

LEMMA ExitSteps ==
    ASSUME TypeOK, NEW p \in Procs, Fails(p)
    PROVE  Steps(p) /\ work'[p] = Idle
  BY DEF TypeOK, Fails, Exit, Steps

LEMMA StartSteps ==
    ASSUME TypeOK, NEW p \in Procs, NEW cmd, NEW pc, NEW n, NEW to,
           Start(p, cmd, pc, n, to)
    PROVE  /\ Steps(p)
           /\ work'[p].pc = pc /\ work'[p].cmd = cmd
           /\ work'[p].name = n /\ work'[p].to = to
           /\ UNCHANGED <<dir, locked>>
  BY DEF TypeOK, Start, Steps, Idle, files

LEMMA NamedKept ==
    ASSUME NamedInv, NEW p \in Procs, Steps(p),
           \/ work'[p] = Idle
           \/ /\ ~At(p, "idle")
              /\ work'[p].pc \in {"stage", "mkdir", "config", "extract", "unstage", "default"}
                    => work[p].cmd = "create"
              /\ work'[p].pc \in {"confirm", "unlink"} => work[p].cmd = "delete"
              /\ work'[p].pc \in {"isdefault", "move"} => work[p].cmd = "rename"
              /\ work'[p].pc \notin {"create", "check", "lock"}
    PROVE  NamedInv'
  BY DEF NamedInv, Steps, Idle, At

LEMMA InitNamed == Init => NamedInv
  BY DEF Init, NamedInv, Idle

LEMMA CreateNamed ==
    ASSUME TypeOK, NamedInv, NEW p \in Procs, Create(p)
    PROVE  NamedInv' /\ Steps(p)
<1>1. CASE \E n \in Names : StartCreate(p, n)
  BY <1>1, StartSteps DEF StartCreate, NamedInv, Steps
<1>2. CASE CheckNew(p)
  BY <1>2, GotoSteps, NamedKept DEF CheckNew, NamedInv, At
<1>3. CASE ResetStage(p)
  BY <1>3, GotoSteps, NamedKept DEF ResetStage, DirStep, NamedInv, At
<1>4. CASE MakeStage(p)
  BY <1>4, GotoSteps, NamedKept DEF MakeStage, NamedInv, At
<1>5. CASE WriteNewConfig(p)
  <2>1. Steps(p) /\ work'[p].pc = "extract"
    BY <1>5 DEF WriteNewConfig, TypeOK, Works, Steps
  <2> QED BY <1>5, <2>1, NamedKept DEF WriteNewConfig, NamedInv, At
<1>6. CASE SaveImage(p)
  <2>1. Steps(p) /\ work'[p].pc \in {"extract", "unstage"}
    BY <1>6 DEF SaveImage, TypeOK, Works, Steps, At
  <2> QED BY <1>6, <2>1, NamedKept DEF SaveImage, NamedInv, At
<1>7. CASE Unstage(p)
  BY <1>7, GotoSteps, NamedKept DEF Unstage, NamedInv, At
<1>8. CASE DefaultIfNone(p)
  BY <1>8, GotoSteps, NamedKept DEF DefaultIfNone, NamedInv, At
<1>9. CASE CreateFails(p)
  BY <1>9, ExitSteps, NamedKept DEF CreateFails
<1> QED BY <1>1, <1>2, <1>3, <1>4, <1>5, <1>6, <1>7, <1>8, <1>9 DEF Create

LEMMA SetDefaultNamed ==
    ASSUME TypeOK, NamedInv, NEW p \in Procs, SetDefaultContainer(p)
    PROVE  NamedInv' /\ Steps(p)
<1>1. CASE \E n \in Names \cup {NoName} : Start(p, "set-default", "open", n, Idle.to)
  BY <1>1, StartSteps DEF NamedInv, Steps
<1>2. CASE OpenDefault(p)
  BY <1>2, GotoSteps, NamedKept DEF OpenDefault, At
<1>3. CASE RemoveDefaultTmp(p)
  BY <1>3, GotoSteps, NamedKept DEF RemoveDefaultTmp, At
<1>4. CASE SymlinkDefaultTmp(p)
  BY <1>4, GotoSteps, NamedKept DEF SymlinkDefaultTmp, At
<1>5. CASE RenameDefaultTmp(p)
  BY <1>5, GotoSteps, NamedKept DEF RenameDefaultTmp, At
<1>6. CASE UnsetDefault(p)
  BY <1>6, GotoSteps, NamedKept DEF UnsetDefault, At
<1>7. CASE SetDefaultFails(p)
  BY <1>7, ExitSteps, NamedKept DEF SetDefaultFails
<1> QED BY <1>1, <1>2, <1>3, <1>4, <1>5, <1>6, <1>7 DEF SetDefaultContainer

LEMMA DeleteNamed ==
    ASSUME TypeOK, NamedInv, NEW p \in Procs, Delete(p)
    PROVE  NamedInv' /\ Steps(p)
<1>1. CASE \E n \in Names : StartOpen(p, "delete", "check", n, Idle.to)
  BY <1>1, StartSteps DEF StartOpen, NamedInv, Steps
<1>2. CASE CheckDefault(p)
  BY <1>2, GotoSteps, NamedKept DEF CheckDefault, NamedInv, At
<1>3. CASE LockAndDelete(p)
  <2>1. Steps(p) /\ work'[p].pc = "unlink"
    BY <1>3 DEF LockAndDelete, TypeOK, Works, Steps
  <2> QED BY <1>3, <2>1, NamedKept DEF LockAndDelete, NamedInv, At
<1>4. CASE \E f \in Parts \cup {"config.json"} : Unlink(p, f)
  <2>1. Steps(p) /\ work'[p].pc = "unlink"
    BY <1>4 DEF Unlink, TypeOK, Works, Steps, At
  <2> QED BY <1>4, <2>1, NamedKept DEF Unlink, NamedInv, At
<1>5. CASE Rmdir(p)
  BY <1>5, GotoSteps, NamedKept DEF Rmdir, DirStep, At
<1>6. CASE DeleteFails(p)
  BY <1>6, ExitSteps, NamedKept DEF DeleteFails
<1> QED BY <1>1, <1>2, <1>3, <1>4, <1>5, <1>6 DEF Delete

LEMMA RenameNamed ==
    ASSUME TypeOK, NamedInv, NEW p \in Procs, RenameCommand(p)
    PROVE  NamedInv' /\ Steps(p)
<1>1. CASE \E n \in Names, to \in RenameTargets :
              to # Live(n) /\ StartOpen(p, "rename", "lock", n, to)
  BY <1>1, StartSteps DEF StartOpen, NamedInv, Steps
<1>2. CASE LockForRename(p)
  BY <1>2, GotoSteps, NamedKept DEF LockForRename, NamedInv, At
<1>3. CASE IsDefaultContainer(p)
  <2>1. Steps(p) /\ work'[p].pc \in {"panic", "move"}
    BY <1>3 DEF IsDefaultContainer, Goto, TypeOK, Works, Steps
  <2> QED BY <1>3, <2>1, NamedKept DEF IsDefaultContainer, NamedInv, At
<1>4. CASE Rename(p)
  BY <1>4, GotoSteps, NamedKept DEF Rename, At
<1>5. CASE RenameFails(p)
  BY <1>5, ExitSteps, NamedKept DEF RenameFails
<1> QED BY <1>1, <1>2, <1>3, <1>4, <1>5 DEF RenameCommand

LEMMA ListNamed ==
    ASSUME TypeOK, NamedInv, NEW p \in Procs, List(p)
    PROVE  NamedInv' /\ Steps(p)
<1>1. CASE StartList(p)
  <2>1. Steps(p) /\ work'[p].pc = "list" /\ work'[p].cmd = "list"
    BY <1>1 DEF StartList, TypeOK, Steps, Idle
  <2> QED BY <2>1 DEF NamedInv, Steps
<1>2. CASE \E n \in Names : ListItem(p, n)
  <2>1. Steps(p) /\ work'[p].pc \in {"list", "done"}
    BY <1>2 DEF ListItem, TypeOK, Works, Steps, At
  <2> QED BY <1>2, <2>1, NamedKept DEF ListItem, At
<1>3. CASE ListFails(p)
  BY <1>3, ExitSteps, NamedKept DEF ListFails
<1> QED BY <1>1, <1>2, <1>3 DEF List

-----------------------------------------------------------------------------
(***************************************************************************)
(* The full lock                                                           *)
(***************************************************************************)
\* p changes no container of the inventory but the one it has the lock of.
Untouched(n) == dir[Live(n)].id # 0 => dir'[Live(n)] = dir[Live(n)]
Touches(p) == \A n \in Names :
    Untouched(n) \/ (work[p].pc \in Holding /\ work[p].name = n /\ work'[p] # work[p])

\* A step that takes no lock and leaves the containers where they are.
LEMMA HolderKept ==
    ASSUME NamedInv, HolderInv, NEW p \in Procs, Steps(p),
           locked' = locked,
           \A n \in Names : Untouched(n) \/ dir'[Live(n)].id = dir[Live(n)].id,
           work'[p].pc \in Holding => work[p].pc \in Holding
    PROVE  HolderInv'
<1>1. \A q \in Procs : work[q].pc \in Holding => work[q].name \in Names
  BY DEF NamedInv, Holding
<1>2. ASSUME NEW q \in Procs, work'[q].pc \in Holding
      PROVE  work[q].pc \in Holding /\ work'[q].name = work[q].name
  BY <1>2 DEF Steps, At, Idle, Holding
<1> QED BY <1>1, <1>2 DEF HolderInv, Untouched

LEMMA HolderExit ==
    ASSUME TypeOK, HolderInv, NEW p \in Procs, Fails(p)
    PROVE  HolderInv' /\ Touches(p)
<1>1. work'[p].pc \notin Holding /\ locked'[p] = 0 /\ UNCHANGED dir
  BY DEF Fails, Exit, TypeOK, Idle, Holding, files
<1>2. \A q \in Procs : q # p => locked'[q] = locked[q] /\ work'[q] = work[q]
  BY DEF Fails, Exit, TypeOK
<1> QED BY <1>1, <1>2 DEF HolderInv, Touches, Untouched

\* A step that takes the lock: it is nobody's, and the path leads to it.
LEMMA HolderLocks ==
    ASSUME TypeOK, HolderInv, NEW p \in Procs, Lock(p), Steps(p), UNCHANGED dir,
           work'[p].name = work[p].name
    PROVE  HolderInv' /\ Touches(p)
<1>1. /\ locked'[p] = dir[Live(work[p].name)].id
      /\ locked'[p] # 0
      /\ \A q \in Procs : locked[q] # locked'[p]
      /\ \A q \in Procs : q # p => locked'[q] = locked[q] /\ work'[q] = work[q]
  BY DEF Lock, Lockable, TypeOK, Steps
<1> QED BY <1>1 DEF HolderInv, Touches, Untouched

LEMMA InitHolder == Init => HolderInv
  BY DEF Init, HolderInv, Idle, Holding

LEMMA CreateHolds ==
    ASSUME TypeOK, NamedInv, HolderInv, NEW p \in Procs, Create(p)
    PROVE  HolderInv' /\ Touches(p)
<1>1. CASE CreateFails(p)
  BY <1>1, HolderExit DEF CreateFails
<1>2. CASE ~CreateFails(p)
  <2>1. locked' = locked
    BY <1>2 DEF Create, StartCreate, Start, CheckNew, ResetStage, DirStep, MakeStage,
                WriteNewConfig, SaveImage, Unstage, DefaultIfNone
  <2>2. work'[p].pc \notin Holding
    <3>1. CASE \E n \in Names : StartCreate(p, n)
      BY <3>1, StartSteps DEF StartCreate, Holding
    <3>2. CASE CheckNew(p) \/ ResetStage(p) \/ MakeStage(p) \/ Unstage(p) \/ DefaultIfNone(p)
      <4>1. \E pc \in {"stage", "mkdir", "config", "default", "open", "done"} : Goto(p, pc)
        BY <3>2 DEF CheckNew, ResetStage, DirStep, MakeStage, Unstage, DefaultIfNone
      <4> QED BY <4>1, GotoSteps DEF Holding
    <3>3. CASE WriteNewConfig(p) \/ SaveImage(p)
      BY <3>3 DEF WriteNewConfig, SaveImage, TypeOK, Works, Holding, At
    <3> QED BY <1>2, <3>1, <3>2, <3>3 DEF Create
  <2>3. \A n \in Names : Untouched(n)
    <3>1. CASE ResetStage(p) \/ MakeStage(p) \/ WriteNewConfig(p) \/ SaveImage(p)
      <4>1. work[p].name \in Names
        BY <3>1 DEF NamedInv, ResetStage, MakeStage, WriteNewConfig, SaveImage, At
      <4>2. \A n \in Names : dir'[Live(n)] = dir[Live(n)]
        BY <3>1, <4>1, EntryFacts
        DEF TypeOK, ResetStage, DirStep, MakeStage, WriteNewConfig, SaveImage
      <4> QED BY <4>2 DEF Untouched
    <3>2. CASE Unstage(p)
      <4>1. work[p].name \in Names
        BY <3>2 DEF NamedInv, Unstage, At
      <4> QED BY <3>2, <4>1, EntryFacts DEF TypeOK, Unstage, Untouched
    <3>3. CASE (\E n \in Names : StartCreate(p, n)) \/ CheckNew(p) \/ DefaultIfNone(p)
      BY <3>3 DEF StartCreate, Start, CheckNew, DefaultIfNone, files, Untouched
    <3> QED BY <1>2, <3>1, <3>2, <3>3 DEF Create
  <2>4. Steps(p)
    BY CreateNamed
  <2> QED BY <2>1, <2>2, <2>3, <2>4, HolderKept DEF Touches
<1> QED BY <1>1, <1>2

LEMMA SetDefaultHolds ==
    ASSUME TypeOK, NamedInv, HolderInv, NEW p \in Procs, SetDefaultContainer(p)
    PROVE  HolderInv' /\ Touches(p)
<1>1. CASE SetDefaultFails(p)
  BY <1>1, HolderExit DEF SetDefaultFails
<1>2. CASE ~SetDefaultFails(p)
  <2>1. locked' = locked /\ UNCHANGED dir
    BY <1>2 DEF SetDefaultContainer, Start, OpenDefault, RemoveDefaultTmp,
                SymlinkDefaultTmp, RenameDefaultTmp, UnsetDefault, files
  <2>2. work'[p].pc \notin Holding
    <3>1. CASE \E n \in Names \cup {NoName} : Start(p, "set-default", "open", n, Idle.to)
      BY <3>1, StartSteps DEF Holding
    <3>2. CASE \E pc \in {"remove", "symlink", "rename", "done"} : Goto(p, pc)
      BY <3>2, GotoSteps DEF Holding
    <3> QED BY <1>2, <3>1, <3>2 DEF SetDefaultContainer, OpenDefault, RemoveDefaultTmp,
                SymlinkDefaultTmp, RenameDefaultTmp, UnsetDefault
  <2>3. Steps(p)
    BY SetDefaultNamed
  <2> QED BY <2>1, <2>2, <2>3, HolderKept DEF Touches, Untouched
<1> QED BY <1>1, <1>2

LEMMA DeleteHolds ==
    ASSUME TypeOK, NamedInv, HolderInv, NEW p \in Procs, Delete(p)
    PROVE  HolderInv' /\ Touches(p)
<1> USE DeleteNamed
<1>1. CASE \E n \in Names : StartOpen(p, "delete", "check", n, Idle.to)
  <2>1. work'[p].pc \notin Holding /\ UNCHANGED <<dir, locked>>
    BY <1>1, StartSteps DEF StartOpen, Holding
  <2> QED BY <2>1, HolderKept DEF Touches, Untouched
<1>2. CASE CheckDefault(p)
  <2>1. work'[p].pc \notin Holding /\ UNCHANGED <<dir, locked>>
    BY <1>2, GotoSteps DEF CheckDefault, files, Holding
  <2> QED BY <2>1, HolderKept DEF Touches, Untouched
<1>3. CASE LockAndDelete(p)
  <2>1. work'[p].name = work[p].name
    BY <1>3 DEF LockAndDelete, TypeOK
  <2> QED BY <1>3, <2>1, HolderLocks DEF LockAndDelete, files
<1>4. CASE \E f \in Parts \cup {"config.json"} : Unlink(p, f)
  <2> PICK f \in Parts \cup {"config.json"} : Unlink(p, f)
    BY <1>4
  <2>1. work[p].name \in Names /\ work[p].pc \in Holding
    BY DEF Unlink, At, NamedInv, Holding
  <2>2. work'[p] # work[p]
    <3>1. work'[p].todo = work[p].todo \ {f} /\ f \in work[p].todo
      BY DEF Unlink, TypeOK
    <3> QED BY <3>1
  <2>3. \A n \in Names : /\ n # work[p].name => dir'[Live(n)] = dir[Live(n)]
                         /\ dir'[Live(n)].id = dir[Live(n)].id
    BY <2>1, EntryFacts DEF Unlink, TypeOK, Dirs
  <2>4. locked' = locked
    BY DEF Unlink
  <2> QED BY <2>1, <2>2, <2>3, <2>4, HolderKept DEF Touches, Untouched
<1>5. CASE Rmdir(p)
  <2>1. /\ work[p].name \in Names /\ work[p].pc \in Holding
        /\ work'[p].pc = "done" /\ locked' = locked
    BY <1>5, GotoSteps DEF Rmdir, DirStep, At, NamedInv, Holding
  <2>2. \A n \in Names : n # work[p].name => dir'[Live(n)] = dir[Live(n)]
    BY <1>5, <2>1, EntryFacts DEF Rmdir, DirStep, TypeOK
  <2>3. ASSUME NEW q \in Procs, q # p, work[q].pc \in Holding
        PROVE  work[q].name # work[p].name /\ work[q].name \in Names
    BY <2>1, <2>3 DEF HolderInv, NamedInv, Holding
  <2>4. HolderInv'
    BY <2>1, <2>2, <2>3 DEF HolderInv, Steps, Holding
  <2>5. work'[p] # work[p]
    BY <1>5, <2>1 DEF Rmdir, At
  <2> QED BY <2>1, <2>2, <2>4, <2>5 DEF Touches, Untouched
<1>6. CASE DeleteFails(p)
  BY <1>6, HolderExit DEF DeleteFails
<1> QED BY <1>1, <1>2, <1>3, <1>4, <1>5, <1>6 DEF Delete

LEMMA RenameHolds ==
    ASSUME TypeOK, NamedInv, HolderInv, NEW p \in Procs, RenameCommand(p)
    PROVE  HolderInv' /\ Touches(p)
<1> USE RenameNamed
<1>1. CASE \E n \in Names, to \in RenameTargets :
              to # Live(n) /\ StartOpen(p, "rename", "lock", n, to)
  <2>1. work'[p].pc \notin Holding /\ UNCHANGED <<dir, locked>>
    BY <1>1, StartSteps DEF StartOpen, Holding
  <2> QED BY <2>1, HolderKept DEF Touches, Untouched
<1>2. CASE LockForRename(p)
  <2>1. work'[p].name = work[p].name
    BY <1>2 DEF LockForRename, Goto, TypeOK
  <2> QED BY <1>2, <2>1, HolderLocks DEF LockForRename, files
<1>3. CASE IsDefaultContainer(p)
  <2>1. work[p].pc \in Holding /\ UNCHANGED <<dir, locked>>
    BY <1>3 DEF IsDefaultContainer, At, Holding, files
  <2> QED BY <2>1, HolderKept DEF Touches, Untouched
<1>4. CASE Rename(p)
  <2>1. /\ work[p].name \in Names /\ work[p].pc \in Holding /\ work[p].pc = "move"
        /\ work[p].to \in Entries
        /\ work'[p].pc \in {"open", "done"} /\ locked' = locked
    BY <1>4, GotoSteps, InventoryAssumption
    DEF Rename, At, NamedInv, Holding, InventoryAssumption
  <2>2. \A n \in Names : n # work[p].name => Untouched(n)
    BY <1>4, <2>1, EntryFacts DEF Rename, TypeOK, Untouched
  <2>3. ASSUME NEW q \in Procs, q # p, work[q].pc \in Holding
        PROVE  work[q].name # work[p].name /\ work[q].name \in Names
    BY <2>1, <2>3 DEF HolderInv, NamedInv, Holding
  <2>4. HolderInv'
    BY <2>1, <2>2, <2>3 DEF HolderInv, Steps, Holding, Untouched
  <2>5. work'[p] # work[p]
    BY <2>1
  <2> QED BY <2>1, <2>2, <2>4, <2>5 DEF Touches
<1>5. CASE RenameFails(p)
  BY <1>5, HolderExit DEF RenameFails
<1> QED BY <1>1, <1>2, <1>3, <1>4, <1>5 DEF RenameCommand

LEMMA ListHolds ==
    ASSUME TypeOK, NamedInv, HolderInv, NEW p \in Procs, List(p)
    PROVE  HolderInv' /\ Touches(p)
<1>1. CASE StartList(p) \/ \E n \in Names : ListItem(p, n)
  <2>1. work'[p].pc \in {"list", "done"} /\ UNCHANGED <<dir, locked>>
    <3>1. CASE StartList(p)
      BY <3>1 DEF StartList, TypeOK, Idle, files
    <3>2. CASE \E n \in Names : ListItem(p, n)
      BY <3>2 DEF ListItem, TypeOK, Works, files, At
    <3> QED BY <1>1, <3>1, <3>2
  <2> QED BY <2>1, ListNamed, HolderKept DEF Touches, Untouched, Holding
<1>2. CASE ListFails(p)
  BY <1>2, HolderExit DEF ListFails
<1> QED BY <1>1, <1>2 DEF List

\* The invariant behind the lock.
Sound == TypeOK /\ NamedInv /\ HolderInv

LEMMA ProcStep ==
    ASSUME Sound, NEW p \in Procs,
           \/ Create(p) \/ SetDefaultContainer(p) \/ Delete(p)
           \/ RenameCommand(p) \/ List(p) \/ Die(p)
    PROVE  Sound' /\ Touches(p) /\ Steps(p)
<1>1. CASE Die(p)
  <2>1. Fails(p)
    BY <1>1 DEF Die
  <2>2. NamedInv' /\ Steps(p)
    BY <2>1, ExitSteps, NamedKept DEF Sound
  <2> QED BY <2>1, <2>2, ExitTyped, HolderExit DEF Sound
<1>2. CASE Create(p)
  BY <1>2, CreateTyped, CreateNamed, CreateHolds DEF Sound
<1>3. CASE SetDefaultContainer(p)
  BY <1>3, SetDefaultTyped, SetDefaultNamed, SetDefaultHolds DEF Sound
<1>4. CASE Delete(p)
  BY <1>4, DeleteTyped, DeleteNamed, DeleteHolds DEF Sound
<1>5. CASE RenameCommand(p)
  BY <1>5, RenameTyped, RenameNamed, RenameHolds DEF Sound
<1>6. CASE List(p)
  BY <1>6, ListTyped, ListNamed, ListHolds DEF Sound
<1> QED BY <1>1, <1>2, <1>3, <1>4, <1>5, <1>6

LEMMA SoundNext == Sound /\ [Next]_vars => Sound'
<1> SUFFICES ASSUME Sound, [Next]_vars PROVE Sound'
  OBVIOUS
<1>1. CASE Next
  BY <1>1, ProcStep DEF Next
<1>2. CASE UNCHANGED vars
  BY <1>2 DEF vars, Sound, TypeOK, NamedInv, HolderInv
<1> QED BY <1>1, <1>2

LEMMA Soundness == Spec => []Sound
<1>1. Init => Sound
  BY InitTyped, InitNamed, InitHolder DEF Sound
<1> QED BY <1>1, SoundNext, PTL DEF Spec

-----------------------------------------------------------------------------
(***************************************************************************)
(* The stage                                                               *)
(***************************************************************************)
\* What a create has put into its stage so far, if no other create has taken
\* the stage away since it began to fill it.
Filled(p) ==
    LET d == dir[Staged(work[p].name)]
    IN  /\ At(p, "extract") => /\ d.id # 0 /\ d.config
                              /\ "rest" \in work[p].todo
                              /\ "first" \in work[p].todo \cup d.storage
        /\ At(p, "unstage") => d.id # 0 /\ Complete(d)

StageInv == \A p \in Procs \ cut : Filled(p)

\* The steps of p that change directories.
Stages(p) == ResetStage(p) \/ MakeStage(p) \/ WriteNewConfig(p) \/ SaveImage(p)
Destroys(p) == (\E f \in Parts \cup {"config.json"} : Unlink(p, f)) \/ Rmdir(p)
Moves(p) == Stages(p) \/ Unstage(p) \/ Destroys(p) \/ Rename(p)

\* The steps of p.
Step(p) == \/ Create(p) \/ SetDefaultContainer(p) \/ Delete(p)
           \/ RenameCommand(p) \/ List(p) \/ Die(p)

\* All other steps leave the directories alone, and begin no work on a stage.
LEMMA StillSteps ==
    ASSUME Sound, NEW p \in Procs, Step(p), ~Moves(p)
    PROVE  /\ UNCHANGED <<dir, cut>>
           /\ work'[p].pc \notin {"extract", "unstage"}
<1>1. CASE \E cmd \in {"create", "set-default", "delete", "rename"},
             pc \in {"create", "open", "check", "lock"} :
             \E n, to : Start(p, cmd, pc, n, to)
  <2> PICK cmd \in {"create", "set-default", "delete", "rename"},
           pc \in {"create", "open", "check", "lock"} :
             \E n, to : Start(p, cmd, pc, n, to)
    BY <1>1
  <2> PICK n, to : Start(p, cmd, pc, n, to)
    OBVIOUS
  <2>1. cut' = cut
    BY DEF Start
  <2>2. UNCHANGED dir /\ work'[p].pc = pc
    BY StartSteps DEF Sound
  <2> QED BY <2>1, <2>2
<1>2. CASE \E pc \in {"stage", "open", "done", "remove", "symlink", "rename", "confirm",
                     "isdefault", "panic"} : Goto(p, pc) /\ UNCHANGED <<dir, cut>>
  BY <1>2, GotoSteps DEF Sound
<1>3. CASE Fails(p)
  BY <1>3, ExitSteps DEF Sound, Fails, files, Idle
<1>4. CASE LockAndDelete(p)
  BY <1>4 DEF LockAndDelete, files, Sound, TypeOK, NamedInv, At
<1>5. CASE IsDefaultContainer(p) /\ ~DefaultGone
  <2>1. work'[p].pc = "move"
    BY <1>5 DEF IsDefaultContainer, Sound, TypeOK, Works
  <2> QED BY <1>5, <2>1 DEF IsDefaultContainer, files
<1>6. CASE StartList(p)
  BY <1>6 DEF StartList, files, Sound, TypeOK, Idle
<1>7. CASE \E n \in Names : ListItem(p, n)
  <2>1. work'[p].pc \in {"list", "done"}
    BY <1>7 DEF ListItem, Sound, TypeOK, Works, At
  <2> QED BY <1>7, <2>1 DEF ListItem, files
<1>8. CASE Create(p)
  BY <1>1, <1>2, <1>3, <1>8
  DEF Create, Moves, Stages, StartCreate, CheckNew, DefaultIfNone, CreateFails, files
<1>9. CASE SetDefaultContainer(p)
  BY <1>1, <1>2, <1>3, <1>9
  DEF SetDefaultContainer, OpenDefault, RemoveDefaultTmp, SymlinkDefaultTmp,
      RenameDefaultTmp, UnsetDefault, SetDefaultFails, files
<1>10. CASE Delete(p)
  BY <1>1, <1>2, <1>3, <1>4, <1>10
  DEF Delete, Moves, Destroys, StartOpen, CheckDefault, DeleteFails, files
<1>11. CASE RenameCommand(p)
  BY <1>1, <1>2, <1>3, <1>5, <1>11
  DEF RenameCommand, Moves, StartOpen, LockForRename, IsDefaultContainer, RenameFails, files
<1>12. CASE List(p) \/ Die(p)
  BY <1>3, <1>6, <1>7, <1>12 DEF List, ListFails, Die
<1> QED BY <1>8, <1>9, <1>10, <1>11, <1>12 DEF Step

\* Only a create of its own takes a process out of cut.
LEMMA CutKept ==
    ASSUME Sound, NEW p \in Procs, Step(p), NEW q \in Procs \ cut', q # p
    PROVE  q \notin cut
<1>1. CASE Moves(p)
  BY <1>1 DEF Moves, Stages, Destroys, ResetStage, MakeStage, WriteNewConfig, SaveImage,
              Unstage, Unlink, Rmdir, Rename
<1>2. CASE ~Moves(p)
  BY <1>2, StillSteps
<1> QED BY <1>1, <1>2

\* A step of p keeps what another create has put into its stage, or notes that
\* it took the stage away.
LEMMA OthersStages ==
    ASSUME Sound, NEW p \in Procs, Step(p), NEW q \in Procs \ cut', q # p,
           work[q].pc \in {"extract", "unstage"},
           dir[Staged(work[q].name)].id # 0
    PROVE  LET e == Staged(work[q].name)
           IN  /\ dir'[e].id # 0
               /\ dir[e].config => dir'[e].config
               /\ dir[e].storage \subseteq dir'[e].storage
<1> DEFINE e == Staged(work[q].name)
<1>1. dir \in [Entries -> Dirs] /\ work[q].name \in Names
  BY DEF Sound, TypeOK, NamedInv
<1>2. /\ e \in Entries /\ dir[e] \in Dirs
      /\ \A n \in Names : /\ Live(n) # e /\ Live(n) \in Entries /\ Staged(n) \in Entries
                          /\ Staged(n) = e => n = work[q].name
  BY <1>1, EntryFacts
<1>3. CASE ResetStage(p) \/ Unstage(p)
  <2>1. work[p].name \in Names
    BY <1>3 DEF ResetStage, Unstage, At, Sound, NamedInv
  <2>2. work[p].name # work[q].name
    BY <1>3 DEF ResetStage, Unstage, Filling
  <2>3. dir'[e] = dir[e]
    BY <1>1, <1>2, <1>3, <2>1, <2>2 DEF ResetStage, DirStep, Unstage
  <2> QED BY <2>3
<1>4. CASE MakeStage(p)
  <2>1. work[p].name \in Names
    BY <1>4 DEF MakeStage, At, Sound, NamedInv
  <2>2. dir'[e] = dir[e]
    BY <1>1, <1>2, <1>4, <2>1 DEF MakeStage
  <2> QED BY <2>2
<1>5. CASE WriteNewConfig(p)
  <2>1. work[p].name \in Names
    BY <1>5 DEF WriteNewConfig, At, Sound, NamedInv
  <2>2. dir'[e] \in {dir[e], [dir[e] EXCEPT !.config = TRUE]}
    BY <1>1, <1>2, <1>5, <2>1 DEF WriteNewConfig
  <2> QED BY <1>2, <2>2 DEF Dirs
<1>6. CASE SaveImage(p)
  <2> DEFINE part == IF "first" \in work[p].todo THEN "first" ELSE "rest"
  <2>1. work[p].name \in Names
    BY <1>6 DEF SaveImage, At, Sound, NamedInv
  <2>2. dir'[e] \in {dir[e], [dir[e] EXCEPT !.storage = @ \cup {part}]}
    BY <1>1, <1>2, <1>6, <2>1 DEF SaveImage
  <2> QED BY <1>2, <2>2 DEF Dirs
<1>7. CASE Destroys(p)
  <2>1. work[p].name \in Names
    BY <1>7 DEF Destroys, Unlink, Rmdir, At, Sound, NamedInv
  <2>2. dir'[e] = dir[e]
    BY <1>1, <1>2, <1>7, <2>1 DEF Destroys, Unlink, Rmdir, DirStep
  <2> QED BY <2>2
<1>8. CASE Rename(p)
  <2>1. work[p].name \in Names
    BY <1>8 DEF Rename, At, Sound, NamedInv
  <2>2. dir'[e] = dir[e]
    BY <1>1, <1>2, <1>8, <2>1 DEF Rename
  <2> QED BY <2>2
<1>9. CASE ~Moves(p)
  BY <1>9, StillSteps
<1> QED BY <1>3, <1>4, <1>5, <1>6, <1>7, <1>8, <1>9 DEF Moves, Stages

\* A create that fills its stage itself.
LEMMA OwnStage ==
    ASSUME Sound, StageInv, NEW p \in Procs \ cut', Step(p)
    PROVE  Filled(p)'
<1> DEFINE e == Staged(work[p].name)
<1>1. CASE WriteNewConfig(p)
  <2>1. e \in Entries /\ dir[e] \in Dirs
    BY <1>1, EntryFacts DEF WriteNewConfig, At, Sound, NamedInv, TypeOK
  <2>2. work'[p].pc = "extract" /\ work'[p].todo = Parts /\ work'[p].name = work[p].name
    BY <1>1 DEF WriteNewConfig, Sound, TypeOK, Works
  <2>3. dir'[e].config /\ dir'[e].id # 0
    BY <1>1, <2>1 DEF WriteNewConfig, Sound, TypeOK, Dirs
  <2> QED BY <2>2, <2>3 DEF At, Parts, Filled
<1>2. CASE SaveImage(p)
  <2> DEFINE part == IF "first" \in work[p].todo THEN "first" ELSE "rest"
  <2>1. e \in Entries /\ dir[e] \in Dirs
    BY <1>2, EntryFacts DEF SaveImage, At, Sound, NamedInv, TypeOK
  <2>2. /\ work'[p].todo = work[p].todo \ {part} /\ work'[p].name = work[p].name
        /\ work'[p].pc = IF part = "rest" THEN "unstage" ELSE "extract"
    BY <1>2 DEF SaveImage, Sound, TypeOK, Works, At
  <2>3. /\ dir'[e].config = dir[e].config /\ dir'[e].id = dir[e].id
        /\ dir'[e].storage = dir[e].storage \cup {part}
    BY <1>2, <2>1 DEF SaveImage, Sound, TypeOK, Dirs
  <2>4. p \notin cut /\ At(p, "extract")
    BY <1>2 DEF SaveImage
  <2>5. /\ dir[e].config /\ dir[e].id # 0 /\ "rest" \in work[p].todo
        /\ "first" \in work[p].todo \cup dir[e].storage
        /\ dir[e].storage \subseteq Parts
    BY <2>1, <2>4 DEF StageInv, Filled, Dirs
  <2>6. CASE "first" \in work[p].todo
    BY <2>2, <2>3, <2>5, <2>6 DEF At, Filled
  <2>7. CASE "first" \notin work[p].todo
    <3>1. dir'[e].storage = Parts
      BY <2>3, <2>5, <2>7 DEF Parts
    <3> QED BY <2>2, <2>3, <2>5, <2>7, <3>1 DEF At, Complete, Filled
  <2> QED BY <2>6, <2>7
<1>3. CASE ~WriteNewConfig(p) /\ ~SaveImage(p)
  <2>1. work'[p].pc \notin {"extract", "unstage"}
    <3>1. CASE ResetStage(p) \/ MakeStage(p) \/ Unstage(p) \/ Rmdir(p) \/ Rename(p)
      <4>1. \E pc \in {"mkdir", "config", "default", "done", "open"} : Goto(p, pc)
        BY <3>1 DEF ResetStage, MakeStage, Unstage, Rmdir, Rename, DirStep
      <4> QED BY <4>1, GotoSteps DEF Sound
    <3>2. CASE \E f \in Parts \cup {"config.json"} : Unlink(p, f)
      BY <3>2 DEF Unlink, Sound, TypeOK, Works, At
    <3>3. CASE ~Moves(p)
      BY <3>3, StillSteps
    <3> QED BY <1>3, <3>1, <3>2, <3>3 DEF Moves, Stages, Destroys
  <2> QED BY <2>1 DEF At, Filled
<1> QED BY <1>1, <1>2, <1>3

Whole == Sound /\ StageInv

LEMMA WholeStep ==
    ASSUME Whole, NEW p \in Procs, Step(p)
    PROVE  Whole'
<1>1. Sound' /\ Steps(p)
  BY ProcStep DEF Whole, Step
<1>2. ASSUME NEW q \in Procs, q \notin cut', q # p PROVE Filled(q)'
  <2> DEFINE e == Staged(work[q].name)
  <2>1. work'[q] = work[q]
    BY <1>1, <1>2 DEF Steps
  <2>2. CASE work[q].pc \in {"extract", "unstage"}
    <3>1. Filled(q)
      BY <1>2, CutKept DEF Whole, StageInv
    <3>2. dir[e].id # 0
      BY <2>2, <3>1 DEF Filled, At
    <3>3. /\ dir'[e].id # 0
          /\ dir[e].config => dir'[e].config
          /\ dir[e].storage \subseteq dir'[e].storage
      BY <1>2, <2>2, <3>2, OthersStages DEF Whole
    <3>4. dir'[e].storage \subseteq Parts
      <4>1. work[q].name \in Names
        BY <2>2 DEF Whole, Sound, NamedInv
      <4>2. dir'[e] \in Dirs
        BY <1>1, <4>1, EntryFacts DEF Sound, TypeOK
      <4> QED BY <4>2 DEF Dirs
    <3>5. Staged(work[q].name)' = e
      BY <2>1
    <3>6. CASE work[q].pc = "extract"
      <4>1. /\ dir'[e].id # 0 /\ dir'[e].config
            /\ "rest" \in work[q].todo
            /\ "first" \in work[q].todo \cup dir'[e].storage
        BY <3>1, <3>3, <3>6 DEF Filled, At
      <4> QED BY <2>1, <3>5, <3>6, <4>1 DEF Filled, At
    <3>7. CASE work[q].pc = "unstage"
      <4>1. dir'[e].id # 0 /\ dir'[e].config /\ dir'[e].storage = Parts
        BY <3>1, <3>3, <3>4, <3>7 DEF Filled, At, Complete
      <4> QED BY <2>1, <3>5, <3>7, <4>1 DEF Filled, At, Complete
    <3> QED BY <2>2, <3>6, <3>7
  <2>3. CASE work[q].pc \notin {"extract", "unstage"}
    BY <2>1, <2>3 DEF Filled, At
  <2> QED BY <2>2, <2>3
<1>3. p \notin cut' => Filled(p)'
  BY OwnStage DEF Whole
<1> QED BY <1>1, <1>2, <1>3 DEF Whole, StageInv

LEMMA WholeNext == Whole /\ [Next]_vars => Whole'
<1> SUFFICES ASSUME Whole, [Next]_vars PROVE Whole'
  OBVIOUS
<1>1. CASE Next
  BY <1>1, WholeStep DEF Next, Step
<1>2. CASE UNCHANGED vars
  BY <1>2 DEF vars, Whole, Sound, TypeOK, NamedInv, HolderInv, StageInv, Filled, At,
              Complete
<1> QED BY <1>1, <1>2

LEMMA Wholeness == Spec => []Whole
<1>1. Init => StageInv
  BY DEF Init, Idle, StageInv, Filled, At
<1>2. Init => Whole
  BY <1>1, InitTyped, InitNamed, InitHolder DEF Whole, Sound
<1> QED BY <1>2, WholeNext, PTL DEF Spec

-----------------------------------------------------------------------------
(***************************************************************************)
(* Theorems                                                                *)
(***************************************************************************)
\* Every variable of Inventory keeps its type, for any commands, names and
\* targets of rename.
THEOREM Typing == Spec => []TypeOK
<1>1. Sound => TypeOK
  BY DEF Sound
<1> QED BY <1>1, Soundness, PTL

\* Nothing in the inventory is changed, moved or removed but by the process
\* with its full lock, however many commands run and die: the lock is asked
\* for by path, and what the path leads to stays put until it is given back
\* (delete.go:75, rename.go:78-93).
THEOREM HolderTouches == Spec => OnlyHolderTouches
<1>1. Sound /\ [Next]_vars =>
        [\A n \in Names :
           dir[Live(n)].id # 0 /\ dir'[Live(n)] # dir[Live(n)] =>
              \E p \in Procs : /\ locked[p] = dir[Live(n)].id
                               /\ work'[p] # work[p]]_vars
  <2> SUFFICES ASSUME Sound, Next, NEW n \in Names,
                      dir[Live(n)].id # 0, dir'[Live(n)] # dir[Live(n)]
               PROVE  \E p \in Procs : /\ locked[p] = dir[Live(n)].id
                                       /\ work'[p] # work[p]
    OBVIOUS
  <2> PICK p \in Procs : Touches(p)
    BY ProcStep DEF Next
  <2>1. work[p].pc \in Holding /\ work[p].name = n /\ work'[p] # work[p]
    BY DEF Touches, Untouched
  <2> QED BY <2>1 DEF Sound, HolderInv
<1> QED BY <1>1, Soundness, PTL DEF Spec, OnlyHolderTouches

\* A create shows its container only once the configuration and all of the
\* image are in it, though it may take up the stage of one that died, share it
\* with another create, or find there what a rename put into it
\* (create.go:103-118).  The exception is the one of ArrivesComplete: a create
\* whose stage another one took away once it had begun to fill it
\* (container.go:146).
THEOREM Arrives == Spec => ArrivesComplete
<1>1. Whole /\ [Next]_vars =>
        [\A n \in Names :
           LET d == dir'[Live(n)]
           IN  d.id # 0 /\ d.id # dir[Live(n)].id =>
                  \/ Complete(d)
                  \/ \E m \in Names : dir[Live(m)].id = d.id
                  \/ \E p \in cut : /\ At(p, "unstage") /\ work[p].name = n
                                    /\ work'[p] # work[p]]_vars
  <2> SUFFICES ASSUME Whole, NEW p \in Procs, Step(p), NEW n \in Names,
                      dir'[Live(n)].id # 0, dir'[Live(n)].id # dir[Live(n)].id
               PROVE  \/ Complete(dir'[Live(n)])
                      \/ \E m \in Names : dir[Live(m)].id = dir'[Live(n)].id
                      \/ /\ p \in cut /\ At(p, "unstage") /\ work[p].name = n
                         /\ work'[p] # work[p]
    BY DEF Next, Step
  <2>1. dir \in [Entries -> Dirs] /\ \A m \in Names : Live(m) \in Entries
    BY EntryFacts DEF Whole, Sound, TypeOK
  <2>2. CASE Stages(p)
    <3>1. work[p].name \in Names
      BY <2>2 DEF Stages, ResetStage, MakeStage, WriteNewConfig, SaveImage, At, Whole,
                  Sound, NamedInv
    <3>2. dir'[Live(n)] = dir[Live(n)]
      BY <2>1, <2>2, <3>1, EntryFacts
      DEF Stages, ResetStage, DirStep, MakeStage, WriteNewConfig, SaveImage
    <3> QED BY <3>2
  <2>3. CASE Unstage(p)
    <3>1. work[p].name \in Names
      BY <2>3 DEF Unstage, At, Whole, Sound, NamedInv
    <3>2. work[p].name = n /\ dir'[Live(n)] = dir[Staged(n)]
      BY <2>1, <2>3, <3>1, EntryFacts DEF Unstage
    <3>3. At(p, "unstage") /\ work'[p] # work[p]
      BY <2>3, GotoSteps DEF Unstage, Whole, Sound, At
    <3>4. p \in cut \/ Complete(dir[Staged(n)])
      BY <3>2, <3>3 DEF Whole, StageInv, Filled
    <3> QED BY <3>2, <3>3, <3>4
  <2>4. CASE Destroys(p)
    <3>1. work[p].name \in Names
      BY <2>4 DEF Destroys, Unlink, Rmdir, At, Whole, Sound, NamedInv
    <3>2. CASE Rmdir(p)
      <4>1. dir'[Live(n)] \in {NoDir, dir[Live(n)]}
        BY <2>1, <3>1, <3>2 DEF Rmdir, DirStep
      <4> QED BY <4>1 DEF NoDir
    <3>3. CASE \E f \in Parts \cup {"config.json"} : Unlink(p, f)
      <4> DEFINE e == Live(work[p].name)
      <4> PICK f \in Parts \cup {"config.json"} : Unlink(p, f)
        BY <3>3
      <4>1. e \in Entries /\ dir[e] \in Dirs
        BY <2>1, <3>1
      <4>2. dir' = [dir EXCEPT ![e].storage = @ \ {f},
                               ![e].config = @ /\ f # "config.json"]
        BY DEF Unlink
      <4>3. dir'[e].id = dir[e].id /\ (Live(n) # e => dir'[Live(n)] = dir[Live(n)])
        BY <2>1, <4>1, <4>2 DEF Dirs
      <4> QED BY <4>3
    <3> QED BY <2>4, <3>2, <3>3 DEF Destroys
  <2>5. CASE Rename(p)
    <3>1. work[p].name \in Names /\ work[p].to \in Entries
      BY <2>5, InventoryAssumption
      DEF Rename, At, Whole, Sound, NamedInv, InventoryAssumption
    <3>2. dir'[Live(n)].id \in {0, dir[Live(n)].id, dir[Live(work[p].name)].id}
      BY <2>1, <2>5, <3>1 DEF Rename, NoDir
    <3> QED BY <3>1, <3>2
  <2>6. CASE ~Moves(p)
    BY <2>6, StillSteps DEF Whole
  <2> QED BY <2>2, <2>3, <2>4, <2>5, <2>6 DEF Moves
<1> QED BY <1>1, Wholeness, PTL DEF Spec, ArrivesComplete

\* A container that is in the inventory goes only when a delete with its full
\* lock removes the directory (LockAndDelete, delete.go:75): it may be moved
\* about, but no create or rename overwrites it, whatever they share.
THEOREM DeleteRemoves == Spec => OnlyDeleteRemoves
<1>1. Whole /\ [Next]_vars =>
        [\A n \in Names :
           LET i == dir[Live(n)].id
           IN  i # 0 /\ (\A e \in Entries : dir'[e].id # i)
                  => \E p \in Procs : At(p, "unlink") /\ locked[p] = i]_vars
  <2> DEFINE i(n) == dir[Live(n)].id
  <2> SUFFICES ASSUME Whole, NEW p \in Procs, Step(p), NEW n \in Names,
                      i(n) # 0, \A f \in Entries : dir'[f].id # i(n)
               PROVE  At(p, "unlink") /\ locked[p] = i(n)
    BY DEF Next, Step
  <2> DEFINE e == Live(n)
  <2>1. dir \in [Entries -> Dirs] /\ \A m \in Names : Live(m) \in Entries /\ Staged(m) \in Entries
    BY EntryFacts DEF Whole, Sound, TypeOK
  <2>2. e \in Entries /\ dir'[e] # dir[e] /\ \A f \in Entries : dir'[f] # dir[e]
    BY <2>1
  <2>3. CASE Stages(p)
    <3>1. work[p].name \in Names
      BY <2>3 DEF Stages, ResetStage, MakeStage, WriteNewConfig, SaveImage, At, Whole,
                  Sound, NamedInv
    <3>2. dir'[e] = dir[e]
      BY <2>1, <2>2, <2>3, <3>1, EntryFacts
      DEF Stages, ResetStage, DirStep, MakeStage, WriteNewConfig, SaveImage
    <3> QED BY <2>2, <3>2
  <2>4. CASE Unstage(p)
    <3>1. work[p].name \in Names
      BY <2>4 DEF Unstage, At, Whole, Sound, NamedInv
    <3>2. dir'[e] = dir[e]
      BY <2>1, <2>2, <2>4, <3>1, EntryFacts DEF Unstage
    <3> QED BY <2>2, <3>2
  <2>5. CASE Destroys(p)
    <3>1. /\ work[p].name \in Names /\ At(p, "unlink")
          /\ locked[p] = dir[Live(work[p].name)].id
      BY <2>5 DEF Destroys, Unlink, Rmdir, At, Whole, Sound, NamedInv, HolderInv, Holding
    <3>2. n = work[p].name \/ dir'[e] = dir[e]
      BY <2>1, <2>2, <2>5, <3>1, EntryFacts DEF Destroys, Unlink, Rmdir, DirStep
    <3> QED BY <2>2, <3>1, <3>2
  <2>6. CASE Rename(p)
    <3>1. work[p].name \in Names /\ work[p].to \in Entries
      BY <2>6, InventoryAssumption
      DEF Rename, At, Whole, Sound, NamedInv, InventoryAssumption
    <3>2. dir[Live(work[p].name)].id # 0 /\ dir[work[p].to].id = 0
      BY <2>6 DEF Rename, At, Whole, Sound, HolderInv, Holding
    <3>3. dir'[e] = dir[e] \/ dir'[work[p].to] = dir[e]
      BY <2>1, <2>2, <2>6, <3>1, <3>2, EntryFacts DEF Rename
    <3> QED BY <2>2, <3>1, <3>3
  <2>7. CASE ~Moves(p)
    BY <2>2, <2>7, StillSteps DEF Whole
  <2> QED BY <2>3, <2>4, <2>5, <2>6, <2>7 DEF Moves
<1> QED BY <1>1, Wholeness, PTL DEF Spec, OnlyDeleteRemoves
=============================================================================
