----------------------------- MODULE Inventory -----------------------------
(***************************************************************************)
(* One user's containers as a set of directories, and the link to the      *)
(* default one (internal/inventory, internal/create, and the create,       *)
(* delete, rename, set-default and list commands).  Every command is a     *)
(* process that works on paths, one file system operation at a time; any   *)
(* number of them run at once and may be killed between two operations.    *)
(*                                                                         *)
(* Of locks there is only who has the full lock of which directory: how    *)
(* Lock takes it is the matter of ContainerLocks.                          *)
(***************************************************************************)
EXTENDS Integers, FiniteSets

CONSTANTS
    Procs,         \* processes that run commands
    Names,         \* valid container names
    RenameTargets, \* entries that users give rename as the new name
    Commands,      \* the commands that users give
    MaxCommands    \* bound: commands ever started

NoName == "-"      \* also what set-default takes to unset the default

\* The entries of the inventory directory: a container, or NAME.stage.
Entries == [name : Names, stage : BOOLEAN]
Live(n) == [name |-> n, stage |-> FALSE]
Staged(n) == [name |-> n, stage |-> TRUE]

ASSUME InventoryAssumption ==
    /\ IsFiniteSet(Names)
    /\ NoName \notin Names
    /\ RenameTargets \subseteq Entries
    /\ Commands \subseteq {"create", "delete", "rename", "set-default", "list"}
    /\ MaxCommands \in Nat

\* A directory: its inode, 0 if there is none, whether it has config.json,
\* and how much of the image its storage holds.
Parts == {"first", "rest"}
Dirs == [id : Nat, config : BOOLEAN, storage : SUBSET Parts]
NoDir == [id |-> 0, config |-> FALSE, storage |-> {}]
Complete(d) == d.config /\ d.storage = Parts

VARIABLES
    dir,        \* dir[e]: what the entry e of the inventory is
    default,    \* the container the link default names, or NoName
    defaultTmp, \* the same for default.tmp
    locked,     \* locked[p]: the directory p holds the full lock of, or 0
    work,       \* the command each process runs
    inodes, commands,
    cut         \* ghost: the creates whose stage another create removed or
                \* moved away after they had begun to fill it

vars == <<dir, default, defaultTmp, locked, work, inodes, commands, cut>>

\* name: the container named by the user; to: the new name of rename; id:
\* the directory opened; was: whether rename found name to be the default;
\* todo: what list, or RemoveAll, has still to visit.
Idle == [pc |-> "idle", cmd |-> "none", name |-> NoName, id |-> 0, was |-> FALSE,
         to |-> [name |-> NoName, stage |-> FALSE], todo |-> {}]
Works == [pc : {"idle", "panic", "done",
                "create", "stage", "mkdir", "config", "extract", "unstage",
                "default", "open", "remove", "symlink", "rename",
                "check", "confirm", "unlink", "rmdir",
                "lock", "isdefault", "move", "list"},
          cmd : {"none", "create", "delete", "rename", "set-default", "list"},
          name : Names \cup {NoName}, id : Nat, was : BOOLEAN,
          to : [name : Names \cup {NoName}, stage : BOOLEAN],
          todo : SUBSET (Names \cup Parts \cup {"config.json"})]

TypeOK ==
    /\ dir \in [Entries -> Dirs]
    /\ default \in Names \cup {NoName}
    /\ defaultTmp \in Names \cup {NoName}
    /\ locked \in [Procs -> Nat]
    /\ work \in [Procs -> Works]
    /\ inodes \in Nat
    /\ commands \in 0..MaxCommands
    /\ cut \in SUBSET Procs

\* Any containers created before, one of them the default or none.
Init ==
    /\ \E S \in SUBSET Names, f \in [Names -> 1..Cardinality(Names)] :
          /\ \A n, m \in Names : n # m => f[n] # f[m]
          /\ dir = [e \in Entries |->
                       IF ~e.stage /\ e.name \in S
                       THEN [id |-> f[e.name], config |-> TRUE, storage |-> Parts]
                       ELSE NoDir]
          /\ default \in S \cup {NoName}
    /\ defaultTmp = NoName
    /\ locked = [p \in Procs |-> 0]
    /\ work = [p \in Procs |-> Idle]
    /\ inodes = Cardinality(Names)
    /\ commands = 0
    /\ cut = {}

-----------------------------------------------------------------------------
At(p, pc) == work[p].pc = pc
Goto(p, pc) == work' = [work EXCEPT ![p].pc = pc]
files == <<dir, default, defaultTmp>>

\* The process ends, by an error, by a signal or because it is done.
Exit(p) ==
    /\ work' = [work EXCEPT ![p] = Idle]
    /\ locked' = [locked EXCEPT ![p] = 0]

\* delete and rename open the container first thing.
OpenedId(cmd, n) == IF cmd \in {"delete", "rename"} THEN dir[Live(n)].id ELSE 0

Start(p, cmd, pc, n, to) ==
    /\ At(p, "idle")
    /\ cmd \in Commands
    /\ commands < MaxCommands
    /\ commands' = commands + 1
    /\ work' = [work EXCEPT ![p] = [Idle EXCEPT !.pc = pc, !.cmd = cmd,
                                                !.name = n, !.to = to,
                                                !.id = OpenedId(cmd, n)]]
    /\ UNCHANGED <<files, locked, inodes, cut>>

\* What inventory.DefaultContainer makes of the link: there is no default
\* if it leads nowhere, and an error if it leads to no config.json.
DefaultDir == IF default = NoName THEN NoDir ELSE dir[Live(default)]
DefaultGone == DefaultDir.id = 0
DefaultBad == DefaultDir.id # 0 /\ ~DefaultDir.config

\* One file system operation on the entry e, by p.
DirStep(p, e, d, pc) ==
    /\ dir' = [dir EXCEPT ![e] = d]
    /\ Goto(p, pc)
    /\ UNCHANGED <<default, defaultTmp, locked, inodes, commands>>

Fails(p) == Exit(p) /\ UNCHANGED <<files, inodes, commands, cut>>

Die(p) == ~At(p, "idle") /\ Fails(p)

-----------------------------------------------------------------------------
(***************************************************************************)
(* create: nothing keeps two creates of one name from running at once.     *)
(***************************************************************************)
StartCreate(p, n) == Start(p, "create", "create", n, Idle.to)

CheckNew(p) ==
    /\ At(p, "create")
    /\ ~dir[Live(work[p].name)].config
    /\ Goto(p, "stage")
    /\ UNCHANGED <<files, locked, inodes, commands, cut>>

\* The creates, other than p, that fill the stage that p works on.
Filling(p) == {q \in Procs \ {p} : /\ work[q].pc \in {"extract", "unstage"}
                                   /\ work[q].name = work[p].name}

\* Mutant: the old container is removed, not the old staged one.
ResetLive(p) ==
    /\ At(p, "stage")
    /\ DirStep(p, Live(work[p].name), NoDir, "mkdir")
    /\ cut' = cut \ {p}

ResetStage(p) ==
    /\ At(p, "stage")
    /\ DirStep(p, Staged(work[p].name), NoDir, "mkdir")
    /\ cut' = (cut \ {p}) \cup Filling(p)

\* MkdirAll does not mind a directory that another create has just made.
MakeStage(p) ==
    LET e == Staged(work[p].name)
    IN  /\ At(p, "mkdir")
        /\ inodes' = inodes + 1
        /\ dir' = [dir EXCEPT ![e] =
                      IF @.id = 0 THEN [NoDir EXCEPT !.id = inodes + 1] ELSE @]
        /\ Goto(p, "config")
        /\ UNCHANGED <<default, defaultTmp, locked, commands, cut>>

WriteNewConfig(p) ==
    LET e == Staged(work[p].name)
    IN  /\ At(p, "config")
        /\ dir[e].id # 0
        /\ dir' = [dir EXCEPT ![e].config = TRUE]
        /\ work' = [work EXCEPT ![p].pc = "extract", ![p].todo = Parts]
        /\ UNCHANGED <<default, defaultTmp, locked, inodes, commands, cut>>

\* Mutant: an archive that ends early is no error.
SaveImageCut(p) ==
    LET e == Staged(work[p].name)
    IN  /\ At(p, "extract")
        /\ dir[e].id # 0
        /\ dir' = [dir EXCEPT ![e].storage = @ \cup {"first"}]
        /\ Goto(p, "unstage")
        /\ UNCHANGED <<default, defaultTmp, locked, inodes, commands, cut>>

\* The image is extracted by path, its parts in order.
SaveImage(p) ==
    LET e == Staged(work[p].name)
        part == IF "first" \in work[p].todo THEN "first" ELSE "rest"
    IN  /\ At(p, "extract")
        /\ dir[e].id # 0
        /\ dir' = [dir EXCEPT ![e].storage = @ \cup {part}]
        /\ work' = [work EXCEPT ![p].todo = @ \ {part},
                                ![p].pc = IF part = "rest" THEN "unstage" ELSE @]
        /\ UNCHANGED <<default, defaultTmp, locked, inodes, commands, cut>>

\* Mutant: whatever has the name of the new container is replaced.
UnstageOver(p) ==
    LET n == work[p].name
    IN  /\ At(p, "unstage")
        /\ dir[Staged(n)].id # 0
        /\ dir' = [dir EXCEPT ![Live(n)] = dir[Staged(n)], ![Staged(n)] = NoDir]
        /\ cut' = cut \cup Filling(p)
        /\ Goto(p, "default")
        /\ UNCHANGED <<default, defaultTmp, locked, inodes, commands>>

\* os.Rename of a directory onto another one that exists is an error.
Unstage(p) ==
    LET n == work[p].name
    IN  /\ At(p, "unstage")
        /\ dir[Staged(n)].id # 0
        /\ dir[Live(n)].id = 0
        /\ dir' = [dir EXCEPT ![Live(n)] = dir[Staged(n)], ![Staged(n)] = NoDir]
        /\ cut' = cut \cup Filling(p)
        /\ Goto(p, "default")
        /\ UNCHANGED <<default, defaultTmp, locked, inodes, commands>>

DefaultIfNone(p) ==
    /\ At(p, "default")
    /\ Goto(p, IF DefaultGone THEN "open" ELSE "done")
    /\ UNCHANGED <<files, locked, inodes, commands, cut>>

CreateFails(p) ==
    LET n == work[p].name
    IN  /\ \/ At(p, "create") /\ dir[Live(n)].config
           \/ At(p, "config") /\ dir[Staged(n)].id = 0
           \/ At(p, "extract") /\ dir[Staged(n)].id = 0
           \/ At(p, "unstage") /\ (dir[Staged(n)].id = 0 \/ dir[Live(n)].id # 0)
        /\ Fails(p)

Create(p) ==
    \/ \E n \in Names : StartCreate(p, n)
    \/ CheckNew(p)
    \/ ResetStage(p)
    \/ MakeStage(p)
    \/ WriteNewConfig(p)
    \/ SaveImage(p)
    \/ Unstage(p)
    \/ DefaultIfNone(p)
    \/ CreateFails(p)

-----------------------------------------------------------------------------
(***************************************************************************)
(* SetDefaultContainer, for set-default, create and rename                 *)
(***************************************************************************)
\* The name the command makes the default.
NewDefault(p) == IF work[p].cmd = "rename" THEN work[p].to.name ELSE work[p].name

\* container.Open: config.json is there, and the name is a valid one (that
\* of a staged directory is not).
OpenDefault(p) ==
    /\ At(p, "open")
    /\ NewDefault(p) # NoName
    /\ ~work[p].to.stage
    /\ dir[Live(NewDefault(p))].config
    /\ Goto(p, "remove")
    /\ UNCHANGED <<files, locked, inodes, commands, cut>>

RemoveDefaultTmp(p) ==
    /\ At(p, "remove")
    /\ defaultTmp' = NoName
    /\ Goto(p, "symlink")
    /\ UNCHANGED <<dir, default, locked, inodes, commands, cut>>

SymlinkDefaultTmp(p) ==
    /\ At(p, "symlink")
    /\ defaultTmp = NoName
    /\ defaultTmp' = NewDefault(p)
    /\ Goto(p, "rename")
    /\ UNCHANGED <<dir, default, locked, inodes, commands, cut>>

RenameDefaultTmp(p) ==
    /\ At(p, "rename")
    /\ defaultTmp # NoName
    /\ default' = defaultTmp
    /\ defaultTmp' = NoName
    /\ Goto(p, "done")
    /\ UNCHANGED <<dir, locked, inodes, commands, cut>>

\* Mutant: the link is made empty instead of being removed.
EmptyDefault(p) ==
    /\ At(p, "open")
    /\ NewDefault(p) = NoName
    /\ default' = ""
    /\ Goto(p, "done")
    /\ UNCHANGED <<dir, defaultTmp, locked, inodes, commands, cut>>

UnsetDefault(p) ==
    /\ At(p, "open")
    /\ NewDefault(p) = NoName
    /\ default' = NoName
    /\ Goto(p, "done")
    /\ UNCHANGED <<dir, defaultTmp, locked, inodes, commands, cut>>

SetDefaultFails(p) ==
    /\ \/ /\ At(p, "open")
          /\ NewDefault(p) # NoName
          /\ work[p].to.stage \/ ~dir[Live(NewDefault(p))].config
       \/ At(p, "symlink") /\ defaultTmp # NoName
       \/ At(p, "rename") /\ defaultTmp = NoName
    /\ Fails(p)

SetDefaultContainer(p) ==
    \/ \E n \in Names \cup {NoName} : Start(p, "set-default", "open", n, Idle.to)
    \/ OpenDefault(p)
    \/ RemoveDefaultTmp(p)
    \/ SymlinkDefaultTmp(p)
    \/ RenameDefaultTmp(p)
    \/ UnsetDefault(p)
    \/ SetDefaultFails(p)

-----------------------------------------------------------------------------
(***************************************************************************)
(* delete and rename: both open the container and lock the path later      *)
(***************************************************************************)
StartOpen(p, cmd, pc, n, to) ==
    /\ dir[Live(n)].config
    /\ Start(p, cmd, pc, n, to)

\* The default is checked, then the user confirms, then the lock is taken.
CheckDefault(p) ==
    /\ At(p, "check")
    /\ DefaultGone \/ (~DefaultBad /\ default # work[p].name)
    /\ Goto(p, "confirm")
    /\ UNCHANGED <<files, locked, inodes, commands, cut>>

\* Lock(FullContainerLock, NoWaitForLock) on the path.
Lockable(p) == LET d == dir[Live(work[p].name)]
               IN  d.id # 0 /\ \A q \in Procs : locked[q] # d.id
Lock(p) == /\ Lockable(p)
           /\ locked' = [locked EXCEPT ![p] = dir[Live(work[p].name)].id]

\* LockAndDelete: the lock, and the list of what RemoveAll is to remove.
LockAndDelete(p) ==
    LET d == dir[Live(work[p].name)]
    IN  /\ At(p, "confirm")
        /\ Lock(p)
        /\ work' = [work EXCEPT
                       ![p].pc = "unlink",
                       ![p].todo = d.storage \cup
                                   (IF d.config THEN {"config.json"} ELSE {})]
        /\ UNCHANGED <<files, inodes, commands, cut>>

Unlink(p, f) ==
    LET e == Live(work[p].name)
    IN  /\ At(p, "unlink")
        /\ f \in work[p].todo
        /\ dir' = [dir EXCEPT ![e].storage = @ \ {f},
                              ![e].config = @ /\ f # "config.json"]
        /\ work' = [work EXCEPT ![p].todo = @ \ {f}]
        /\ UNCHANGED <<default, defaultTmp, locked, inodes, commands, cut>>

Rmdir(p) ==
    /\ At(p, "unlink")
    /\ work[p].todo = {}
    /\ DirStep(p, Live(work[p].name), NoDir, "done")
    /\ UNCHANGED cut

DeleteFails(p) ==
    /\ \/ /\ At(p, "check")
          /\ ~DefaultGone
          /\ DefaultBad \/ default = work[p].name
       \/ At(p, "confirm") /\ ~Lockable(p)
    /\ Fails(p)

Delete(p) ==
    \/ \E n \in Names : StartOpen(p, "delete", "check", n, Idle.to)
    \/ CheckDefault(p)
    \/ LockAndDelete(p)
    \/ \E f \in Parts \cup {"config.json"} : Unlink(p, f)
    \/ Rmdir(p)
    \/ DeleteFails(p)

LockForRename(p) ==
    /\ At(p, "lock")
    /\ Lock(p)
    /\ Goto(p, "isdefault")
    /\ UNCHANGED <<files, inodes, commands, cut>>

\* isDefaultContainer reads the name of the default without asking whether
\* there is one.
IsDefaultContainer(p) ==
    /\ At(p, "isdefault")
    /\ ~DefaultBad
    /\ IF DefaultGone
       THEN Goto(p, "panic")
       ELSE work' = [work EXCEPT ![p].pc = "move",
                                 ![p].was = (default = work[p].name)]
    /\ UNCHANGED <<files, locked, inodes, commands, cut>>

Rename(p) ==
    LET from == Live(work[p].name)
        to == work[p].to
    IN  /\ At(p, "move")
        /\ dir[to].id = 0
        /\ dir' = [dir EXCEPT ![to] = dir[from], ![from] = NoDir]
        /\ Goto(p, IF work[p].was THEN "open" ELSE "done")
        /\ UNCHANGED <<default, defaultTmp, locked, inodes, commands, cut>>

RenameFails(p) ==
    /\ \/ At(p, "lock") /\ ~Lockable(p)
       \/ At(p, "isdefault") /\ DefaultBad
       \/ At(p, "move") /\ dir[work[p].to].id # 0
    /\ Fails(p)

RenameCommand(p) ==
    \/ \E n \in Names, to \in RenameTargets :
          to # Live(n) /\ StartOpen(p, "rename", "lock", n, to)
    \/ LockForRename(p)
    \/ IsDefaultContainer(p)
    \/ Rename(p)
    \/ RenameFails(p)

-----------------------------------------------------------------------------
(***************************************************************************)
(* list                                                                    *)
(***************************************************************************)
StartList(p) ==
    /\ At(p, "idle")
    /\ "list" \in Commands
    /\ commands < MaxCommands
    /\ commands' = commands + 1
    /\ work' = [work EXCEPT ![p] =
          [Idle EXCEPT !.pc = "list", !.cmd = "list",
                       !.todo = {n \in Names : dir[Live(n)].id # 0}]]
    /\ UNCHANGED <<files, locked, inodes, cut>>

\* Each item found is examined; the first one that is gone ends the list.
ListItem(p, n) ==
    /\ At(p, "list")
    /\ n \in work[p].todo
    /\ dir[Live(n)].id # 0
    /\ work' = [work EXCEPT ![p].todo = @ \ {n},
                            ![p].pc = IF work[p].todo = {n} THEN "done" ELSE @]
    /\ UNCHANGED <<files, locked, inodes, commands, cut>>

ListFails(p) ==
    /\ At(p, "list")
    /\ \E n \in work[p].todo : dir[Live(n)].id = 0
    /\ Fails(p)

List(p) == StartList(p) \/ (\E n \in Names : ListItem(p, n)) \/ ListFails(p)

Next == \E p \in Procs :
    \/ Create(p)
    \/ SetDefaultContainer(p)
    \/ Delete(p)
    \/ RenameCommand(p)
    \/ List(p)
    \/ Die(p)

Spec == Init /\ [][Next]_vars

-----------------------------------------------------------------------------
\* A container of the inventory is changed, moved or removed only by the
\* process that holds its full lock; no create or rename replaces it,
\* whatever is created, renamed and killed at the same time.
OnlyHolderTouches ==
    [][\A n \in Names :
         dir[Live(n)].id # 0 /\ dir'[Live(n)] # dir[Live(n)] =>
            \E p \in Procs : /\ locked[p] = dir[Live(n)].id
                             /\ work'[p] # work[p]]_vars

\* A container appears in the inventory with its configuration and the whole
\* image, also when the stage was left behind by a create that died, taken up by
\* a create that runs beside another, or made by a rename to NAME.stage
\* (container.go:144-148, create.go:114-118); only a rename brings in one that
\* was in the inventory before.  The exception: a create that had begun to fill
\* its stage when another create of the name removed it or moved it away, and
\* that went on in the stage made after it (container.go:146).
ArrivesComplete ==
    [][\A n \in Names :
         LET d == dir'[Live(n)]
         IN  d.id # 0 /\ d.id # dir[Live(n)].id =>
                \/ Complete(d)
                \/ \E m \in Names : dir[Live(m)].id = d.id
                \/ \E p \in cut : /\ At(p, "unstage") /\ work[p].name = n
                                  /\ work'[p] # work[p]]_vars

\* A container of the inventory is destroyed only by a delete that holds its
\* full lock: no create, rename or set-default does it, whatever shares a stage
\* with it, and whatever dies in between.  (Once it has been renamed to
\* NAME.stage, rename.go:75, it is not of the inventory any more: the next
\* create of NAME removes it.)
OnlyDeleteRemoves ==
    [][\A n \in Names :
         LET i == dir[Live(n)].id
         IN  i # 0 /\ (\A e \in Entries : dir'[e].id # i)
                => \E p \in Procs : At(p, "unlink") /\ locked[p] = i]_vars
=============================================================================
