------------------------------ MODULE Exports ------------------------------
(***************************************************************************)
(* Desktop files exported to the host (internal/integration), and the      *)
(* configuration they follow (cmd/nsbox/config.go, Container.UpdateConfig).*)
(* An update builds exports.0 or exports.1, whichever the active link does *)
(* not name, and renames a new symlink over the link.  It runs in nsbox    *)
(* config, with the configuration that command has written, and in nsboxd  *)
(* when the container asks for a reload, with the configuration nsboxd     *)
(* read when it started.  nsbox rename moves the directory under both.     *)
(*                                                                         *)
(* Locks are those of LockPromise, which ContainerLocks implements.  The   *)
(* directories searched are one directory here, and icons are left out.    *)
(***************************************************************************)
EXTENDS Integers

CONSTANTS
    Apps,         \* desktop files the container may install
    Cmds,         \* processes that run nsbox config or nsbox rename
    Handlers,     \* connections on which nsboxd serves reloads
    Names,        \* names the container may have
    FirstName,    \* its name when it was created
    Ops,          \* the list operators given to config, of "+", "-" and ":"
    MaxChanges,   \* bound: packages installed or removed
    MaxCommands   \* bound: commands, reloads and nsboxd starts

Nsboxd == "nsboxd"

ASSUME NamesAssumption == FirstName \in Names
ASSUME WorkersAssumption == /\ Cmds \cap Handlers = {}
                            /\ Nsboxd \notin Cmds \cup Handlers
ASSUME OpsAssumption == Ops \subseteq {"+", "-", ":"}
ASSUME BoundsAssumption == MaxChanges \in Nat /\ MaxCommands \in Nat

RunLock == 0
ExportsLock == 1
ConfigLock == 2
Levels == 0..3
Workers == Cmds \cup Handlers
Lockers == Workers \cup {Nsboxd}

VARIABLES
    name,       \* the name of the container's directory
    config,     \* config.json: its XdgDesktopExports
    configTmp,  \* config.json.tmp
    storage,    \* the desktop files installed in the container
    link,       \* the symlink exports: the instance and the name in its path
    linkTmp,    \* the symlink exports.tmp
    instance,   \* the directories exports.0 and exports.1
    granted,    \* the locks each process holds (LockPromise)
    loaded,     \* the Container value a process works with
    work,       \* what a worker is doing
    changes, commands

files == <<name, config, configTmp, storage, link, linkTmp, instance>>
vars == <<files, granted, loaded, work, changes, commands>>

Locks == INSTANCE LockPromise WITH Procs <- Lockers

Links == [id : {-1, 0, 1}, under : Names]
NoLink == [id |-> -1, under |-> FirstName]
\* A configuration file; not whole while its contents are being written.
ConfigFiles == [items : SUBSET Apps, whole : BOOLEAN]
NoFile == [items |-> {}, whole |-> FALSE]
\* An exports directory holds desktop files, each with the container's name
\* in its Exec line; whole from the end of its update until it is retired.
Instances == [files : SUBSET (Apps \X Names), whole : BOOLEAN]
NoDir == [files |-> {}, whole |-> FALSE]
Containers == [open : BOOLEAN, name : Names, items : SUBSET Apps]
NotOpen == [open |-> FALSE, name |-> FirstName, items |-> {}]

\* old, new: the instances of the update; todo: listed and not visited yet;
\* found: opened and not exported yet.  For the properties: steady, what has
\* been installed since the update took its lock and was not logged as one that
\* could not be exported; lost, whether the walk met a file that had vanished
\* and so gave up the directory.
Works == [pc : {"idle", "opened", "locked", "writing", "written", "update",
                "read", "reset", "mkdir", "walk", "stat", "export", "link",
                "switch", "retire", "remove", "done"},
          old : {-1, 0, 1}, new : {0, 1}, todo : SUBSET Apps,
          found : SUBSET Apps, steady : SUBSET Apps, lost : BOOLEAN]
Idle == [pc |-> "idle", old |-> -1, new |-> 0, todo |-> {}, found |-> {},
         steady |-> {}, lost |-> FALSE]

TypeOK ==
    /\ name \in Names
    /\ config \in ConfigFiles
    /\ configTmp \in ConfigFiles
    /\ storage \in SUBSET Apps
    /\ link \in Links
    /\ linkTmp \in Links
    /\ instance \in [{0, 1} -> Instances]
    /\ granted \in [Lockers -> SUBSET Levels]
    /\ loaded \in [Lockers -> Containers]
    /\ work \in [Workers -> Works]
    /\ changes \in 0..MaxChanges
    /\ commands \in 0..MaxCommands

Init ==
    /\ name = FirstName
    /\ config = [items |-> {}, whole |-> TRUE]
    /\ configTmp = NoFile
    /\ storage \in SUBSET Apps
    /\ link = NoLink
    /\ linkTmp = NoLink
    /\ instance = [i \in {0, 1} |-> NoDir]
    /\ granted = [p \in Lockers |-> {}]
    /\ loaded = [p \in Lockers |-> NotOpen]
    /\ work = [w \in Workers |-> Idle]
    /\ changes = 0
    /\ commands = 0

-----------------------------------------------------------------------------
\* The Container value a worker works with; those of nsboxd share one.
Ct(w) == IF w \in Cmds THEN loaded[w] ELSE loaded[Nsboxd]
At(w, pc) == work[w].pc = pc
Goto(w, pc) == work' = [work EXCEPT ![w].pc = pc]
Running == RunLock \in granted[Nsboxd]

\* The process of w ends, or its connection does: its locks go with it.
Stop(w) ==
    /\ work' = [work EXCEPT ![w] = Idle]
    /\ granted' = [granted EXCEPT ![w] = {}]
    /\ loaded' = [loaded EXCEPT ![w] = NotOpen]

\* container.Open, in a command or in nsboxd.
Load(p) == loaded' = [loaded EXCEPT ![p] =
                         [open |-> TRUE, name |-> name, items |-> config.items]]

Open(c) ==
    /\ At(c, "idle")
    /\ commands < MaxCommands
    /\ commands' = commands + 1
    /\ Load(c)
    /\ Goto(c, "opened")
    /\ UNCHANGED <<files, granted, changes>>

\* A command that cannot go on, or is killed, at any point.
Quit(c) ==
    /\ ~At(c, "idle")
    /\ Stop(c)
    /\ UNCHANGED <<files, changes, commands>>

\* Mutant of LockConfig: the lock is not taken.
LockConfigNone(c) ==
    /\ At(c, "opened")
    /\ loaded[c].name = name
    /\ Goto(c, "locked")
    /\ UNCHANGED <<files, granted, loaded, changes, commands>>

\* LockUntilProcessDeath(ConfigLock): the path is the one opened before.
LockConfig(c) ==
    /\ At(c, "opened")
    /\ loaded[c].name = name
    /\ Locks!Grant(c, {ConfigLock})
    /\ Goto(c, "locked")
    /\ UNCHANGED <<files, loaded, changes, commands>>

\* What ArrayTransform.Apply does to a list, as a set of its items.
Applied(op, items, list) ==
    CASE op = "+" -> list \cup items
      [] op = "-" -> list \ items
      [] op = ":" -> items

\* The options are applied to the configuration loaded by Open, and
\* UpdateConfig starts to write all of it to config.json.tmp.
WriteConfigTmp(c) ==
    /\ At(c, "locked")
    /\ \E op \in Ops, items \in SUBSET Apps :
          loaded' = [loaded EXCEPT ![c].items = Applied(op, items, @)]
    /\ configTmp' = NoFile
    /\ Goto(c, "writing")
    /\ UNCHANGED <<name, config, storage, link, linkTmp, instance, granted,
                   changes, commands>>

CloseConfigTmp(c) ==
    /\ At(c, "writing")
    /\ configTmp' = [items |-> loaded[c].items, whole |-> TRUE]
    /\ Goto(c, "written")
    /\ UNCHANGED <<name, config, storage, link, linkTmp, instance, granted,
                   loaded, changes, commands>>

RenameConfigTmp(c) ==
    /\ At(c, "written")
    /\ config' = configTmp
    /\ configTmp' = NoFile
    /\ Goto(c, "update")
    /\ UNCHANGED <<name, storage, link, linkTmp, instance, granted, loaded,
                   changes, commands>>

\* nsbox rename: the full lock, os.Rename, and the end of the process.
Rename(c, new) ==
    /\ At(c, "opened")
    /\ loaded[c].name = name
    /\ \A p \in Lockers : granted[p] = {}
    /\ new # name
    /\ name' = new
    /\ Stop(c)
    /\ UNCHANGED <<config, configTmp, storage, link, linkTmp, instance,
                   changes, commands>>

\* nsboxd opens the container, then takes the run lock; it dies with all
\* the reloads it serves.
NsboxdOpen ==
    /\ ~Running
    /\ commands < MaxCommands
    /\ commands' = commands + 1
    /\ Load(Nsboxd)
    /\ UNCHANGED <<files, granted, work, changes>>

NsboxdLock ==
    /\ ~Running
    /\ loaded[Nsboxd].open
    /\ loaded[Nsboxd].name = name
    /\ Locks!Grant(Nsboxd, {RunLock})
    /\ UNCHANGED <<files, loaded, work, changes, commands>>

NsboxdDies ==
    /\ Running
    /\ granted' = [p \in Lockers |-> IF p \in Cmds THEN granted[p] ELSE {}]
    /\ loaded' = [loaded EXCEPT ![Nsboxd] = NotOpen]
    /\ work' = [w \in Workers |-> IF w \in Cmds THEN work[w] ELSE Idle]
    /\ UNCHANGED <<files, changes, commands>>

NotifyReloadExports(h) ==
    /\ At(h, "idle")
    /\ Running
    /\ commands < MaxCommands
    /\ commands' = commands + 1
    /\ Goto(h, "update")
    /\ UNCHANGED <<files, granted, loaded, changes>>

-----------------------------------------------------------------------------
(***************************************************************************)
(* UpdateDesktopFiles, by a command or a handler.                          *)
(***************************************************************************)
LockExports(w) ==
    /\ At(w, "update")
    /\ Locks!Grant(w, {ExportsLock})
    /\ work' = [work EXCEPT ![w] = [Idle EXCEPT !.pc = "read",
                                                !.steady = storage]]
    /\ UNCHANGED <<files, loaded, changes, commands>>

\* The update returns an error: the lock is taken, exports.tmp exists, or any of
\* the calls whose errors are returned fails; nothing is undone.  A command ends
\* with it; nsboxd gives up the lock and lives on.
UpdateFails(w) ==
    /\ work[w].pc \in {"update", "read", "reset", "mkdir", "walk", "link",
                       "switch", "retire", "remove"}
    /\ Stop(w)
    /\ UNCHANGED <<files, changes, commands>>

\* Mutants of ReadExportsId: an instance number that grows, and a first
\* instance that is always built anew.
ReadExportsIdGrows(w) ==
    /\ At(w, "read")
    /\ work' = [work EXCEPT ![w].pc = "reset",
                            ![w].old = link.id,
                            ![w].new = link.id + 1]
    /\ UNCHANGED <<files, granted, loaded, changes, commands>>
ReadExportsIdFirst(w) ==
    /\ At(w, "read")
    /\ work' = [work EXCEPT ![w].pc = "reset", ![w].old = link.id]
    /\ UNCHANGED <<files, granted, loaded, changes, commands>>

\* readExportsId looks only at the end of the link's target.
ReadExportsId(w) ==
    /\ At(w, "read")
    /\ work' = [work EXCEPT ![w].pc = "reset",
                            ![w].old = link.id,
                            ![w].new = IF link.id = 0 THEN 1 ELSE 0]
    /\ UNCHANGED <<files, granted, loaded, changes, commands>>

InstanceStep(w, from, to, i, dir) ==
    /\ At(w, from)
    /\ instance' = [instance EXCEPT ![i] = dir]
    /\ Goto(w, to)
    /\ UNCHANGED <<name, config, configTmp, storage, link, linkTmp, granted,
                   loaded, changes, commands>>

\* RemoveAll of a leftover instance, in two steps, then MkdirAll.
ResetNew(w) == InstanceStep(w, "reset", "mkdir", work[w].new,
                            [instance[work[w].new] EXCEPT !.whole = FALSE])
MakeNew(w) == InstanceStep(w, "mkdir", "walk", work[w].new, NoDir)

\* filepath.Walk reads the names in the directory, then visits one by one.
WalkList(w) ==
    /\ At(w, "walk")
    /\ work' = [work EXCEPT ![w].pc = "stat", ![w].todo = storage]
    /\ UNCHANGED <<files, granted, loaded, changes, commands>>

\* A file that is there is opened if a pattern matches; one that cannot be
\* opened, or is gone by then, is logged and passed over.  One that is gone when
\* the walk comes to it ends the walk with an error that means "no such
\* directory" to its caller: none of the files opened so far is exported (nor
\* closed).
WalkVisit(w, a) ==
    /\ At(w, "stat")
    /\ a \in work[w].todo
    /\ \/ /\ a \in storage
          /\ work' = [work EXCEPT ![w].todo = @ \ {a},
                                  ![w].found = @ \cup ({a} \cap Ct(w).items)]
       \/ work' = [work EXCEPT ![w].todo = @ \ {a}, ![w].steady = @ \ {a}]
       \/ /\ a \notin storage
          /\ work' = [work EXCEPT ![w].todo = {}, ![w].found = {},
                                  ![w].lost = TRUE]
    /\ UNCHANGED <<files, granted, loaded, changes, commands>>

WalkEnds(w) ==
    /\ At(w, "stat")
    /\ work[w].todo = {}
    /\ Goto(w, "export")
    /\ UNCHANGED <<files, granted, loaded, changes, commands>>

\* An error in the middle of it is logged, and what was written stays.
ExportDesktopFile(w, a) ==
    /\ At(w, "export")
    /\ a \in work[w].found
    /\ \/ work' = [work EXCEPT ![w].found = @ \ {a}]
       \/ work' = [work EXCEPT ![w].found = @ \ {a}, ![w].steady = @ \ {a}]
    /\ instance' = [instance EXCEPT ![work[w].new].files =
                       @ \cup {<<a, Ct(w).name>>}]
    /\ UNCHANGED <<name, config, configTmp, storage, link, linkTmp, granted,
                   loaded, changes, commands>>

\* Icons are exported last; the instance is complete.
ExportIcons(w) ==
    /\ work[w].found = {}
    /\ InstanceStep(w, "export", "link", work[w].new,
                    [instance[work[w].new] EXCEPT !.whole = TRUE])

SymlinkTmp(w) ==
    /\ At(w, "link")
    /\ linkTmp.id = -1
    /\ linkTmp' = [id |-> work[w].new, under |-> Ct(w).name]
    /\ Goto(w, "switch")
    /\ UNCHANGED <<name, config, configTmp, storage, link, instance, granted,
                   loaded, changes, commands>>

RenameLinkTmp(w) ==
    /\ At(w, "switch")
    /\ link' = linkTmp
    /\ linkTmp' = NoLink
    /\ Goto(w, IF work[w].old = -1 THEN "done" ELSE "retire")
    /\ UNCHANGED <<name, config, configTmp, storage, instance, granted,
                   loaded, changes, commands>>

\* RemoveAll of the instance the link named before.
RetireOld(w) == InstanceStep(w, "retire", "remove", work[w].old,
                             [instance[work[w].old] EXCEPT !.whole = FALSE])
RemoveOld(w) == InstanceStep(w, "remove", "done", work[w].old, NoDir)

\* Success: the lock is released, a command ends, a handler replies.
UpdateReturns(w) ==
    /\ At(w, "done")
    /\ Stop(w)
    /\ UNCHANGED <<files, changes, commands>>

UpdateDesktopFiles(w) ==
    \/ LockExports(w)
    \/ UpdateFails(w)
    \/ ReadExportsId(w)
    \/ ResetNew(w)
    \/ MakeNew(w)
    \/ WalkList(w)
    \/ \E a \in Apps : WalkVisit(w, a)
    \/ WalkEnds(w)
    \/ \E a \in Apps : ExportDesktopFile(w, a)
    \/ ExportIcons(w)
    \/ SymlinkTmp(w)
    \/ RenameLinkTmp(w)
    \/ RetireOld(w)
    \/ RemoveOld(w)
    \/ UpdateReturns(w)

\* The package manager of the container installs or removes a package.
ChangePackages(a) ==
    /\ changes < MaxChanges
    /\ changes' = changes + 1
    /\ storage' = IF a \in storage THEN storage \ {a} ELSE storage \cup {a}
    /\ work' = [w \in Workers |-> [work[w] EXCEPT !.steady = @ \cap storage']]
    /\ UNCHANGED <<name, config, configTmp, link, linkTmp, instance, granted,
                   loaded, commands>>

Command(c) ==
    \/ Open(c)
    \/ Quit(c)
    \/ LockConfig(c)
    \/ WriteConfigTmp(c)
    \/ CloseConfigTmp(c)
    \/ RenameConfigTmp(c)
    \/ \E new \in Names : Rename(c, new)

Next ==
    \/ \E c \in Cmds : Command(c)
    \/ NsboxdOpen
    \/ NsboxdLock
    \/ NsboxdDies
    \/ \E h \in Handlers : NotifyReloadExports(h)
    \/ \E w \in Workers : UpdateDesktopFiles(w)
    \/ \E a \in Apps : ChangePackages(a)

Spec == Init /\ [][Next]_vars

-----------------------------------------------------------------------------
Exported == instance[link.id].files

\* What the host sees is a complete set of exports at every moment: the link
\* never leads to an instance that is being built, reset or removed, however
\* updates of config and nsboxd interleave, fail and die (xdgdesktop.go:261-
\* 272, 324-337).  (A rename leaves a link that leads nowhere at first.)
LiveExportsWhole ==
    link.id # -1 /\ link.under = name => instance[link.id].whole

\* config.json always holds one whole configuration: a command that dies or
\* another that writes at the same time never leaves a part of one
\* (container.go:257-266, config.go:76).
ConfigWhole == config.whole

\* When an update succeeds, the host sees no desktop file but those that its
\* configuration asks for, all under the container's name, whatever other
\* updates, renames, failures, deaths and package changes went on before and
\* meanwhile; and it sees each of them that was installed all the while, with
\* the two exceptions that the code makes: a file that was logged as one that
\* could not be exported, and a walk that came to a file that had vanished,
\* which is taken for a directory that is not there (xdgdesktop.go:159-162): the
\* update succeeds all the same, and of that directory shows nothing.  For nsbox
\* config the configuration is the one in config.json.
Shows(w, items, exported) ==
    /\ link.under = name
    /\ exported \subseteq items \X {name}
    /\ IF work[w].lost
       THEN exported = {}
       ELSE (work[w].steady \cap items) \X {name} \subseteq exported
UpdateTakesEffect ==
    \A w \in Workers : At(w, "done") =>
        Shows(w, IF w \in Cmds THEN config.items ELSE Ct(w).items, Exported)
=============================================================================
