# nsbox in TLA+

nsbox keeps containers as directories of the user, runs each of them under
`systemd-nspawn` in a transient systemd unit, and exports the desktop files
installed in them to the host. This directory holds TLA+ models of the parts of
it where processes meet and where what one start leaves behind meets the next, the
TLC runs that check them, and proofs of the properties that the rest relies on. Paths
below are relative to the root of the repository.

## The system

### Processes

| process | what it is | state it keeps |
|---|---|---|
| `nsbox` (`cmd/nsbox`) | one process per command: create, delete, rename, set-default, list, config, run, kill, images, info | a `Container` value read by `container.Open`, locks until it ends |
| `nsboxd` (`cmd/nsboxd`, `internal/daemon/direct.go`) | main process of the unit of a running container | the run lock, a `Container` value read when it started, a varlink service |
| `systemd-nspawn` | child of nsboxd, runs the payload | inherits nsboxd's descriptor of the run lock |
| `nsbox-host` (`cmd/nsbox-host`) | in the container: `service`, `enter`, `reload-exports` | the pty service's sessions |
| `nsbox-init.sh`, `nsbox-enter-setup.sh` (`data/scripts`) | in the container, at start and at each entry | `/etc/shadow`, digests of playbooks |
| systemd, machined, firewalld, the journal | outside | units, machines, trusted interfaces, log entries |

### Shared state

- The directory of a user, `StorageRoot/USER`: in it `inventory/`, with `NAME/` and
  `NAME.stage/`, and beside it the link `default` with its temporary `default.tmp`.
- A container's directory: `config.json` (and `config.json.tmp`), `storage/`,
  the lock files `run.lock`, `exports.lock`, `config.lock`, the directories
  `exports.0` and `exports.1`, and the link `exports` (and `exports.tmp`).
- In the storage of a container, `var/lib/.nsbox-priv/` (`shared-env`,
  `shadow-entry`, `shadow-custom-pass`) and `etc/sudoers.d/10-nsbox-passwd`. nsboxd
  writes all but the custom password, which `nsbox config -auth` writes;
  `nsbox-init.sh` reads what is in `.nsbox-priv` and removes the two passwords.
- The private home of a name, which outlives the containers that had the name.
- In the container `/etc/shadow`, and the digests of the images' playbooks.
- The unit `nsbox-USER-NAME.service` in systemd, the machine `USER-NAME` in
  machined, and the interface of the container's network zone.

### Components

Every component is listed in `PROJECT.json` with its sources, its modules and
how far it is modelled. What makes the main ones correct:

| component | operations | what can go wrong | what must hold |
|---|---|---|---|
| container locks (`internal/container/container.go`) | `Lock`, `Release`, `LockUntilProcessDeath`, `LockAndDelete` | a full lock is several `flock` calls; deaths in the middle; lock files removed | granted locks exclude each other, nobody waits in a circle, a delete refuses what runs |
| container inventory (`internal/inventory`, `internal/create`, `cmd/nsbox`) | create, delete, rename, set-default, list | every step is by path; commands race and die | only the holder of its full lock changes a container; containers arrive complete; only a delete destroys one |
| configuration (`cmd/nsbox/config.go`, `UpdateConfig`) | config | read before the lock, written in steps | `config.json` is whole; no change is lost |
| desktop exports (`internal/integration`) | `UpdateDesktopFiles` in config and in nsboxd | two instances in turn, deaths between steps, files that vanish | the live link leads to a whole instance; success shows what was asked for |
| run, restart, kill (`internal/daemon/transient.go`, `internal/kill`) | `RunContainerViaTransientUnit`, `KillContainer` | systemd, machined and the run lock each know something else of the container | enter when ready; a restart replaces; run comes to an end |
| varlink service (`internal/varlinkhost`) | `NotifyStart`, `NotifyReloadExports` | old configuration | see the two rows above |
| session, ptys (`internal/session`, `internal/ptyservice`) | enter, forward, wait | reads before the pty is open, short writes, signals at any moment, a status read late | streams arrive in order; output of a session that goes on is shown; nsbox ends with the command, with its exit code |
| replay (`data/scripts/nsbox-enter-setup.sh`, `internal/image`) | resolve the chain, find changed images, replay, save digests | failures in the middle of a chain, two sessions at once, images updated meanwhile | a saved digest means that the playbook has run; who gets in finds every playbook run; one can get in |
| authentication and sudo (`direct.go`, `data/scripts/nsbox-init.sh`, `UpdateManualPassword`) | leave files, take them up, remove them | starts that die between any two steps, a command at the same time, what earlier configurations left | the account in the container is that of the host, or the password is the one given |
| virtual network (`internal/network`, `direct.go`) | make up a name, trust, untrust | zones that are shared, kills, refusals | an interface in use is trusted, and no other is for ever |
| private directories (`container.go`, `direct.go`, `internal/args/array_transform.go`) | edit the list, make the directories, bind them | options given twice, items in each other, starts that die, names used again | nsboxd accepts what config saved; the list is what was asked for; what is listed is private, and the user's |
| nspawn arguments, message transport, D-Bus, icons | (pure, or I/O only) | escaping | not modelled |

The behaviours that are hard to test are listed, each at its line, under
`hazards` in `PROJECT.json`, with the properties that watch them.

## Modules

| module | models | checked by |
|---|---|---|
| `LockPromise` | what the locks promise: each level a mutex, a grant atomic | (abstract) |
| `ContainerLocks` | `Lock` and `Release`, one system call at a time | `MCContainerLocks` |
| `LockAndDelete` | `ContainerLocks` and `os.RemoveAll` of the directory the locks are in | `MCLockAndDelete` |
| `ContainerLocksProofs` | theorems of both | TLAPS |
| `Inventory` | directories and the default link under create, delete, rename, set-default, list | `MCInventory` |
| `InventoryProofs` | its theorems | TLAPS |
| `Exports` | `config.json`, the two export instances, the link, rename, and reloads in nsboxd | `MCExports` |
| `ExportsProofs` | its theorems | TLAPS |
| `Lifecycle` | run, restart, kill, nsboxd, nspawn, systemd and machined | `MCLifecycle` |
| `LifecycleProofs` | its theorems | TLAPS |
| `Session` | `EnterContainer`, the forwarding of its pty and of signals, the command's start and end | `MCSession` |
| `SessionProofs` | its theorems | TLAPS |
| `Replay` | `Image.ResolveChain`, `nsbox-enter-setup.sh` in several sessions, updates of images | `MCReplay` |
| `ReplayProofs` | its theorems | TLAPS |
| `Startup` | what nsboxd, `nsbox-init.sh` and `nsbox config -auth` do to the account of the user | `MCStartup` |
| `StartupProofs` | its theorems | TLAPS |
| `Network` | `GenerateUniqueLinkName`, and the trust in the interface while nsboxd runs | `MCNetwork` |
| `PrivateDirs` | the list of private directories, how they are made, and what the container shows | `MCPrivateDirs` |
| `NsboxdProofs` | theorems of `Network` and `PrivateDirs` | TLAPS |

`LockAndDelete` extends `ContainerLocks`. `Exports` takes its locks from
`LockPromise`, which `ContainerLocks` is proved to implement, so it can treat a
grant as one step. `Inventory` and `Lifecycle` need only one lock each (the full
lock of a directory, the run lock) and keep its holder in a variable, in the
same atomic way. `Session` begins where `Lifecycle` ends, at the state `enter`, and
shares nothing with it but whether the container is booted. `Replay` is what a
session does in the container before its command. `Startup`, `Network` and
`PrivateDirs` each take one concern out of `RunContainerDirectNspawn`, and keep
from the rest of it only that there is one nsboxd to a container at a time, which
`LockCoversContainer` of `Lifecycle` is about. `PrivateDirs` takes create, rename and
delete as one step each, as `Inventory` has their steps.

### ContainerLocks

`files[l]` is the inode of the lock file of level `l`, 0 while there is none;
the lowest level, `FullContainerLock`, is the directory itself. `call[p]` is a
call to `Lock` in progress (the level asked for, the level it is at, the
descriptors got so far) and `held[p]` the locks granted to `p`. The steps are
those of container.go:313-379: create the file if it is not there, open it,
`flock` it, go to the next level. `flock` belongs to the inode that was opened.
A process may die before any step; its descriptors are closed. `CallSites`
lists every call in the program with its level and whether it waits;
`Roles` assigns them to processes.

### LockAndDelete

Adds the entries of the directory, `container.Open`, and `RemoveAll`: a listing,
one `unlink` per entry in any order, `rmdir`. A lock file that is unlinked may be
created again under a new inode by a process that arrives later.

### Inventory

`dir[e]` is what an entry of the inventory is: its inode, whether it has
`config.json`, and how much of the image is in its storage (two parts are enough
for "some of it"). A command is a process with a program counter; each action
is one file system operation of the function named in the comments, and any
process may die before any action. `RenameTargets` is what users give rename as the
new name: any entry, as the code does not check it, `NAME.stage` included. For the
properties only, `cut` are the creates whose stage another create of the name has
removed or moved away since they began to fill it: they go on by path, in the stage
made after it.

### Exports

`link` and `linkTmp` are the symbolic links `exports` and `exports.tmp`: the instance
they name and the container name in their path (they hold absolute paths).
`instance[i]` holds the desktop files of `exports.i`, and whether it is whole:
it is so from the end of the update that built it until the one that retires
it. `loaded[p]` is the `Container` value of a process: that of a command is read
when it starts, that of nsboxd once for all reloads. `work[w]` is what a command,
or a connection of nsboxd, is doing. For the properties only, `steady` are the
files that stayed installed since the update took its lock and were not logged as
ones that could not be opened or written, and `lost` tells whether the walk was given up
because a file vanished. `UpdateFails` is an error at any call whose error is
returned: the lock is given up, and nothing is undone.

### Lifecycle

`unit`, `nsboxd`, `nspawn` and `service` are the running instance, numbered by
`gen`, as systemd, the kernel and the container see it. `machine` is
machined's own view, which lags behind; `lock` is the holder of the run lock,
with `"instance"` for nsboxd and the nspawn that inherits its descriptor.
`readied` are the instances that sent READY, and `boot` tells whether the
container is a booted one. The actions of systemd, machined
and nspawn are external: they are modelled from what the code relies on (a
transient unit of type notify; one start job with one result; a machine known
from its registration on; SIGTERM to nspawn when nsboxd dies).

### Session

`host` is where `EnterContainer` is, `client` the nsenter or systemd-run it waits
for, `cmd` the command in the container. `fwd[d]` is the goroutine in
`nsbox_forward_pty` of direction `d`, with what it has read and not yet
written; `queue` is what lies in the keyboard and in the two directions of the
pty, and what has arrived at the command and on the screen, numbered in the
order in which it was typed or printed. The signal goroutine is `catcher`. What
the code leaves to chance is nondeterministic: `handle` is assigned while that
goroutine may read it (an interface is two words, so there is a state between);
a signal that finds it busy is dropped; a write cut short goes on at
`&buffer + offs`, which is `offs` buffers further, and writes something else
(0) or fails; a unit whose status is read after systemd has unloaded it reads as
ended by signal 0, and a status that is missing, as the unit cannot be read or nsenter
not be waited for, makes `EnterContainer` panic. The signals are the four that nsbox
forwards. The pty service gives a pty or an error. The command, the terminal and the two
clients are external.

### Replay

`layout` is the parent of every image and what is in the custom and in the system
directory under its name; `content[i]` is the revision of the files of an image, which
the host may update at any time, and `Lines(i, n)` are the lines a digest of revision
`n` has: an update changes files, adds some or removes some. `phase`, `next` and `chain`
are nsboxd resolving the chain. `saved[i]` and `tmp[i]` are the files `IMAGE.sha256` and
`IMAGE.sha256.tmp` in the container: the lines in it, which may be fewer than the image
has files, and the revision they were taken of. A digest that fails or is cut off does
not end the session, as `set -e` does not hold in a substitution: the playbook runs, and
the digest is saved. `Unchanged` is what `sha256sum -c` says: that some lines are there
and all of them are right. `session[s]` is one run of `nsbox-enter-setup.sh`: the list
it is at, first of the images to check and then of those to play. A session may be
killed, its playbook may fail, the container may stop. For the properties only, `ran[i]`
is the newest revision the playbook has run with, `session[s].by` are the lines by which
a session was let past each image, `stale` the images whose playbook has not run since
they or a base changed, and `mixed` the digests that one session took over another.

### Startup

`account` is the user on the host: a number for the password, and the rights, which are
the sudoers rules, what comes of cvtsudoers (an answer, a failure, it is not there, or
nsbox was built without it) and whether the user is in the group of sudoers. `custom`,
`entry` and `private` are the files and the directory `.nsbox-priv` of the container,
`nopasswd` its file of sudoers, and `shadow` is the user's line in `/etc/shadow` and in
`shadow.x`. `pc` goes through one start, in nsboxd and then in `nsbox-init.sh`; `cmd` is
`nsbox config -auth`, which takes no run lock and so may come at any moment. Either may
be killed at any step. A password is numbered by the change of the host's account or by
the command that gave it; a file that has been created but not written is `Empty`. Where
the code looks at no error of a write, the start or the command goes on: `start.short`
are the files of a start that were cut off so. `asked` and `commanded` are for the
properties.

### Network

`name[c]` is the name of the zone being made up for a container and then in use,
`letters[c]` how many of its letters may still be changed, `seen[c]` the links when
they were listed. `owns[c]` is the deferred call to untrust the interface, `trusted`
what firewalld trusts. Two nsboxds may list the links at the same time. firewalld
may be missing, or refuse; nsboxd may be killed. `shared` (who used a name while
another did) and `left` (what was left trusted) are for the properties.

### PrivateDirs

`containers`, `list` and `owner` are the container of each name, the list in its
configuration, and who owns each directory of the private home of a name. `run` is
one nsboxd: which item and which part of its path `MkdirAllOwnedByUser` is at, and
the list it loaded. `files` says which container wrote what where. An item is a
sequence of characters, as two regular expressions and a loop over characters
decide which ones are accepted, and they must agree; `Parts` is what
`filepath.Join` makes of it. `Binds` is what nspawn is told, `Shown` what it makes of
it: a set, as two mounts may be for the same place. Its specification is
`PrivateSpec`, so that a module may extend it together with `Network`.

## Runs

`replay` takes two and a half minutes, `exports`, `session`, `startup`, `private_dirs` and
`lifecycle` about one each; the others take seconds. Bounds are
constants of the modules, and every counter has one.

| run | properties | what it shows |
|---|---|---|
| `locks` | `TypeOK` `LockExclusion` `NoCircularWait` `PromiseKept` | three processes, all call sites: no two granted locks share a level, nobody waits in a circle, and the calls implement `LockPromise` |
| `delete` | `DeleteRefusedWhileRunning` | no delete begins to remove while a running nsboxd holds the run lock that is there |
| `inventory` | `TypeOK` `OnlyHolderTouches` `ArrivesComplete` `OnlyDeleteRemoves` | containers are changed only under their full lock, appear complete but for a create whose stage another one took away, and are destroyed by a delete only |
| `exports` | `TypeOK` `LiveExportsWhole` `ConfigWhole` `UpdateTakesEffect` | what the host follows is whole at every moment; success means the exports asked for, but for files logged as failed, and none at all if a file vanished in the walk |
| `lifecycle` | `StarterEntersReady` `LockCoversContainer` `RestartReplaces` `RunSettles` `KillReturns` | who starts an instance enters it only when ready; the run lock outlives nsboxd; a restart does not enter what it found; `nsbox run` comes to an end, but for one send that nobody may receive; a kill that waits for the run lock of an instance that is stopping gets it, or another instance is started |
| `session` | `TypeOK` `StreamsInOrder` `ExitCodeTrue` `OutputShown` `SessionEnds` | nothing is lost, repeated or reordered between terminal and command unless a write is cut short; output of a session that goes on is shown, though reading begins before the pty is open; nsbox ends when the command does, and with its code unless it reports a signal |
| `replay` | `SavedWasPlayed` `EntryUpToDate` `BasesFirst` `GetsIn` | two sessions of a container with three images: a digest is saved only for a playbook that has run; who gets in finds each of them run, bases first, with those present files that it was compared by; who tries again gets in |
| `startup` | `SudoFollowsHost` `HostPassword` `NextRunApplies` `ManualStays` | however starts and commands die and meet: the rights of a container that is ready are those that the start found on the host, the password is the host's, or the one that was given and no restart replaces |
| `network` | `TypeOK` `TrustedWhileUp` `NothingForgotten` `NameFits` `Settles` | three containers: an interface in use is trusted, nothing else stays so but what a kill or a refusal left; the search for a name ends, with one that fits |
| `private_dirs` | `NsboxdAccepts` `ListAsAsked` `PrivateShown` `OwnedByUser` | two containers, two commands on their lists: what config accepts nsboxd accepts; the list is what the guide says; listed directories are private and the user's, however they lie in each other |

Deadlock is checked in `locks`, `replay`, `startup`, `network` and `private_dirs`. It
is not in the others: there the number of
commands is bounded and the system stops when they are used up, or, in
`delete`, when the container is gone, or, in `session`, when nsbox has ended.

Why the bounds are enough: the lock runs have three processes, one more than any circle
or exclusion needs, and every level is in use. `inventory` has two processes and two
names, and three commands, so that one command can finish and a second one start while
the third one is in the middle. Two creates of one name may overlap and share their
stage, and rename may be given the name of a stage. `exports` has two desktop files, two
commands, one connection of nsboxd and two names, with four starts of something and two
changes of packages: enough for both instances to be in use, one to be left over from a
death and an update on each side; any update may fail at any call. `lifecycle` has two
processes, three commands of any kind and three instances, so that an instance can be
replaced twice, and a container that is booted or not. `session` has one session, which
shares nothing with another one: two units in each direction are enough for a read of
both, a short write, and a second read behind the first; the sets of terminals are none,
input only, output only and all; one signal comes at any point. `replay` has three
images, each derived from the one before, so that a chain has a middle, with an update
that changes a file, one that adds one and one that removes one; an image that is its
own parent and one whose custom directory is broken; two sessions, one update and one
fault (a kill, a playbook or a digest that fails, a restart), each at any moment.
`startup` has one change of the host's account, with seven kinds of rights, two commands
and two deaths or ignored errors, at any step of four starts or more: enough for a file
left by one start or command to meet another start, which dies, and a third one.
`network` has three containers, two of which begin with the same letters and a third one
whose name is taken already, and names of three letters, so that the search changes some
of them, or all in vain. `private_dirs` has two names, two containers, two commands and
one death of a start, with 18 ways to give the option: items below each other, the home
itself, also as `./`, doubled ones, refused ones, no items, and several occurrences. A
path of two parts has a middle for a start to die at; lists have up to three items.

In `session` the goroutines of nsbox go on and its client ends when the command has; the
command itself, the user and signals owe nothing. In `lifecycle` (`Fairness` in
`Lifecycle`) a command that can take a step takes it; nsboxd asks for its lock; systemd
reaps a unit whose processes are gone and, by its start timeout, stops one that does not
become ready; a container told to stop stops (systemd kills what does not); machined
notices in the end. `flock` wakes whoever it likes: that a kill gets the run lock at
last rests on there being only so many commands and instances that could take it first
(`KillReturns`). Nothing obliges a user to give a command, a container that runs to end,
or the follower of the journal to stop, though it may do so at any time. In `replay` the
container is started again when it has stopped, playbooks come to an end, and whoever
failed to enter tries again, which is what `GetsIn` is about. In `network` an nsboxd
goes on with what it began; nothing obliges nspawn to end, or anybody to start a
container.

### What the code does that its documentation does not say

These runs expect a violation: the property is what the documentation, a
comment or a message of nsbox says, and TLC finds the run of the program that
does otherwise. Each is listed under `findings` in `PROJECT.json` with the
line and the quotation.

| run | what happens |
|---|---|
| `replay_dependents` | of several images to be replayed only the first one's digest is taken; the session ends at the rename of the second one's, and later ones do not replay what is left |
| `private_reused` | a container that is created under the name of a deleted one shows that one's private files |

The models show more behaviours of this kind, which have no run of their own.
Most are hazards in `PROJECT.json`, each at its line:

- a start that comes in the middle of a delete runs on a new `run.lock` while its
  storage is removed, and a delete that is killed leaves a name that can be neither
  deleted nor created;
- of two creates of one name, one removes or moves away the stage that the other is
  filling, and what that one goes on to fill may be shown incomplete;
- an update that dies between the link and its rename leaves `exports.tmp`, and no
  later one succeeds; of two appends to a list in the configuration one is lost;
- run waits for ever when the reader of the journal has stopped by itself;
- rename without a default container dereferences nil (the state `panic`);
- rename undoes a set-default that came in between, and of two set-defaults one
  installs the other's link;
- a container made the default, or renamed into place, during the prompt of
  delete is deleted;
- a container renamed to `NAME.stage` is removed by the next create of `NAME`;
- list ends with an error when one container goes away;
- a reload exports by the configuration that nsboxd read at its start;
- one desktop file that vanishes during the walk drops all of its directory, and the
  update succeeds;
- a kill that has finished waiting holds the run lock for a moment, in which a
  start is refused;
- a restart of a container that is not booted may enter what it has just
  killed, while machined still lists it;
- a second run enters a container as soon as nspawn has registered it, before its
  service is ready;
- a signal sent to a session of a booted container reaches the command as SIGTERM,
  for `systemctl kill` is not told which one it was, and one that comes between
  the two words of `handle` may make nsbox panic;
- what a command prints just before it ends may not be shown;
- a session whose unit cannot be asked for its status, or whose nsenter cannot be waited
  for, panics;
- a file added to an image does not make `sha256sum -c` fail, so its playbook is not
  replayed; a digest that fails or is cut off is saved all the same, and the files it
  leaves out are not looked at again; parents that lead back to an image end nsboxd; a
  broken custom image hides the good one of the system;
- a custom password is lost when `nsbox-init.sh` dies between `rm` and `mv`, and one
  that was never taken up is taken up after a change back to `auto`, against
  guide.md:207;
- a start that dies just after it has created `shadow-entry`, and then one with a
  custom password that is killed between the two removals, leave the next one an
  empty entry, and the user without a line in `/etc/shadow`; so does a write of the entry
  that fails, as nothing looks at its error; a command that dies before it writes
  the password, or whose write fails, leaves an empty password;
- sudo rights that the host's rules give are withdrawn in the container by a start that does
  not find cvtsudoers, or for which it fails; without a whole `shared-env` the user is
  taken out of the group;
- `nsbox config -auth=manual` fails before the first run, for want of the directory,
  and leaves the password in place when another option is invalid;
- the names of zones are looked up without `vz-`, so two containers may share
  one, and the first to end untrusts it for both; the last name made up is given up
  without being looked up; a killed nsboxd leaves its interface trusted;
- a private directory made by a start that died stays root's; a rename
  hides a container's private files from it; a bare `+`, `-` or `:` keeps the items of
  an earlier occurrence; an item twice in one argument is listed twice;
  a home listed as `./`, and not as `.`, is bound twice at the same place, the user's and
  the private one, and only nspawn's order says which of them shows (`PrivateShown`
  makes an exception of it).

## Proofs

`ContainerLocksProofs` proves, for any set of processes and any assignment of
call sites to them:

- `Typing`: `Spec => []TypeOK`.
- `MutualExclusion`: `Spec => []LockExclusion`.
- `Refinement`: `Spec => PromiseKept`, with the locks held mapped to the
  levels granted: each step of a call is a stutter, but for the last one, which is a
  grant, and the release, which yields.
- `NoDeadlock`: `Spec => []NoCircularWait`, from the assumption
  `WaitersHoldNothing` about the call sites (one that waits holds nothing else and
  asks for one level), which the call sites of the program meet.

`LockExclusion` speaks of levels and is not inductive: what excludes is the
inode that was locked. The invariant `IInv` adds that distinct levels name
distinct inodes (`FilesInv`), that a call in progress and a granted lock hold
exactly the inodes of the levels they have behind them (`CallInv`, `HeldInv`),
and that no inode is locked twice (`Exclusive`).

These hold for `ContainerLocks` as it stands, where lock files are not removed. In
`LockAndDelete` they are, under the locks that were made of them, and `IInv` fails:
a level may name an inode that nobody has locked. There the module proves, for any
processes, call sites and contents of the directory:

- `DeleteRefused`: `DSpec => DeleteRefusedWhileRunning`.

What is left of the argument is the directory, which is made once. `DInv` says that
no inode is locked twice, that a full lock in progress has locked the directory and,
at each level behind it, the file that still has that name (`FullCall`), that a full
lock granted has all three of them until its holder begins to remove (`FullHeldInv`),
and that only the holder of a full lock removes (`RemovalInv`). Whoever has locked the
directory is alone in it (`AloneInside`), which is why the files behind it stay. A container
that was started after the removal began is not covered, and need not be refused: see
the hazard at container.go:395.

`ExportsProofs` proves, for any sets of desktop files, commands, connections,
names and list operators and any bounds, from the assumptions of `Exports`
(commands, connections and nsboxd are different processes, the first name is a
name):

- `Typing`: `Spec => []TypeOK`.
- `LiveExports`: `Spec => []LiveExportsWhole`.
- `ConfigAlwaysWhole`: `Spec => []ConfigWhole`.
- `TakesEffect`: `Spec => []UpdateTakesEffect`.

`LiveExportsWhole` and `ConfigWhole` are not inductive. That an update never resets or
removes the instance the link names depends on what it read when it began being still
true, so `IInv` says who may have changed it: whoever is in an update has the exports
lock and whoever works on `config.json.tmp` the configuration lock, and no lock is
granted twice (`LocksInv`, with the lemma `Alone`); the worker's `old` is what the link
names, `new` is the other instance, `new` is whole when its link is made, `exports.tmp`
is its own when it is renamed, and `old` is not what the link names once it is retired
(`UpdateInv`); the link names a whole instance whatever its path (`LinkInv`); and
`config.json.tmp` is whole when it is renamed (`ConfigInv`). The proof has a lemma for
what leaves each part unchanged, and one step per action.

`TakesEffect` needs more, for it compares what the host sees at the end of an update
with the configuration that was in force at its start, the container's name and the
files that stayed installed in between. The files that were logged as failed and a walk
that was given up (`lost`, after which it shows nothing) are what the property leaves
out, as the code does. `HoldInv` says that whoever has a lock works under the present
name, as rename takes all of them; `WrittenInv` that what a command has loaded is what
it has written; and `ProgressInv` follows the files of the configuration through the
update: every one that stayed is still to be looked at, or found, or in the new instance
under the present name; after a walk that was given up, nothing is.

The locks in `Exports` are those of `LockPromise`; `Refinement` of
`ContainerLocksProofs` is what makes this a statement about the `flock` calls of
the program.

`NsboxdProofs` proves about `Network`, for any containers, any links of others, any
length of names and any number of faults, from `NetworkAssumption` (names are sequences
of letters, the bounds natural numbers):

- `Typing`: `Spec => []TypeOK`.
- `StaysTrusted`: `Spec => []TrustedWhileUp`.
- `Remembered`: `Spec => []NothingForgotten`.
- `NamesFit`: `Spec => []NameFits`.

That the end of one nsboxd leaves the interface of another one trusted rests on their
names being different, which nothing in the code ensures; what holds is that two
that are active with one name are both in `shared` (`SharedInv`). With
it, `TrustInv` extends the property to all of the time between the answer of
firewalld and the deferred call, `OwnsInv` says that no other nsboxd has a call to
make, and `FitInv` follows the name while it is made up.

About `PrivateDirs` it proves, for any names, any arguments of the option, lists of any
length with items of any depth and any bounds, from `PrivateDirsAssumption` (commands
are sequences of arguments, the bounds natural numbers):

- `Accepts`: `PrivateSpec => []NsboxdAccepts`.
- `AsAsked`: `PrivateSpec => []ListAsAsked`.
- `ShowsPrivate`: `PrivateSpec => []PrivateShown`.
- `Owned`: `PrivateSpec => []OwnedByUser`.

Most of this is about data. `NoDotsIs` says of every sequence of characters that the
regular expression of `UpdateConfig` finds no match in one with two dots in a row, which
is what the loop of `bindPrivate` panics on. `ValueIs` says which occurrence of the
option counts, `WithoutIs` and `ApplyIs` what is left of a list, and that nothing is in
it twice. `PartsTyped` is about what `filepath.Join` leaves of an item, `ShownIs` and
`ShownRight` about the deepest of the mounts over a directory. Of the states, `ListInv`
says that what is listed has passed `UpdateConfig`, `RunInv` that nsboxd is on the way
to an item of a list that has, `OwnerInv` that a directory is root's only between its
mkdir and its chown, or when its start died there, and `MadeInv` that every directory
nsboxd has behind it is there.

`InventoryProofs` proves, for any processes, names, commands, new names of rename and
bounds, and with no assumption about who runs beside whom:

- `Typing`: `Spec => []TypeOK`.
- `HolderTouches`: `Spec => OnlyHolderTouches`.
- `Arrives`: `Spec => ArrivesComplete`.
- `DeleteRemoves`: `Spec => OnlyDeleteRemoves`.

The lock is asked for by path and granted on a directory, and the path may lead to
another one by then. `HolderInv` says that it does not as long as the lock is held:
whoever is past its grant has the lock of the directory its path leads to, and no
directory is locked twice. A create holds no lock at all, and another create of the
name, or a rename, may work on its stage at any time. `StageInv` says what is left:
until another create removes the stage or moves it away (`cut`), it holds all that a
create has put into it, as whoever shares it only adds, and a rename never replaces what
is there. `OnlyDeleteRemoves` speaks of the entries `NAME`, which no create removes; a
container that was renamed to `NAME.stage` is no longer one of them.

`LifecycleProofs` proves, for any processes and any bounds on commands and instances:

- `Typing`: `Spec => []TypeOK`.
- `LockCovers`: `Spec => []LockCoversContainer`.
- `EntersReady`: `Spec => []StarterEntersReady`.
- `Replaces`: `Spec => []RestartReplaces`.

Four processes each know something else of an instance, so each part of `IInv` says what
one of them may conclude: what systemd knows of the processes of a unit (`UnitInv`), that
the instance has the lock while a process of it has the file open, and a kill between
grant and release only (`LockInv`), that a job which ended well is one of an instance
that was ready (`JobInv`), and that machined knows of a booted container while
nspawn runs it (`MachineInv`, which is what fails for one that is not booted).
`RestartInv` follows the instance a restart has found from the signal to the new job:
once the lock was granted that instance is stopping and its nspawn gone, and the new
job's instance is a younger one.

`SessionProofs` proves, for any number of units and signals and any terminals:

- `Typing`: `Spec => []TypeOK`.
- `InOrder`: `Spec => []StreamsInOrder`.
- `CodeTrue`: `Spec => []ExitCodeTrue`.

What has arrived says nothing about what is on its way. `InLine` and `OutLine` say that
what has arrived, what the goroutine has read and not yet written, what is left in the
pty and what has not been read yet are consecutive runs of what was sent (`Run`),
as long as no write was cut short; `StrayInv` says that only such a write leads to one of
other bytes, `OffInv` that nothing is forwarded before there is a pty.

`StartupProofs` proves, for any bounds on changes, commands and deaths:

- `Typing`: `Spec => []TypeOK`.
- `SudoFollows`: `Spec => []SudoFollowsHost`.
- `FollowsHost`: `Spec => []HostPassword`.
- `Applies`: `Spec => []NextRunApplies`.
- `Stays`: `Spec => ManualStays`.

All but the first relate a ready container to what a start found some ten steps earlier,
or to a command before it, with deaths in between. `OrderInv` keeps the order of the
steps of `nsbox-init.sh`, `HostInv` follows the host's password from getent to the line,
if it was written, `ManualInv` says that without a command there is nothing left a start
could take up, and `AloneInv` and `AskedInv` follow the password that was given: it
waits in its file, or is on the way into the shadow file, or is in force. `SudoInv`
follows what `GetSudoAccess` found on the host, by the rules or without them, to the
group and the file of sudoers; `LastDecides` says of any number of rules that the fold
over them answers what the last one says that is for the user and lets them run any
command.

`ReplayProofs` proves, for any images, layouts, sessions and bounds:

- `Typing`: `Spec => []TypeOK`.
- `SavedPlayed`: `Spec => []SavedWasPlayed`.
- `UpToDate`: `Spec => []EntryUpToDate`.
- `Bases`: `Spec => []BasesFirst`.

A session saves the digest that lies there, which need not be its own, nor whole, and
reads digests that others saved. `LinesInv` says that a digest lists nothing but files
of the revision it was taken of. `PlayInv` says what is known of a digest while a
playbook runs: unless it was taken again, neither it nor the one that was saved is of a
later revision than the playbook was started with. A line that is right now and was
right in an earlier revision was so in between, but for files that changed and were then
put back (`Returned`): so lines that agree with the present files agree with those the
playbook ran with. A digest that two sessions worked on (`mixed`) may say more than has
run, and a session may have gone by it; `Fresh` is why that does no harm once the digest
is one session's own again: whoever is still running the playbook was started with those
lines. `BehindInv` says that what a session is done with is the first part of the chain,
that all of it is `Fresh` and that its playbooks have run; with `ChainInv`, that every
image is derived from the one before it, `BasesFirst` follows.

Folds and recursive functions over sequences run through `StartupProofs` and
`NsboxdProofs`. An induction theorem takes the property as a parameter, which the
provers cannot instantiate. The lemmas take a set instead: of the numbers for which a
statement fails, if there are any, there is a smallest one (`Smallest`, from
well-foundedness), and the step to it from the one before is an ordinary one
(`Reaches`). That the folds of the library satisfy their equation at all is shown in
the same way, as they are defined by a choice among functions.

Only model-checked: liveness (`RunSettles`, `KillReturns`, `OutputShown`, `SessionEnds`,
`GetsIn`, `Settles`), as liveness under fairness and ENABLED are beyond the prover.
Every other property of a passing run is stated by a theorem.

## Not modelled

Wording, colours and logging; the contents of desktop files and icons; how an image
is fetched and unpacked beyond "in parts, and it may fail"; the branch of `bindHome` for a
host whose `/home` is a symbolic link (direct.go:55-74; `PrivateDirs` takes it to be a
directory); the descriptor that `Lock` leaves open at the level that was refused
(container.go:353-358), which holds no lock; the
arguments given to nspawn, which are a pure function of the configuration and whose
order and escaping only nspawn could judge; users other than one; crashes of the
host (a process may die, the file system does not). The number of descriptors, and
when Go finalizes a file that the pty service has passed on, are not modelled:
`Session` has its answer, a pty or an error. The generated code of the bus and
varlink interfaces, the D-Bus forwarder, the message transport (framing of a stream
on which one request is sent at a time), the lookup of icons and the command line keep
no state that two steps could disagree about. Components that are not modelled at all
are listed in `PROJECT.json` with the reason.

## Plan

Written in this order, the most important first; the first ten steps are done.

1. Locks: `LockPromise`, `ContainerLocks`, their proofs, `LockAndDelete`.
2. `Exports`: configuration and exports over `LockPromise`.
3. `Inventory`: the commands on directories.
4. `Lifecycle`: run, restart, kill.
5. `Session`: entering, the ptys, signals and the end.
6. `Replay` and `Startup`: the scripts.
7. `Network`: zone names and trust.
8. `PrivateDirs`: lists, their checks and the directories.
9. Proofs: of every safety property that a run checks. Those of `LockCoversContainer`
   and `OnlyHolderTouches` are what other modules rely on.
10. The liveness of kill, which waits for the run lock and not for the instance it
    signalled.
11. Compositions: `Lifecycle` with `LockAndDelete` (a start against a delete),
    `Inventory` with `Exports` (rename and the absolute links).

The number of runs is kept to a dozen: a run of a composition takes the place of one
of the two parts it is made of.
