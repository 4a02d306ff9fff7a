----------------------------- MODULE Lifecycle -----------------------------
(***************************************************************************)
(* Starting, entering, restarting and killing one container: nsbox run     *)
(* (internal/daemon/transient.go), nsbox kill (internal/kill), nsboxd and  *)
(* the systemd-nspawn it runs (internal/daemon/direct.go), the service in  *)
(* the container that reports it ready (cmd/nsbox-host/service.go), and    *)
(* what systemd and machined know of it all.                               *)
(*                                                                         *)
(* nsboxd runs as a transient unit of type notify; nspawn stays in that    *)
(* unit and keeps nsboxd's run lock open.  machined has its own view: it   *)
(* learns of a machine when nspawn registers it, and of the end of one     *)
(* from nspawn or, if that was killed, some time later.                    *)
(***************************************************************************)
EXTENDS Naturals

CONSTANTS
    Procs,         \* processes that run commands
    Commands,      \* those given, of "run", "restart", "kill", "killall"
    MaxStarts,     \* bound: instances of the container ever started
    MaxCommands    \* bound: commands ever given

ASSUME LifecycleAssumption ==
    /\ Commands \subseteq {"run", "restart", "kill", "killall"}
    /\ MaxStarts \in Nat
    /\ MaxCommands \in Nat
    /\ Procs \cap {"free", "instance"} = {}

VARIABLES
    boot,      \* Config.Boot, which no command changes
    gen,       \* the number of the instance started last
    unit,      \* systemd: the state of the unit
    nsboxd,    \* the main process of the unit
    nspawn,    \* the systemd-nspawn it runs
    service,   \* nsbox-host service in the container
    stopping,  \* whether the container has been told to stop
    machine,   \* machined: the instance registered under the name, or 0
    lock,      \* who holds the run lock
    readied,   \* the instances that have reported themselves ready
    work,      \* the command each process runs
    commands

instance == <<gen, unit, nsboxd, nspawn, service, stopping>>
vars == <<boot, instance, machine, lock, readied, work, commands>>

\* id: the instance started, or the leader to be signalled; old: the
\* instance that a restart kills; job: the result of the start job.
Idle == [pc |-> "idle", cmd |-> "none", id |-> 0, old |-> 0, job |-> "none",
         follow |-> FALSE]
Works == [pc : {"idle", "lookup", "kill", "signal", "waitrun", "release",
                "get", "reset", "start", "wait", "flush", "enter", "done"},
          cmd : {"none", "run", "restart", "kill", "killall"},
          id : Nat, old : Nat, job : {"none", "done", "failed"},
          follow : BOOLEAN]

TypeOK ==
    /\ boot \in BOOLEAN
    /\ gen \in 0..MaxStarts
    /\ unit \in {"none", "activating", "active", "failed"}
    /\ nsboxd \in {"none", "starting", "serving", "exited"}
    /\ nspawn \in {"none", "booting", "up"}
    /\ service \in {"none", "pty", "notified"}
    /\ stopping \in BOOLEAN
    /\ machine \in 0..gen
    /\ lock \in {"free", "instance"} \cup Procs
    /\ readied \subseteq 1..gen
    /\ work \in [Procs -> Works]
    /\ commands \in 0..MaxCommands

Init ==
    /\ boot \in BOOLEAN
    /\ gen = 0
    /\ unit = "none"
    /\ nsboxd = "none"
    /\ nspawn = "none"
    /\ service = "none"
    /\ stopping = FALSE
    /\ machine = 0
    /\ lock = "free"
    /\ readied = {}
    /\ work = [p \in Procs |-> Idle]
    /\ commands = 0

At(p, pc) == work[p].pc = pc
Goto(p, pc) == work' = [work EXCEPT ![p].pc = pc]
Fails(p) == work' = [work EXCEPT ![p] = Idle]

-----------------------------------------------------------------------------
(***************************************************************************)
(* nsbox run and nsbox kill                                                *)
(***************************************************************************)
Begin(p, cmd) ==
    /\ At(p, "idle")
    /\ commands < MaxCommands
    /\ commands' = commands + 1
    /\ work' = [work EXCEPT ![p] =
                   [Idle EXCEPT !.cmd = cmd,
                                !.pc = CASE cmd = "run" -> "get"
                                         [] cmd = "restart" -> "lookup"
                                         [] OTHER -> "kill"]]
    /\ UNCHANGED <<boot, instance, machine, lock, readied>>

\* run -restart: kill the machine if machined has one.
Lookup(p) ==
    /\ At(p, "lookup")
    /\ work' = [work EXCEPT ![p].pc = IF machine = 0 THEN "get" ELSE "kill",
                            ![p].old = machine]
    /\ UNCHANGED <<boot, instance, machine, lock, readied, commands>>

\* kill -all, and a restart of a container that is not booted, kill all its
\* processes; machined has systemd kill whatever is in the unit.
KillsAll(p) == work[p].cmd = "killall" \/ (work[p].cmd = "restart" /\ ~boot)

KillMachine(p) ==
    /\ At(p, "kill")
    /\ KillsAll(p)
    /\ ~boot
    /\ machine # 0
    /\ unit # "none"
    /\ nsboxd' = IF nsboxd = "none" THEN "none" ELSE "exited"
    /\ nspawn' = "none"
    /\ service' = "none"
    /\ lock' = IF lock = "instance" THEN "free" ELSE lock
    /\ Goto(p, "waitrun")
    /\ UNCHANGED <<boot, gen, unit, stopping, machine, readied, commands>>

\* Otherwise machined is asked for the leader, which is then signalled.
DescribeMachine(p) ==
    /\ At(p, "kill")
    /\ ~KillsAll(p)
    /\ machine # 0
    /\ work' = [work EXCEPT ![p].pc = "signal", ![p].id = machine]
    /\ UNCHANGED <<boot, instance, machine, lock, readied, commands>>

Alive(id) == id = gen /\ nspawn = "up"

\* Mutant: a restart goes on without waiting for the run lock.
SignalWithoutWait(p) ==
    /\ At(p, "signal")
    /\ Alive(work[p].id)
    /\ stopping' = TRUE
    /\ Goto(p, "get")
    /\ UNCHANGED <<boot, gen, unit, nsboxd, nspawn, service, machine, lock,
                   readied, commands>>

SignalLeader(p) ==
    /\ At(p, "signal")
    /\ Alive(work[p].id)
    /\ stopping' = TRUE
    /\ Goto(p, "waitrun")
    /\ UNCHANGED <<boot, gen, unit, nsboxd, nspawn, service, machine, lock,
                   readied, commands>>

\* KillContainer waits for the run lock, and releases it at once.
WaitRunLock(p) ==
    /\ At(p, "waitrun")
    /\ lock = "free"
    /\ lock' = p
    /\ Goto(p, "release")
    /\ UNCHANGED <<boot, instance, machine, readied, commands>>

ReleaseRunLock(p) ==
    /\ At(p, "release")
    /\ lock' = "free"
    /\ Goto(p, IF work[p].cmd = "restart" THEN "get" ELSE "done")
    /\ UNCHANGED <<boot, instance, machine, readied, commands>>

\* A machine that machined knows is entered as it is.
GetMachine(p) ==
    /\ At(p, "get")
    /\ work' = [work EXCEPT ![p].pc = IF machine = 0 THEN "reset" ELSE "enter",
                            ![p].id = machine]
    /\ UNCHANGED <<boot, instance, machine, lock, readied, commands>>

ResetFailedUnit(p) ==
    /\ At(p, "reset")
    /\ unit' = IF unit = "failed" THEN "none" ELSE unit
    /\ Goto(p, "start")
    /\ UNCHANGED <<boot, gen, nsboxd, nspawn, service, stopping, machine, lock,
                   readied, commands>>

\* The job is queued, nsboxd starts, and the journal is followed.
StartTransientUnit(p) ==
    /\ At(p, "start")
    /\ unit = "none"
    /\ gen < MaxStarts
    /\ gen' = gen + 1
    /\ unit' = "activating"
    /\ nsboxd' = "starting"
    /\ stopping' = FALSE
    /\ work' = [work EXCEPT ![p].pc = "wait", ![p].id = gen + 1,
                            ![p].follow = TRUE]
    /\ UNCHANGED <<boot, nspawn, service, machine, lock, readied, commands>>

\* The follower stops at the first entry that it cannot format.
FollowEnds(p) ==
    /\ work[p].follow
    /\ work' = [work EXCEPT ![p].follow = FALSE]
    /\ UNCHANGED <<boot, instance, machine, lock, readied, commands>>

\* Mutant of JobResult: it waits until the job is done.
JobResultDone(p) ==
    /\ At(p, "wait")
    /\ work[p].job = "done"
    /\ Goto(p, "flush")
    /\ UNCHANGED <<boot, instance, machine, lock, readied, commands>>

JobResult(p) ==
    /\ At(p, "wait")
    /\ work[p].job # "none"
    /\ Goto(p, "flush")
    /\ UNCHANGED <<boot, instance, machine, lock, readied, commands>>

\* The channel has no buffer: sending on it needs the follower.
StopFollowing(p) ==
    /\ At(p, "flush")
    /\ work[p].follow
    /\ IF work[p].job = "done"
       THEN work' = [work EXCEPT ![p].pc = "enter", ![p].follow = FALSE]
       ELSE Fails(p)
    /\ UNCHANGED <<boot, instance, machine, lock, readied, commands>>

Enter(p) ==
    /\ At(p, "enter")
    /\ Goto(p, "done")
    /\ UNCHANGED <<boot, instance, machine, lock, readied, commands>>

\* The errors: no machine to kill, -all for a booted container, the leader
\* gone, or a unit already there.
CommandFails(p) ==
    /\ \/ At(p, "kill") /\ machine = 0
       \/ At(p, "kill") /\ KillsAll(p) /\ (boot \/ unit = "none")
       \/ At(p, "signal") /\ ~Alive(work[p].id)
       \/ At(p, "start") /\ (unit # "none" \/ gen = MaxStarts)
    /\ Fails(p)
    /\ UNCHANGED <<boot, instance, machine, lock, readied, commands>>

Ends(p) ==
    /\ At(p, "done")
    /\ Fails(p)
    /\ UNCHANGED <<boot, instance, machine, lock, readied, commands>>

CommandStep(p) ==
    \/ Lookup(p)
    \/ KillMachine(p)
    \/ DescribeMachine(p)
    \/ SignalLeader(p)
    \/ WaitRunLock(p)
    \/ ReleaseRunLock(p)
    \/ GetMachine(p)
    \/ ResetFailedUnit(p)
    \/ StartTransientUnit(p)
    \/ JobResult(p)
    \/ StopFollowing(p)
    \/ Enter(p)
    \/ CommandFails(p)
    \/ Ends(p)

-----------------------------------------------------------------------------
(***************************************************************************)
(* nsboxd, nspawn and the service in the container                         *)
(***************************************************************************)
\* The result of the start job goes, once, to the run that waits for it.
AwaitsJob(p) == At(p, "wait") /\ work[p].id = gen /\ work[p].job = "none"
PostJob(result) ==
    work' = [p \in Procs |-> IF AwaitsJob(p)
                             THEN [work[p] EXCEPT !.job = result] ELSE work[p]]

\* Mutant: the unit is of type exec, and its job ends when nsboxd has started.
NsboxdLockEndsJob ==
    /\ nsboxd = "starting"
    /\ IF lock = "free"
       THEN lock' = "instance" /\ nsboxd' = "serving" /\ PostJob("done")
       ELSE nsboxd' = "exited" /\ UNCHANGED <<lock, work>>
    /\ UNCHANGED <<boot, gen, unit, nspawn, service, stopping, machine,
                   readied, commands>>

\* LockUntilProcessDeath(RunLock, NoWaitForLock)
NsboxdLock ==
    /\ nsboxd = "starting"
    /\ IF lock = "free"
       THEN lock' = "instance" /\ nsboxd' = "serving"
       ELSE nsboxd' = "exited" /\ UNCHANGED lock
    /\ UNCHANGED <<boot, gen, unit, nspawn, service, stopping, machine,
                   readied, work, commands>>

StartNspawn ==
    /\ nsboxd = "serving"
    /\ nspawn = "none"
    /\ ~stopping
    /\ nspawn' = "booting"
    /\ UNCHANGED <<boot, gen, unit, nsboxd, service, stopping, machine, lock,
                   readied, work, commands>>

\* nspawn registers the machine before the payload runs.
RegisterMachine ==
    /\ nspawn = "booting"
    /\ nspawn' = "up"
    /\ machine' = gen
    /\ UNCHANGED <<boot, gen, unit, nsboxd, service, stopping, lock, readied,
                   work, commands>>

\* nsbox-init ends in nsbox-host service: the pty service, then NotifyStart.
StartPtyService ==
    /\ nspawn = "up"
    /\ service = "none"
    /\ service' = "pty"
    /\ UNCHANGED <<boot, gen, unit, nsboxd, nspawn, stopping, machine, lock,
                   readied, work, commands>>

\* NotifyStart makes nsboxd send READY=1, and systemd ends the start job.
NotifyStart ==
    /\ service = "pty"
    /\ nsboxd = "serving"
    /\ service' = "notified"
    /\ readied' = readied \cup {gen}
    /\ unit' = "active"
    /\ PostJob("done")
    /\ UNCHANGED <<boot, gen, nsboxd, nspawn, stopping, machine, lock,
                   commands>>

\* Mutant of NspawnExits: a process that outlives it has the lock file open.
NspawnLeavesLock ==
    /\ nspawn # "none"
    /\ nspawn' = "none"
    /\ service' = "none"
    /\ machine' = IF machine = gen THEN 0 ELSE machine
    /\ stopping' = TRUE
    /\ UNCHANGED <<boot, gen, unit, nsboxd, lock, readied, work, commands>>

\* The payload ends, told to or not; nspawn tells machined, and exits.
NspawnExits ==
    /\ nspawn # "none"
    /\ nspawn' = "none"
    /\ service' = "none"
    /\ machine' = IF machine = gen THEN 0 ELSE machine
    /\ lock' = IF nsboxd = "serving" THEN lock ELSE "free"
    /\ stopping' = TRUE
    /\ UNCHANGED <<boot, gen, unit, nsboxd, readied, work, commands>>

\* Mutant: nspawn does not have the lock file open.
NsboxdDropsLock ==
    /\ nsboxd = "serving"
    /\ nsboxd' = "exited"
    /\ stopping' = TRUE
    /\ lock' = "free"
    /\ UNCHANGED <<boot, gen, unit, nspawn, service, machine, readied, work,
                   commands>>

\* nsboxd ends: when nspawn has, by an error before that, or by a signal
\* (its death is a signal to nspawn).  nspawn still has the lock open.
NsboxdExits ==
    /\ nsboxd = "serving"
    /\ nsboxd' = "exited"
    /\ stopping' = TRUE
    /\ lock' = IF nspawn = "none" THEN "free" ELSE lock
    /\ UNCHANGED <<boot, gen, unit, nspawn, service, machine, readied, work,
                   commands>>

\* systemd waits for every process of the unit; a start that was not
\* reported ready has failed.
ReapUnit ==
    /\ nsboxd = "exited"
    /\ nspawn = "none"
    /\ nsboxd' = "none"
    /\ \/ unit = "active" /\ unit' = "none" /\ UNCHANGED work
       \/ unit' = "failed" /\ PostJob("failed")
    /\ UNCHANGED <<boot, gen, nspawn, service, stopping, machine, lock,
                   readied, commands>>

\* machined notices by itself that a machine is gone.
ForgetMachine ==
    /\ machine # 0
    /\ ~Alive(machine)
    /\ machine' = 0
    /\ UNCHANGED <<boot, instance, lock, readied, work, commands>>

InstanceStep ==
    \/ NsboxdLock
    \/ StartNspawn
    \/ RegisterMachine
    \/ StartPtyService
    \/ NotifyStart
    \/ NspawnExits
    \/ NsboxdExits
    \/ ReapUnit
    \/ ForgetMachine

Next ==
    \/ \E p \in Procs, cmd \in Commands : Begin(p, cmd)
    \/ \E p \in Procs : CommandStep(p) \/ FollowEnds(p)
    \/ InstanceStep

\* Commands go on; systemd, machined and nspawn do what is asked of them, and
\* systemd stops a start that takes too long.  Nobody has to give a command,
\* and a container that runs may run on.
Fairness ==
    /\ \A p \in Procs : WF_vars(CommandStep(p))
    /\ WF_vars(NsboxdLock)
    /\ WF_vars(NspawnExits /\ stopping)
    /\ WF_vars(NsboxdExits /\ (unit = "activating" \/ nspawn = "none"))
    /\ WF_vars(ReapUnit)
    /\ WF_vars(ForgetMachine)

Spec == Init /\ [][Next]_vars
FairSpec == Spec /\ Fairness

-----------------------------------------------------------------------------
(***************************************************************************)
(* Properties                                                              *)
(***************************************************************************)
\* A run that started the container goes on to enter it only when that very
\* instance has reported itself ready (startNsboxd waits for the job's
\* result, and NotifyStart is what lets the job end well).
StarterEntersReady ==
    \A p \in Procs : At(p, "enter") /\ work[p].job = "done"
                        => work[p].id \in readied

\* While nspawn runs, whatever became of nsboxd, nobody else is granted the
\* run lock: nspawn keeps nsboxd's file open (LockUntilProcessDeath).
LockCoversContainer == nspawn # "none" => lock = "instance"

\* run -restart never enters the instance that it found running, if the
\* container is a booted one (RunContainerViaTransientUnit kills the leader
\* and waits for the run lock; nspawn tells machined before it exits).
RestartReplaces ==
    boot => \A p \in Procs : At(p, "enter") /\ work[p].old # 0
                                => work[p].id > work[p].old

\* nsbox run enters the container or gives up with an error, whatever
\* becomes of the start and whoever else kills or restarts the container,
\* but for one place: where it stops a follower that has stopped already.
RunSettles ==
    \A p \in Procs : work[p].cmd = "run"
        ~> At(p, "idle") \/ (At(p, "flush") /\ ~work[p].follow)

\* nsbox kill, or a restart, that has had an instance stop gets the run lock,
\* whichever of nsboxd and nspawn ends first and whoever else waits for the
\* lock, unless another instance is started first: it is the lock that it
\* waits for, not the instance (KillContainer).  The lock is not fair; the
\* bounds on commands and starts keep others from taking it for ever.
KillReturns ==
    \A p \in Procs, g \in 1..MaxStarts :
        At(p, "waitrun") /\ gen = g
        /\ (stopping \/ nsboxd \in {"none", "exited"})
            ~> ~At(p, "waitrun") \/ gen > g
=============================================================================
