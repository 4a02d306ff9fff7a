--------------------------- MODULE LifecycleProofs ---------------------------
(***************************************************************************)
(* Proofs about Lifecycle, for any set of processes and commands and any   *)
(* number of instances: types, that the run lock covers the container,     *)
(* that a starter enters what is ready, and that a restart replaces.       *)
(***************************************************************************)
EXTENDS Lifecycle, TLAPS

\* What systemd knows of the processes of the unit.
UnitInv ==
    /\ unit \in {"none", "failed"} => nsboxd = "none"
    /\ nsboxd # "none" => gen >= 1
    /\ nsboxd \in {"none", "starting"} => nspawn = "none"
    /\ nspawn # "up" => service = "none"

\* The run lock is with the instance as long as a process of it has the file
\* open, and with a kill between its grant and its release only.
LockInv ==
    /\ nsboxd = "serving" => lock = "instance"
    /\ \A p \in Procs : At(p, "release") => lock = p
    /\ LockCoversContainer

\* A job has a result only once the command waits for it, and a good one only
\* when the instance was ready.
JobInv ==
    \A p \in Procs :
        /\ work[p].job # "none" => work[p].pc \in {"wait", "flush", "enter", "done"}
        /\ work[p].job = "done" => work[p].id \in readied

\* machined knows of a booted container exactly while nspawn runs it.
MachineInv == boot => (machine # 0 => machine = gen /\ nspawn = "up")

\* How far a restart has got with the instance it found.
Replaced(p) ==
    LET w == work[p]
    IN  /\ w.old <= gen
        /\ w.pc = "waitrun" => (w.old = gen => stopping)
        /\ w.pc \in {"release", "get", "reset", "start"} =>
               (w.old = gen => stopping /\ nspawn = "none")
        /\ w.pc \in {"wait", "flush", "enter"} => w.id > w.old

RestartInv ==
    boot => \A p \in Procs : work[p].old # 0 => Replaced(p)

IInv == UnitInv /\ LockInv /\ JobInv /\ MachineInv /\ RestartInv
-----------------------------------------------------------------------------
(***************************************************************************)
(* Types                                                                   *)
(***************************************************************************)
\* The actions that change nothing but what a command is at.
CommandOnly(p) ==
    \/ Lookup(p) \/ DescribeMachine(p) \/ GetMachine(p) \/ FollowEnds(p)
    \/ JobResult(p) \/ StopFollowing(p) \/ Enter(p) \/ CommandFails(p) \/ Ends(p)

LEMMA InitInv == Init => TypeOK /\ IInv
<1> SUFFICES ASSUME Init PROVE TypeOK /\ IInv
  OBVIOUS
<1>1. Idle \in Works
  BY DEF Idle, Works
<1>2. TypeOK
  <2>1. work \in [Procs -> Works]
    BY <1>1 DEF Init
  <2>2. boot \in BOOLEAN /\ stopping \in BOOLEAN
    BY DEF Init
  <2> QED BY <2>1, <2>2, LifecycleAssumption DEF Init, TypeOK
<1>3. \A p \in Procs : work[p].pc = "idle" /\ work[p].job = "none" /\ work[p].old = 0
  BY DEF Init, Idle
<1>4. UnitInv /\ LockInv /\ MachineInv
  BY <1>3 DEF Init, UnitInv, LockInv, LockCoversContainer, MachineInv, At
<1>5. JobInv /\ RestartInv
  BY <1>3 DEF JobInv, RestartInv
<1> QED BY <1>2, <1>4, <1>5 DEF IInv

LEMMA CommandOnlyTyped ==
    ASSUME TypeOK, NEW p \in Procs, CommandOnly(p)
    PROVE  /\ UNCHANGED <<boot, instance, machine, lock, readied, commands>>
           /\ work' \in [Procs -> Works]
           /\ \A q \in Procs \ {p} : work'[q] = work[q]
<1>1. work \in [Procs -> Works] /\ work[p] \in Works /\ machine \in Nat
  BY LifecycleAssumption DEF TypeOK
<1>2. Idle \in Works
  BY DEF Idle, Works
<1>3. CASE Lookup(p)
  BY <1>1, <1>3 DEF Lookup, Works
<1>4. CASE DescribeMachine(p)
  BY <1>1, <1>4 DEF DescribeMachine, Works
<1>5. CASE GetMachine(p)
  BY <1>1, <1>5 DEF GetMachine, Works
<1>6. CASE FollowEnds(p)
  BY <1>1, <1>6 DEF FollowEnds, Works
<1>7. CASE JobResult(p) \/ Enter(p)
  BY <1>1, <1>7 DEF JobResult, Enter, Goto, Works
<1>8. CASE StopFollowing(p)
  BY <1>1, <1>2, <1>8 DEF StopFollowing, Fails, Works
<1>9. CASE CommandFails(p) \/ Ends(p)
  BY <1>1, <1>2, <1>9 DEF CommandFails, Ends, Fails
<1> QED BY <1>3, <1>4, <1>5, <1>6, <1>7, <1>8, <1>9 DEF CommandOnly

\* A command goes on to another place, and keeps the rest.
LEMMA GotoTyped ==
    ASSUME TypeOK, NEW p \in Procs,
           NEW pc \in {"waitrun", "release", "get", "start", "done", "flush"}, Goto(p, pc)
    PROVE  /\ work' \in [Procs -> Works]
           /\ work'[p].pc = pc
           /\ work'[p].old = work[p].old
           /\ work'[p].id = work[p].id
           /\ \A q \in Procs \ {p} : work'[q] = work[q]
  BY DEF Goto, TypeOK, Works

\* The result of a job changes nothing else, and only for a command that
\* started the last instance and waits.
LEMMA PostJobTyped ==
    ASSUME TypeOK, NEW result \in {"done", "failed"}, PostJob(result)
    PROVE  /\ work' \in [Procs -> Works]
           /\ \A p \in Procs :
                 \/ work'[p] = work[p]
                 \/ /\ AwaitsJob(p)
                    /\ work'[p] = [work[p] EXCEPT !.job = result]
<1>1. work \in [Procs -> Works]
  BY DEF TypeOK
<1>2. \A p \in Procs : work'[p] = IF AwaitsJob(p)
                                  THEN [work[p] EXCEPT !.job = result]
                                  ELSE work[p]
  BY DEF PostJob
<1>3. \A p \in Procs : [work[p] EXCEPT !.job = result] \in Works
  BY <1>1 DEF Works
<1>4. work' \in [Procs -> Works]
  BY <1>1, <1>3 DEF PostJob
<1> QED BY <1>2, <1>4

LEMMA NextTyped == TypeOK /\ UnitInv /\ [Next]_vars => TypeOK'
<1> SUFFICES ASSUME TypeOK, UnitInv, [Next]_vars PROVE TypeOK'
  OBVIOUS
<1> USE LifecycleAssumption
<1>1. ASSUME NEW p \in Procs, NEW cmd \in Commands, Begin(p, cmd)
      PROVE  TypeOK'
  <2>1. cmd \in {"run", "restart", "kill", "killall"}
    OBVIOUS
  <2>2. work' \in [Procs -> Works]
    BY <1>1, <2>1 DEF Begin, TypeOK, Works, Idle
  <2>3. commands' \in 0..MaxCommands
    BY <1>1 DEF Begin, TypeOK
  <2> QED BY <1>1, <2>2, <2>3 DEF Begin, TypeOK, instance
<1>2. ASSUME NEW p \in Procs, CommandOnly(p) PROVE TypeOK'
  BY <1>2, CommandOnlyTyped DEF TypeOK, instance
<1>3. ASSUME NEW p \in Procs,
             KillMachine(p) \/ SignalLeader(p) \/ ResetFailedUnit(p)
      PROVE  TypeOK'
  <2>1. work' \in [Procs -> Works]
    BY <1>3, GotoTyped DEF KillMachine, SignalLeader, ResetFailedUnit
  <2>2. stopping' \in BOOLEAN /\ boot' \in BOOLEAN
    BY <1>3 DEF KillMachine, SignalLeader, ResetFailedUnit, TypeOK
  <2> QED BY <1>3, <2>1, <2>2 DEF KillMachine, SignalLeader, ResetFailedUnit,
             TypeOK
<1>4. ASSUME NEW p \in Procs, WaitRunLock(p) \/ ReleaseRunLock(p) PROVE TypeOK'
  <2>1. work' \in [Procs -> Works]
    <3>1. CASE WaitRunLock(p)
      BY <3>1, GotoTyped DEF WaitRunLock
    <3>2. CASE ReleaseRunLock(p)
      <4>1. PICK pc \in {"get", "done"} : Goto(p, pc)
        BY <3>2 DEF ReleaseRunLock
      <4> QED BY <4>1, GotoTyped
    <3> QED BY <1>4, <3>1, <3>2
  <2>2. lock' \in {"free", "instance"} \cup Procs
    BY <1>4 DEF WaitRunLock, ReleaseRunLock
  <2>3. UNCHANGED <<boot, instance, machine, readied, commands>>
    BY <1>4 DEF WaitRunLock, ReleaseRunLock
  <2> QED BY <2>1, <2>2, <2>3 DEF TypeOK, instance
<1>5. ASSUME NEW p \in Procs, StartTransientUnit(p) PROVE TypeOK'
  <2>1. gen' \in 0..MaxStarts /\ gen' = gen + 1 /\ gen \in Nat
    BY <1>5 DEF StartTransientUnit, TypeOK
  <2>2. work' \in [Procs -> Works]
    <3> DEFINE w == [work[p] EXCEPT !.pc = "wait", !.id = gen + 1,
                                    !.follow = TRUE]
    <3>1. work \in [Procs -> Works] /\ work[p] \in Works
      BY DEF TypeOK
    <3>2. w \in Works
      <4>1. gen + 1 \in Nat
        BY <2>1
      <4>2. [work[p] EXCEPT !.id = gen + 1] \in Works
        BY <3>1, <4>1 DEF Works
      <4>3. [[work[p] EXCEPT !.id = gen + 1] EXCEPT !.follow = TRUE] \in Works
        BY <4>2 DEF Works
      <4> QED BY <3>1, <4>3 DEF Works
    <3>3. work' = [work EXCEPT ![p] = w]
      BY <1>5 DEF StartTransientUnit
    <3> QED BY <3>1, <3>2, <3>3
  <2>3. machine' \in 0..gen' /\ readied' \subseteq 1..gen'
    BY <1>5, <2>1 DEF StartTransientUnit, TypeOK
  <2>4. boot' \in BOOLEAN /\ stopping' \in BOOLEAN
    BY <1>5 DEF StartTransientUnit, TypeOK
  <2> QED BY <1>5, <2>1, <2>2, <2>3, <2>4 DEF StartTransientUnit, TypeOK
<1>6. CASE NsboxdLock \/ StartNspawn \/ StartPtyService
  BY <1>6 DEF NsboxdLock, StartNspawn, StartPtyService, TypeOK
<1>7. CASE RegisterMachine \/ NspawnExits \/ NsboxdExits \/ ForgetMachine
  <2>1. boot' \in BOOLEAN /\ stopping' \in BOOLEAN
    BY <1>7 DEF RegisterMachine, NspawnExits, NsboxdExits, ForgetMachine, TypeOK,
                instance
  <2>2. lock' \in {"free", "instance"} \cup Procs
    BY <1>7 DEF RegisterMachine, NspawnExits, NsboxdExits, ForgetMachine, TypeOK
  <2>3. machine' \in 0..gen
    BY <1>7 DEF RegisterMachine, NspawnExits, NsboxdExits, ForgetMachine, TypeOK
  <2>4. UNCHANGED <<gen, unit, readied, work, commands>>
    BY <1>7 DEF RegisterMachine, NspawnExits, NsboxdExits, ForgetMachine, instance
  <2>5. /\ nsboxd' \in {"none", "starting", "serving", "exited"}
        /\ nspawn' \in {"none", "booting", "up"}
        /\ service' \in {"none", "pty", "notified"}
    BY <1>7 DEF RegisterMachine, NspawnExits, NsboxdExits, ForgetMachine, TypeOK,
                instance
  <2> QED BY <2>1, <2>2, <2>3, <2>4, <2>5 DEF TypeOK
<1>8. CASE NotifyStart
  <2>1. work' \in [Procs -> Works]
    BY <1>8, PostJobTyped DEF NotifyStart
  <2>2. gen \in 1..gen
    BY <1>8 DEF NotifyStart, UnitInv, TypeOK
  <2> QED BY <1>8, <2>1, <2>2 DEF NotifyStart, TypeOK
<1>9. CASE ReapUnit
  <2>1. work' \in [Procs -> Works]
    BY <1>9, PostJobTyped DEF ReapUnit, TypeOK
  <2> QED BY <1>9, <2>1 DEF ReapUnit, TypeOK
<1>10. CASE UNCHANGED vars
  BY <1>10 DEF vars, instance, TypeOK
<1> QED BY <1>1, <1>2, <1>3, <1>4, <1>5, <1>6, <1>7, <1>8, <1>9, <1>10
        DEF Next, CommandStep, InstanceStep, CommandOnly

-----------------------------------------------------------------------------
(***************************************************************************)
(* The unit and the run lock                                               *)
(***************************************************************************)
LEMMA UnitNext == TypeOK /\ UnitInv /\ [Next]_vars => UnitInv'
<1> SUFFICES ASSUME TypeOK, UnitInv, [Next]_vars PROVE UnitInv'
  OBVIOUS
<1>1. ASSUME NEW p \in Procs, CommandStep(p) \/ FollowEnds(p)
      PROVE  UnitInv'
  <2>1. CASE CommandOnly(p)
    BY <2>1, CommandOnlyTyped DEF UnitInv, instance
  <2>2. CASE KillMachine(p) \/ SignalLeader(p) \/ WaitRunLock(p) \/ ReleaseRunLock(p)
    BY <2>2 DEF KillMachine, SignalLeader, WaitRunLock, ReleaseRunLock, UnitInv,
                instance
  <2>3. CASE ResetFailedUnit(p) \/ StartTransientUnit(p)
    BY <2>3 DEF ResetFailedUnit, StartTransientUnit, UnitInv, TypeOK
  <2> QED BY <1>1, <2>1, <2>2, <2>3 DEF CommandStep, CommandOnly
<1>2. CASE InstanceStep
  BY <1>2 DEF InstanceStep, NsboxdLock, StartNspawn, RegisterMachine,
      StartPtyService, NotifyStart, NspawnExits, NsboxdExits, ReapUnit,
      ForgetMachine, UnitInv, TypeOK, instance
<1>3. ASSUME NEW p \in Procs, NEW cmd \in Commands, Begin(p, cmd)
      PROVE  UnitInv'
  BY <1>3 DEF Begin, UnitInv, instance
<1>4. CASE UNCHANGED vars
  BY <1>4 DEF vars, instance, UnitInv
<1> QED BY <1>1, <1>2, <1>3, <1>4 DEF Next

\* A command comes to the place where it holds the lock, and leaves it, only
\* by taking the lock and giving it back.
LEMMA ReleaseOnly ==
    ASSUME TypeOK, [Next]_vars, NEW p \in Procs, At(p, "release")'
    PROVE  At(p, "release") \/ WaitRunLock(p)
<1>1. ASSUME NEW q \in Procs, NEW cmd \in Commands, Begin(q, cmd)
      PROVE  At(p, "release")
  BY <1>1 DEF Begin, At, TypeOK, Works, Idle
<1>2. ASSUME NEW q \in Procs, CommandOnly(q)
      PROVE  At(p, "release")
  BY <1>2 DEF CommandOnly, Lookup, DescribeMachine, GetMachine, FollowEnds,
      JobResult, StopFollowing, Enter, CommandFails, Ends, Goto, Fails, At, TypeOK,
      Works, Idle
<1>3. ASSUME NEW q \in Procs,
             KillMachine(q) \/ SignalLeader(q) \/ ResetFailedUnit(q)
                 \/ ReleaseRunLock(q) \/ StartTransientUnit(q)
      PROVE  At(p, "release")
  BY <1>3 DEF KillMachine, SignalLeader, ResetFailedUnit, ReleaseRunLock,
      StartTransientUnit, Goto, At, TypeOK, Works
<1>4. ASSUME NEW q \in Procs, WaitRunLock(q)
      PROVE  At(p, "release") \/ WaitRunLock(p)
  BY <1>4, GotoTyped DEF WaitRunLock, At
<1>5. CASE InstanceStep
  <2>1. work'[p].pc = work[p].pc
    BY <1>5 DEF InstanceStep, NsboxdLock, StartNspawn, RegisterMachine,
        StartPtyService, NotifyStart, NspawnExits, NsboxdExits, ReapUnit,
        ForgetMachine, PostJob, TypeOK, Works
  <2> QED BY <2>1 DEF At
<1>6. CASE UNCHANGED vars
  BY <1>6 DEF vars, At
<1> QED BY <1>1, <1>2, <1>3, <1>4, <1>5, <1>6
        DEF Next, CommandStep, CommandOnly

LEMMA NotProcs == \A p \in Procs : p # "free" /\ p # "instance"
  BY LifecycleAssumption

LEMMA LockNext == TypeOK /\ UnitInv /\ LockInv /\ [Next]_vars => LockInv'
<1> SUFFICES ASSUME TypeOK, UnitInv, LockInv, [Next]_vars PROVE LockInv'
  OBVIOUS
<1> DEFINE Holds == (nsboxd = "serving" => lock = "instance") /\ LockCoversContainer
<1>1. ASSUME NEW p \in Procs, CommandStep(p) \/ FollowEnds(p)
      PROVE  Holds' /\ (\A q \in Procs : lock = q => lock' = q \/ ReleaseRunLock(q))
  <2>1. CASE CommandOnly(p)
    BY <2>1, CommandOnlyTyped DEF LockInv, LockCoversContainer, instance
  <2>2. CASE KillMachine(p) \/ SignalLeader(p) \/ ResetFailedUnit(p)
    BY <2>2, NotProcs DEF KillMachine, SignalLeader, ResetFailedUnit, LockInv,
        LockCoversContainer
  <2>3. CASE WaitRunLock(p)
    BY <2>3, NotProcs DEF WaitRunLock, LockInv, LockCoversContainer, instance
  <2>4. CASE ReleaseRunLock(p)
    <3>1. lock = p /\ p # "instance"
      BY <2>4, NotProcs DEF ReleaseRunLock, LockInv
    <3> QED BY <2>4, <3>1 DEF ReleaseRunLock, LockInv, LockCoversContainer, instance
  <2>5. CASE StartTransientUnit(p)
    BY <2>5 DEF StartTransientUnit, LockInv, LockCoversContainer
  <2> QED BY <1>1, <2>1, <2>2, <2>3, <2>4, <2>5 DEF CommandStep, CommandOnly
<1>2. ASSUME InstanceStep
      PROVE  Holds' /\ (\A q \in Procs : lock = q => lock' = q)
  <2>1. Holds'
    BY <1>2 DEF InstanceStep, NsboxdLock, StartNspawn, RegisterMachine,
        StartPtyService, NotifyStart, NspawnExits, NsboxdExits, ReapUnit,
        ForgetMachine, UnitInv, LockInv, LockCoversContainer, instance
  <2>2. \A q \in Procs : lock = q => lock' = q
    BY <1>2, NotProcs DEF InstanceStep, NsboxdLock, StartNspawn, RegisterMachine,
        StartPtyService, NotifyStart, NspawnExits, NsboxdExits, ReapUnit,
        ForgetMachine, LockInv, LockCoversContainer
  <2> QED BY <2>1, <2>2
<1>3. ASSUME NEW p \in Procs, NEW cmd \in Commands, Begin(p, cmd)
      PROVE  Holds' /\ lock' = lock
  BY <1>3 DEF Begin, LockInv, LockCoversContainer, instance
<1>4. Holds' /\ (\A q \in Procs : lock = q => lock' = q \/ ReleaseRunLock(q))
  <2>1. CASE UNCHANGED vars
    BY <2>1 DEF vars, instance, LockInv, LockCoversContainer
  <2> QED BY <1>1, <1>2, <1>3, <2>1 DEF Next
<1>5. ASSUME NEW p \in Procs, At(p, "release")' PROVE lock' = p
  <2>1. CASE WaitRunLock(p)
    BY <2>1 DEF WaitRunLock
  <2>2. CASE At(p, "release")
    <3>1. lock = p
      BY <2>2 DEF LockInv
    <3>2. ~ReleaseRunLock(p)
      <4> SUFFICES ASSUME ReleaseRunLock(p) PROVE FALSE
        OBVIOUS
      <4>1. PICK pc \in {"get", "done"} : Goto(p, pc)
        BY DEF ReleaseRunLock
      <4>2. work'[p].pc = pc
        BY <4>1, GotoTyped
      <4> QED BY <1>5, <4>2 DEF At
    <3> QED BY <1>4, <3>1, <3>2
  <2> QED BY <1>5, <2>1, <2>2, ReleaseOnly
<1> QED BY <1>4, <1>5 DEF LockInv

-----------------------------------------------------------------------------
(***************************************************************************)
(* Jobs                                                                    *)
(***************************************************************************)
\* What one command may become, as far as its job is concerned.
JobFits(w, ready) ==
    /\ w.job # "none" => w.pc \in {"wait", "flush", "enter", "done"}
    /\ w.job = "done" => w.id \in ready

LEMMA JobNext == TypeOK /\ UnitInv /\ JobInv /\ [Next]_vars => JobInv'
<1> SUFFICES ASSUME TypeOK, UnitInv, JobInv, [Next]_vars,
                    NEW q \in Procs
             PROVE  JobFits(work'[q], readied')
  BY DEF JobInv, JobFits
<1>1. JobFits(work[q], readied) /\ work[q] \in Works
  BY DEF JobInv, JobFits, TypeOK
<1>2. ASSUME NEW p \in Procs, NEW cmd \in Commands, Begin(p, cmd)
      PROVE  JobFits(work'[q], readied')
  BY <1>1, <1>2 DEF Begin, JobFits, Idle, TypeOK
<1>3. ASSUME NEW p \in Procs, CommandOnly(p)
      PROVE  JobFits(work'[q], readied')
  <2>1. CASE Lookup(p) \/ DescribeMachine(p) \/ GetMachine(p)
    BY <1>1, <2>1 DEF Lookup, DescribeMachine, GetMachine, JobFits, At, TypeOK,
        Works
  <2>2. CASE FollowEnds(p) \/ JobResult(p) \/ StopFollowing(p)
    BY <1>1, <2>2 DEF FollowEnds, JobResult, StopFollowing, Goto, Fails, JobFits,
        At, TypeOK, Works, Idle
  <2>3. CASE Enter(p) \/ CommandFails(p) \/ Ends(p)
    BY <1>1, <2>3 DEF Enter, CommandFails, Ends, Goto, Fails, JobFits, At, TypeOK,
        Works, Idle
  <2> QED BY <1>3, <2>1, <2>2, <2>3 DEF CommandOnly
<1>4. ASSUME NEW p \in Procs,
             KillMachine(p) \/ SignalLeader(p) \/ ResetFailedUnit(p)
                 \/ WaitRunLock(p) \/ ReleaseRunLock(p)
      PROVE  JobFits(work'[q], readied')
  BY <1>1, <1>4 DEF KillMachine, SignalLeader, ResetFailedUnit, WaitRunLock,
      ReleaseRunLock, Goto, JobFits, At, TypeOK, Works
<1>5. ASSUME NEW p \in Procs, StartTransientUnit(p)
      PROVE  JobFits(work'[q], readied')
  BY <1>1, <1>5 DEF StartTransientUnit, JobFits, At, TypeOK, Works
<1>6. CASE NotifyStart
  <2>1. /\ PostJob("done") /\ readied' = readied \cup {gen}
    BY <1>6 DEF NotifyStart
  <2>2. CASE work'[q] = work[q]
    BY <1>1, <2>1, <2>2 DEF JobFits
  <2>3. CASE AwaitsJob(q) /\ work'[q] = [work[q] EXCEPT !.job = "done"]
    BY <1>1, <2>1, <2>3 DEF JobFits, AwaitsJob, At, Works
  <2> QED BY <2>1, <2>2, <2>3, PostJobTyped
<1>7. CASE ReapUnit
  <2>1. readied' = readied /\ (PostJob("failed") \/ UNCHANGED work)
    BY <1>7 DEF ReapUnit
  <2>2. CASE work'[q] = work[q]
    BY <1>1, <2>1, <2>2 DEF JobFits
  <2>3. CASE AwaitsJob(q) /\ work'[q] = [work[q] EXCEPT !.job = "failed"]
    BY <1>1, <2>1, <2>3 DEF JobFits, AwaitsJob, At, Works
  <2> QED BY <2>1, <2>2, <2>3, PostJobTyped
<1>8. CASE UNCHANGED <<work, readied>>
  BY <1>1, <1>8
<1>9. (InstanceStep /\ ~NotifyStart /\ ~ReapUnit) \/ UNCHANGED vars
          => UNCHANGED <<work, readied>>
  BY DEF InstanceStep, NsboxdLock, StartNspawn, RegisterMachine, StartPtyService,
         NspawnExits, NsboxdExits, ForgetMachine, vars
<1> QED BY <1>2, <1>3, <1>4, <1>5, <1>6, <1>7, <1>8, <1>9
        DEF Next, CommandStep, CommandOnly

-----------------------------------------------------------------------------
(***************************************************************************)
(* Restarts                                                                *)
(***************************************************************************)
LEMMA MachineNext == TypeOK /\ UnitInv /\ MachineInv /\ [Next]_vars => MachineInv'
<1> SUFFICES ASSUME TypeOK, UnitInv, MachineInv, [Next]_vars PROVE MachineInv'
  OBVIOUS
<1>1. ASSUME NEW p \in Procs, CommandStep(p) \/ FollowEnds(p)
      PROVE  MachineInv'
  <2>1. CASE CommandOnly(p)
    BY <2>1, CommandOnlyTyped DEF MachineInv, instance
  <2>2. CASE KillMachine(p) \/ SignalLeader(p) \/ WaitRunLock(p)
                 \/ ReleaseRunLock(p) \/ ResetFailedUnit(p)
    BY <2>2 DEF KillMachine, SignalLeader, WaitRunLock, ReleaseRunLock,
        ResetFailedUnit, MachineInv, instance
  <2>3. CASE StartTransientUnit(p)
    <3>1. nspawn = "none"
      BY <2>3 DEF StartTransientUnit, UnitInv
    <3> QED BY <2>3, <3>1 DEF StartTransientUnit, MachineInv
  <2> QED BY <1>1, <2>1, <2>2, <2>3 DEF CommandStep, CommandOnly
<1>2. CASE InstanceStep
  BY <1>2 DEF InstanceStep, NsboxdLock, StartNspawn, RegisterMachine,
      StartPtyService, NotifyStart, NspawnExits, NsboxdExits, ReapUnit,
      ForgetMachine, MachineInv, instance
<1>3. ASSUME NEW p \in Procs, NEW cmd \in Commands, Begin(p, cmd)
      PROVE  MachineInv'
  BY <1>3 DEF Begin, MachineInv, instance
<1>4. CASE UNCHANGED vars
  BY <1>4 DEF vars, instance, MachineInv
<1> QED BY <1>1, <1>2, <1>3, <1>4 DEF Next

\* An instance that has been told to stop, or has stopped, stays so; the one
\* after it has another number.
LEMMA StoppedStays ==
    ASSUME TypeOK, [Next]_vars
    PROVE  /\ boot' = boot
           /\ \/ gen' = gen + 1
              \/ /\ gen' = gen
                 /\ stopping => stopping'
                 /\ stopping /\ nspawn = "none" => nspawn' = "none"
<1>1. ASSUME NEW p \in Procs, CommandOnly(p)
      PROVE  UNCHANGED <<boot, instance>>
  BY <1>1, CommandOnlyTyped
<1>2. CASE InstanceStep
  BY <1>2 DEF InstanceStep, NsboxdLock, StartNspawn, RegisterMachine,
      StartPtyService, NotifyStart, NspawnExits, NsboxdExits, ReapUnit,
      ForgetMachine, instance
<1>3. ASSUME NEW p \in Procs, CommandStep(p), ~CommandOnly(p)
      PROVE  /\ boot' = boot
             /\ \/ gen' = gen + 1
                \/ /\ gen' = gen
                   /\ stopping => stopping'
                   /\ stopping /\ nspawn = "none" => nspawn' = "none"
  BY <1>3 DEF CommandStep, CommandOnly, KillMachine, SignalLeader, WaitRunLock,
      ReleaseRunLock, ResetFailedUnit, StartTransientUnit, instance
<1>4. ASSUME NEW p \in Procs, FollowEnds(p) PROVE CommandOnly(p)
  BY <1>4 DEF CommandOnly
<1>5. ASSUME NEW p \in Procs, NEW cmd \in Commands, Begin(p, cmd)
      PROVE  UNCHANGED <<boot, instance>>
  BY <1>5 DEF Begin
<1>6. UNCHANGED vars => UNCHANGED <<boot, instance>>
  BY DEF vars, instance
<1>7. CASE UNCHANGED <<boot, instance>>
  BY <1>7 DEF instance
<1> QED BY <1>1, <1>2, <1>3, <1>4, <1>5, <1>6, <1>7 DEF Next

\* A restart that stays where it is keeps what it has come to.
LEMMA ReplacedStays ==
    ASSUME TypeOK, [Next]_vars, NEW q \in Procs, Replaced(q),
           work'[q].old = work[q].old, work'[q].pc = work[q].pc,
           work'[q].id = work[q].id
    PROVE  Replaced(q)'
<1>1. gen \in Nat /\ work[q].old \in Nat
  BY LifecycleAssumption DEF TypeOK, Works
<1> QED BY <1>1, StoppedStays DEF Replaced

LEMMA RestartNext ==
    TypeOK /\ LockInv /\ MachineInv /\ RestartInv /\ [Next]_vars => RestartInv'
<1> SUFFICES ASSUME TypeOK, LockInv, MachineInv, RestartInv, [Next]_vars, boot,
                    NEW q \in Procs, work'[q].old # 0
             PROVE  Replaced(q)'
  BY StoppedStays DEF RestartInv
<1>1. /\ work[q] \in Works /\ gen \in Nat /\ machine \in 0..gen
      /\ work[q].old # 0 => Replaced(q)
  BY LifecycleAssumption DEF TypeOK, RestartInv
<1>2. ASSUME work'[q].old = work[q].old, work'[q].pc = work[q].pc,
             work'[q].id = work[q].id
      PROVE  Replaced(q)'
  BY <1>1, <1>2, ReplacedStays
<1>3. ASSUME NEW p \in Procs, NEW cmd \in Commands, Begin(p, cmd)
      PROVE  Replaced(q)'
  <2>1. CASE p = q
    BY <1>3, <2>1 DEF Begin, Idle, TypeOK
  <2>2. CASE p # q
    BY <1>2, <1>3, <2>2 DEF Begin, TypeOK
  <2> QED BY <2>1, <2>2
<1>4. ASSUME NEW p \in Procs, p # q, CommandStep(p) \/ FollowEnds(p)
      PROVE  Replaced(q)'
  <2>1. work'[q] = work[q]
    BY <1>4, CommandOnlyTyped DEF CommandStep, CommandOnly, KillMachine,
       SignalLeader, WaitRunLock, ReleaseRunLock, ResetFailedUnit,
       StartTransientUnit, Goto, TypeOK
  <2> QED BY <1>2, <2>1
<1>5. CASE FollowEnds(q)
  BY <1>1, <1>2, <1>5 DEF FollowEnds, TypeOK, Works
<1>6. CASE Lookup(q)
  BY <1>1, <1>6 DEF Lookup, TypeOK, Works, Replaced, instance
<1>7. CASE DescribeMachine(q) \/ KillMachine(q)
  BY <1>1, <1>7 DEF DescribeMachine, KillMachine, TypeOK, Works, Replaced, instance
<1>8. CASE SignalLeader(q)
  <2>1. Goto(q, "waitrun") /\ stopping' /\ gen' = gen
    BY <1>8 DEF SignalLeader
  <2>2. /\ work'[q].pc = "waitrun"
        /\ work'[q].old = work[q].old
    BY <2>1, GotoTyped
  <2> QED BY <1>1, <2>1, <2>2 DEF Replaced
<1>9. CASE WaitRunLock(q)
  <2>1. /\ nspawn = "none" /\ work[q].pc = "waitrun" /\ Goto(q, "release")
        /\ UNCHANGED instance
    BY <1>9 DEF WaitRunLock, LockInv, LockCoversContainer, At
  <2>2. /\ work'[q].pc = "release"
        /\ work'[q].old = work[q].old
    BY <2>1, GotoTyped
  <2> QED BY <1>1, <2>1, <2>2 DEF Replaced, instance
<1>10. CASE ReleaseRunLock(q)
  <2>1. work[q].pc = "release" /\ UNCHANGED instance
    BY <1>10 DEF ReleaseRunLock, At
  <2>2. PICK pc \in {"get", "done"} : Goto(q, pc)
    BY <1>10 DEF ReleaseRunLock
  <2>3. /\ work'[q].pc = pc
        /\ work'[q].old = work[q].old
    BY <2>2, GotoTyped
  <2> QED BY <1>1, <2>1, <2>3 DEF Replaced, instance
<1>11. CASE GetMachine(q)
  <2>1. /\ At(q, "get") /\ UNCHANGED <<boot, instance>>
        /\ work'[q] = [work[q] EXCEPT !.pc = IF machine = 0 THEN "reset" ELSE "enter",
                                      !.id = machine]
    BY <1>11 DEF GetMachine, TypeOK
  <2>2. CASE machine = 0
    BY <1>1, <2>1, <2>2 DEF Works, Replaced, At, instance
  <2>3. CASE machine # 0
    <3>1. machine = gen /\ nspawn = "up"
      BY <2>3 DEF MachineInv
    <3> QED BY <1>1, <2>1, <2>3, <3>1 DEF Works, Replaced, At, instance
  <2> QED BY <2>2, <2>3
<1>12. CASE ResetFailedUnit(q)
  <2>1. /\ work[q].pc = "reset" /\ Goto(q, "start")
        /\ UNCHANGED <<gen, stopping, nspawn>>
    BY <1>12 DEF ResetFailedUnit, At
  <2>2. /\ work'[q].pc = "start"
        /\ work'[q].old = work[q].old
    BY <2>1, GotoTyped
  <2> QED BY <1>1, <2>1, <2>2 DEF Replaced
<1>13. CASE StartTransientUnit(q)
  <2>1. /\ gen' = gen + 1
        /\ work'[q] = [work[q] EXCEPT !.pc = "wait", !.id = gen + 1, !.follow = TRUE]
    BY <1>13 DEF StartTransientUnit, TypeOK
  <2>2. /\ work'[q].pc = "wait"
        /\ work'[q].id = gen + 1
        /\ work'[q].old = work[q].old
    BY <1>1, <2>1 DEF Works
  <2>3. work[q].old \in Nat
    BY <1>1 DEF Works
  <2> QED BY <1>1, <2>1, <2>2, <2>3 DEF Replaced
<1>14. CASE JobResult(q) \/ Enter(q)
  <2>1. PICK pc \in {"flush", "done"} :
            Goto(q, pc) /\ (pc = "flush" => work[q].pc = "wait")
    BY <1>14 DEF JobResult, Enter, At
  <2>2. UNCHANGED instance
    BY <1>14 DEF JobResult, Enter
  <2>3. /\ work'[q].pc = pc
        /\ work'[q].old = work[q].old
        /\ work'[q].id = work[q].id
    BY <2>1, GotoTyped
  <2> QED BY <1>1, <2>1, <2>2, <2>3 DEF Replaced, instance
<1>15. CASE StopFollowing(q)
  <2>1. /\ work'[q] = [work[q] EXCEPT !.pc = "enter", !.follow = FALSE]
        /\ work[q].pc = "flush"
    <3>1. work[q].job = "done"
      BY <1>15 DEF StopFollowing, Fails, Idle, TypeOK
    <3> QED BY <1>15, <3>1 DEF StopFollowing, At, TypeOK
  <2>2. UNCHANGED <<boot, instance>>
    BY <1>15 DEF StopFollowing
  <2> QED BY <1>1, <2>1, <2>2 DEF Works, Replaced, instance
<1>16. CASE CommandFails(q) \/ Ends(q)
  <2>1. work' = [work EXCEPT ![q] = Idle]
    BY <1>16 DEF CommandFails, Ends, Fails
  <2> QED BY <2>1 DEF Idle, TypeOK
<1>17. CASE InstanceStep \/ UNCHANGED vars
  <2>1. /\ work'[q].old = work[q].old
        /\ work'[q].pc = work[q].pc
        /\ work'[q].id = work[q].id
    <3>1. work' = work \/ PostJob("done") \/ PostJob("failed")
      BY <1>17 DEF InstanceStep, NsboxdLock, StartNspawn, RegisterMachine,
          StartPtyService, NotifyStart, NspawnExits, NsboxdExits, ReapUnit,
          ForgetMachine, vars
    <3> QED BY <1>1, <3>1, PostJobTyped DEF Works
  <2> QED BY <1>2, <2>1
<1> QED BY <1>3, <1>4, <1>5, <1>6, <1>7, <1>8, <1>9, <1>10, <1>11, <1>12, <1>13,
           <1>14, <1>15, <1>16, <1>17 DEF Next, CommandStep

-----------------------------------------------------------------------------
(***************************************************************************)
(* Theorems                                                                *)
(***************************************************************************)
LEMMA Invariance == Spec => [](TypeOK /\ IInv)
<1>1. TypeOK /\ IInv /\ [Next]_vars => (TypeOK /\ IInv)'
  BY NextTyped, UnitNext, LockNext, JobNext, MachineNext, RestartNext DEF IInv
<1> QED BY <1>1, InitInv, PTL DEF Spec

\* Every variable of Lifecycle keeps its type; in particular only instances
\* that were started are ever registered, or report themselves ready.
THEOREM Typing == Spec => []TypeOK
  BY Invariance, PTL

\* nspawn holds the run lock as long as it runs, whatever becomes of nsboxd and
\* whoever waits for the lock (LockUntilProcessDeath in direct.go).
THEOREM LockCovers == Spec => []LockCoversContainer
<1>1. IInv => LockCoversContainer
  BY DEF IInv, LockInv
<1> QED BY <1>1, Invariance, PTL

\* A run that started the container enters it only when that instance has
\* reported itself ready (startNsboxd in transient.go).
THEOREM EntersReady == Spec => []StarterEntersReady
<1>1. IInv => StarterEntersReady
  BY DEF IInv, JobInv, StarterEntersReady
<1> QED BY <1>1, Invariance, PTL

\* run -restart of a booted container never enters the instance that it found,
\* however many others start, restart or kill it meanwhile
\* (RunContainerViaTransientUnit, KillContainer).
THEOREM Replaces == Spec => []RestartReplaces
<1>1. IInv => RestartReplaces
  BY DEF IInv, RestartInv, Replaced, RestartReplaces, At
<1> QED BY <1>1, Invariance, PTL
=============================================================================
