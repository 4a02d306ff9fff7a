--------------------------- MODULE ExportsProofs ---------------------------
(***************************************************************************)
(* Proofs about Exports, for any sets of desktop files, commands,          *)
(* connections and names and any bounds: types, that the link the host     *)
(* follows always leads to a whole instance, that config.json is always    *)
(* whole, and that an update which succeeds shows what it was asked for.   *)
(***************************************************************************)
EXTENDS Exports, TLAPS

\* The steps of a worker in UpdateDesktopFiles once it has the exports lock:
\* while it builds the new instance, and all of them.
Building == {"reset", "mkdir", "walk", "stat", "export", "link", "switch"}
Updating == Building \cup {"read", "retire", "remove", "done"}

\* Who works on the exports, or on config.json.tmp, has the lock for it, and
\* no lock has been granted twice.
LocksInv ==
    /\ \A p, q \in Lockers : p # q => granted[p] \cap granted[q] = {}
    /\ \A w \in Workers :
          /\ work[w].pc \in Updating => ExportsLock \in granted[w]
          /\ work[w].pc \in {"locked", "writing", "written"}
                => ConfigLock \in granted[w]

\* An update never works on the instance the link names, and has a whole one
\* when it comes to rename its own link over it.
UpdateInv ==
    \A w \in Workers :
        /\ work[w].pc \in Building => /\ work[w].old = link.id
                                      /\ work[w].new # link.id
        /\ work[w].pc \in {"link", "switch"} => instance[work[w].new].whole
        /\ work[w].pc = "switch" => linkTmp.id = work[w].new
        /\ work[w].pc \in {"retire", "remove"} => work[w].old # link.id

LinkInv == link.id # -1 => instance[link.id].whole

ConfigInv ==
    /\ config.whole
    /\ \A w \in Workers : work[w].pc = "written" => configTmp.whole

IInv == LocksInv /\ UpdateInv /\ LinkInv /\ ConfigInv

-----------------------------------------------------------------------------
(***************************************************************************)
(* Types                                                                   *)
(***************************************************************************)
LEMMA InitTyped == Init => TypeOK
<1> SUFFICES ASSUME Init PROVE TypeOK
  OBVIOUS
<1> USE NamesAssumption, BoundsAssumption
<1>1. name \in Names /\ storage \in SUBSET Apps
  BY DEF Init
<1>2. config \in ConfigFiles /\ configTmp \in ConfigFiles
  BY DEF Init, ConfigFiles, NoFile
<1>3. link \in Links /\ linkTmp \in Links
  BY DEF Init, Links, NoLink
<1>4. instance \in [{0, 1} -> Instances]
  BY DEF Init, Instances, NoDir
<1>5. granted \in [Lockers -> SUBSET Levels]
  BY DEF Init
<1>6. loaded \in [Lockers -> Containers]
  BY DEF Init, Containers, NotOpen
<1>7. work \in [Workers -> Works]
  <2>1. Idle \in Works
    BY DEF Idle, Works
  <2> QED BY <2>1 DEF Init
<1>8. changes \in 0..MaxChanges /\ commands \in 0..MaxCommands
  BY DEF Init
<1> QED BY <1>1, <1>2, <1>3, <1>4, <1>5, <1>6, <1>7, <1>8 DEF TypeOK

LEMMA StopTyped ==
    ASSUME TypeOK, NEW w \in Workers, Stop(w)
    PROVE  /\ work' \in [Workers -> Works]
           /\ granted' \in [Lockers -> SUBSET Levels]
           /\ loaded' \in [Lockers -> Containers]
<1>1. Idle \in Works
  BY DEF Idle, Works
<1>2. NotOpen \in Containers
  BY NamesAssumption DEF NotOpen, Containers
<1> QED BY <1>1, <1>2 DEF Stop, TypeOK, Lockers

LEMMA LoadTyped ==
    ASSUME TypeOK, NEW p \in Lockers, Load(p)
    PROVE  loaded' \in [Lockers -> Containers]
<1>1. [open |-> TRUE, name |-> name, items |-> config.items] \in Containers
  BY DEF TypeOK, Containers, ConfigFiles
<1> QED BY <1>1 DEF Load, TypeOK

\* Another pc is the only change that most steps make to a worker's record.
LEMMA GotoTyped ==
    ASSUME TypeOK, NEW w \in Workers, NEW pc, Goto(w, pc),
           pc \in {"opened", "locked", "writing", "written", "update", "read",
                   "reset", "mkdir", "walk", "stat", "export", "link",
                   "switch", "retire", "remove", "done"}
    PROVE  work' \in [Workers -> Works]
<1>1. [work[w] EXCEPT !.pc = pc] \in Works
  BY DEF TypeOK, Works
<1> QED BY <1>1 DEF Goto, TypeOK

LEMMA GrantTyped ==
    ASSUME TypeOK, NEW p \in Lockers, NEW S \in SUBSET Levels,
           Locks!Grant(p, S)
    PROVE  granted' \in [Lockers -> SUBSET Levels]
  BY DEF TypeOK, Locks!Grant

LEMMA AppliedTyped ==
    ASSUME NEW op \in Ops, NEW items \in SUBSET Apps, NEW list \in SUBSET Apps
    PROVE  Applied(op, items, list) \in SUBSET Apps
  BY OpsAssumption DEF Applied

\* A step of an update on one of the two instances.
LEMMA InstanceTyped ==
    ASSUME TypeOK, NEW i, NEW dir, i \in {0, 1} => dir \in Instances,
           instance' = [instance EXCEPT ![i] = dir]
    PROVE  instance' \in [{0, 1} -> Instances]
  BY DEF TypeOK

LEMMA NotWholeTyped ==
    ASSUME TypeOK, NEW i \in {0, 1}, NEW b \in BOOLEAN
    PROVE  [instance[i] EXCEPT !.whole = b] \in Instances
  BY DEF TypeOK, Instances

LEMMA CommandTyped ==
    ASSUME TypeOK, NEW c \in Cmds, Command(c)
    PROVE  TypeOK'
<1> USE DEF Levels
<1>0. c \in Workers /\ c \in Lockers
  BY DEF Workers, Lockers
<1>1. CASE Open(c)
  <2>1. work' \in [Workers -> Works] /\ loaded' \in [Lockers -> Containers]
    BY <1>0, <1>1, GotoTyped, LoadTyped DEF Open
  <2>2. commands' \in 0..MaxCommands
    BY <1>1, BoundsAssumption DEF Open, TypeOK
  <2> QED BY <1>1, <2>1, <2>2 DEF Open, TypeOK, files
<1>2. CASE Quit(c)
  BY <1>0, <1>2, StopTyped DEF Quit, TypeOK, files
<1>3. CASE LockConfig(c)
  <2>1. work' \in [Workers -> Works]
    BY <1>0, <1>3, GotoTyped DEF LockConfig
  <2>2. granted' \in [Lockers -> SUBSET Levels]
    BY <1>0, <1>3, GrantTyped DEF LockConfig, ConfigLock
  <2> QED BY <1>3, <2>1, <2>2 DEF LockConfig, TypeOK, files
<1>4. CASE WriteConfigTmp(c)
  <2>1. work' \in [Workers -> Works]
    BY <1>0, <1>4, GotoTyped DEF WriteConfigTmp
  <2>2. loaded' \in [Lockers -> Containers]
    <3>1. PICK op \in Ops, items \in SUBSET Apps :
             loaded' = [loaded EXCEPT ![c].items = Applied(op, items, @)]
      BY <1>4 DEF WriteConfigTmp
    <3>2. Applied(op, items, loaded[c].items) \in SUBSET Apps
      BY <1>0, AppliedTyped DEF TypeOK, Containers
    <3> QED BY <1>0, <3>1, <3>2 DEF TypeOK, Containers
  <2>3. configTmp' \in ConfigFiles
    BY <1>4 DEF WriteConfigTmp, NoFile, ConfigFiles
  <2> QED BY <1>4, <2>1, <2>2, <2>3 DEF WriteConfigTmp, TypeOK
<1>5. CASE CloseConfigTmp(c)
  <2>1. work' \in [Workers -> Works]
    BY <1>0, <1>5, GotoTyped DEF CloseConfigTmp
  <2>2. configTmp' \in ConfigFiles
    BY <1>0, <1>5 DEF CloseConfigTmp, ConfigFiles, Containers, TypeOK
  <2> QED BY <1>5, <2>1, <2>2 DEF CloseConfigTmp, TypeOK
<1>6. CASE RenameConfigTmp(c)
  <2>1. work' \in [Workers -> Works]
    BY <1>0, <1>6, GotoTyped DEF RenameConfigTmp
  <2>2. config' \in ConfigFiles /\ configTmp' \in ConfigFiles
    BY <1>6 DEF RenameConfigTmp, ConfigFiles, NoFile, TypeOK
  <2> QED BY <1>6, <2>1, <2>2 DEF RenameConfigTmp, TypeOK
<1>7. CASE \E new \in Names : Rename(c, new)
  BY <1>0, <1>7, StopTyped DEF Rename, TypeOK
<1> QED BY <1>1, <1>2, <1>3, <1>4, <1>5, <1>6, <1>7 DEF Command

LEMMA NsboxdTyped ==
    ASSUME TypeOK,
           \/ NsboxdOpen
           \/ NsboxdLock
           \/ NsboxdDies
           \/ \E h \in Handlers : NotifyReloadExports(h)
           \/ \E a \in Apps : ChangePackages(a)
    PROVE  TypeOK'
<1> USE DEF Levels
<1>0. Nsboxd \in Lockers
  BY DEF Lockers
<1>1. CASE NsboxdOpen
  <2>1. loaded' \in [Lockers -> Containers]
    BY <1>0, <1>1, LoadTyped DEF NsboxdOpen
  <2>2. commands' \in 0..MaxCommands
    BY <1>1, BoundsAssumption DEF NsboxdOpen, TypeOK
  <2> QED BY <1>1, <2>1, <2>2 DEF NsboxdOpen, TypeOK, files
<1>2. CASE NsboxdLock
  <2>1. granted' \in [Lockers -> SUBSET Levels]
    BY <1>0, <1>2, GrantTyped DEF NsboxdLock, RunLock
  <2> QED BY <1>2, <2>1 DEF NsboxdLock, TypeOK, files
<1>3. CASE NsboxdDies
  <2>1. Idle \in Works /\ NotOpen \in Containers
    BY NamesAssumption DEF Idle, Works, NotOpen, Containers
  <2>2. work' \in [Workers -> Works]
    BY <1>3, <2>1 DEF NsboxdDies, TypeOK
  <2>3. granted' \in [Lockers -> SUBSET Levels]
    BY <1>3 DEF NsboxdDies, TypeOK
  <2>4. loaded' \in [Lockers -> Containers]
    BY <1>3, <2>1 DEF NsboxdDies, TypeOK
  <2> QED BY <1>3, <2>2, <2>3, <2>4 DEF NsboxdDies, TypeOK, files
<1>4. CASE \E h \in Handlers : NotifyReloadExports(h)
  <2> PICK h \in Handlers : NotifyReloadExports(h)
    BY <1>4
  <2>1. work' \in [Workers -> Works]
    BY GotoTyped DEF NotifyReloadExports, Workers
  <2>2. commands' \in 0..MaxCommands
    BY BoundsAssumption DEF NotifyReloadExports, TypeOK
  <2> QED BY <2>1, <2>2 DEF NotifyReloadExports, TypeOK, files
<1>5. CASE \E a \in Apps : ChangePackages(a)
  <2> PICK a \in Apps : ChangePackages(a)
    BY <1>5
  <2>1. storage' \in SUBSET Apps
    BY DEF ChangePackages, TypeOK
  <2>2. \A w \in Workers :
           [work[w] EXCEPT !.steady = @ \cap storage'] \in Works
    BY <2>1 DEF TypeOK, Works
  <2>3. work' \in [Workers -> Works]
    BY <2>2 DEF ChangePackages
  <2>4. changes' \in 0..MaxChanges
    BY BoundsAssumption DEF ChangePackages, TypeOK
  <2> QED BY <2>1, <2>3, <2>4 DEF ChangePackages, TypeOK
<1> QED BY <1>1, <1>2, <1>3, <1>4, <1>5

\* The steps of an update change one worker's record, one instance, the link
\* or the link to be.
LEMMA UpdateTyped ==
    ASSUME TypeOK, NEW w \in Workers, UpdateDesktopFiles(w)
    PROVE  TypeOK'
<1> USE DEF Levels
<1>0. w \in Lockers /\ work[w] \in Works
  BY DEF Lockers, TypeOK
<1>1. CASE LockExports(w)
  <2>1. [Idle EXCEPT !.pc = "read", !.steady = storage] \in Works
    BY DEF Idle, Works, TypeOK
  <2>2. work' \in [Workers -> Works]
    BY <1>1, <2>1 DEF LockExports, TypeOK
  <2>3. granted' \in [Lockers -> SUBSET Levels]
    BY <1>0, <1>1, GrantTyped DEF LockExports, ExportsLock
  <2> QED BY <1>1, <2>2, <2>3 DEF LockExports, TypeOK, files
<1>2. CASE UpdateFails(w) \/ UpdateReturns(w)
  BY <1>2, StopTyped DEF UpdateFails, UpdateReturns, TypeOK, files
<1>3. CASE ReadExportsId(w)
  <2>1. link.id \in {-1, 0, 1}
    BY DEF TypeOK, Links
  <2>2. [work[w] EXCEPT !.pc = "reset", !.old = link.id,
                        !.new = IF link.id = 0 THEN 1 ELSE 0] \in Works
    BY <1>0, <2>1 DEF Works
  <2>3. work' \in [Workers -> Works]
    BY <1>3, <2>2 DEF ReadExportsId, TypeOK
  <2> QED BY <1>3, <2>3 DEF ReadExportsId, TypeOK, files
<1>4. ASSUME NEW from, NEW to \in {"mkdir", "walk", "link", "remove", "done"},
             NEW i, NEW dir, InstanceStep(w, from, to, i, dir),
             i \in {0, 1} => dir \in Instances
      PROVE  TypeOK'
  <2>1. work' \in [Workers -> Works]
    BY <1>4, GotoTyped DEF InstanceStep
  <2>2. instance' \in [{0, 1} -> Instances]
    BY <1>4, InstanceTyped DEF InstanceStep
  <2> QED BY <1>4, <2>1, <2>2 DEF InstanceStep, TypeOK
<1>5. NoDir \in Instances
  BY DEF NoDir, Instances
<1>6. CASE ResetNew(w)
  BY <1>4, <1>6, NotWholeTyped DEF ResetNew
<1>7. CASE MakeNew(w)
  BY <1>4, <1>5, <1>7 DEF MakeNew
<1>8. CASE WalkList(w)
  <2>1. [work[w] EXCEPT !.pc = "stat", !.todo = storage] \in Works
    BY <1>0 DEF Works, TypeOK
  <2>2. work' \in [Workers -> Works]
    BY <1>8, <2>1 DEF WalkList, TypeOK
  <2> QED BY <1>8, <2>2 DEF WalkList, TypeOK, files
<1>9. CASE \E a \in Apps : WalkVisit(w, a)
  <2> PICK a \in Apps : WalkVisit(w, a)
    BY <1>9
  <2>1. [work[w] EXCEPT !.todo = @ \ {a},
                        !.found = @ \cup ({a} \cap Ct(w).items)] \in Works
    BY <1>0 DEF Works
  <2>2. /\ [work[w] EXCEPT !.todo = {}, !.found = {}, !.lost = TRUE] \in Works
        /\ [work[w] EXCEPT !.todo = @ \ {a}, !.steady = @ \ {a}] \in Works
    BY <1>0 DEF Works
  <2>3. work' \in [Workers -> Works]
    BY <2>1, <2>2 DEF WalkVisit, TypeOK
  <2> QED BY <2>3 DEF WalkVisit, TypeOK, files
<1>10. CASE WalkEnds(w)
  <2>1. work' \in [Workers -> Works]
    BY <1>10, GotoTyped DEF WalkEnds
  <2> QED BY <1>10, <2>1 DEF WalkEnds, TypeOK, files
<1>11. CASE \E a \in Apps : ExportDesktopFile(w, a)
  <2> PICK a \in Apps : ExportDesktopFile(w, a)
    BY <1>11
  <2>1. /\ [work[w] EXCEPT !.found = @ \ {a}] \in Works
        /\ [work[w] EXCEPT !.found = @ \ {a}, !.steady = @ \ {a}] \in Works
    BY <1>0 DEF Works
  <2>2. work' \in [Workers -> Works]
    BY <2>1 DEF ExportDesktopFile, TypeOK
  <2>3. Ct(w).name \in Names
    BY <1>0 DEF Ct, TypeOK, Containers, Lockers
  <2>4. work[w].new \in {0, 1}
    BY <1>0 DEF Works
  <2>5. [instance[work[w].new] EXCEPT !.files = @ \cup {<<a, Ct(w).name>>}]
           \in Instances
    BY <2>3, <2>4 DEF TypeOK, Instances
  <2>6. instance' \in [{0, 1} -> Instances]
    BY <2>4, <2>5 DEF ExportDesktopFile, TypeOK
  <2> QED BY <2>2, <2>6 DEF ExportDesktopFile, TypeOK
<1>12. CASE ExportIcons(w)
  BY <1>4, <1>12, NotWholeTyped DEF ExportIcons
<1>13. CASE SymlinkTmp(w)
  <2>1. work' \in [Workers -> Works]
    BY <1>13, GotoTyped DEF SymlinkTmp
  <2>2. linkTmp' \in Links
    BY <1>0, <1>13 DEF SymlinkTmp, Links, Works, Ct, TypeOK, Containers, Lockers
  <2> QED BY <1>13, <2>1, <2>2 DEF SymlinkTmp, TypeOK
<1>14. CASE RenameLinkTmp(w)
  <2>1. work' \in [Workers -> Works]
    BY <1>14, GotoTyped DEF RenameLinkTmp
  <2>2. link' \in Links /\ linkTmp' \in Links
    BY <1>14, NamesAssumption DEF RenameLinkTmp, NoLink, Links, TypeOK
  <2> QED BY <1>14, <2>1, <2>2 DEF RenameLinkTmp, TypeOK
<1>15. CASE RetireOld(w)
  BY <1>4, <1>15, NotWholeTyped DEF RetireOld
<1>16. CASE RemoveOld(w)
  BY <1>4, <1>5, <1>16 DEF RemoveOld
<1> QED BY <1>1, <1>2, <1>3, <1>6, <1>7, <1>8, <1>9, <1>10, <1>11, <1>12, <1>13,
           <1>14, <1>15, <1>16 DEF UpdateDesktopFiles

LEMMA NextTyped == TypeOK /\ [Next]_vars => TypeOK'
<1> SUFFICES ASSUME TypeOK, [Next]_vars PROVE TypeOK'
  OBVIOUS
<1>1. CASE \E c \in Cmds : Command(c)
  BY <1>1, CommandTyped
<1>2. CASE \E w \in Workers : UpdateDesktopFiles(w)
  BY <1>2, UpdateTyped
<1>3. CASE UNCHANGED vars
  BY <1>3 DEF vars, files, TypeOK
<1> QED BY <1>1, <1>2, <1>3, NsboxdTyped DEF Next

\* Every variable has its type in every reachable state.
THEOREM Typing == Spec => []TypeOK
  BY InitTyped, NextTyped, PTL DEF Spec

-----------------------------------------------------------------------------
(***************************************************************************)
(* What steps leave of the invariant when they do not touch its variables  *)
(***************************************************************************)
LEMMA InitInv == Init => IInv
  BY DEF Init, IInv, LocksInv, UpdateInv, LinkInv, ConfigInv, Idle, NoLink,
         Updating, Building, Lockers

\* Two workers are never in an update at once, nor in a change of config.json.
LEMMA Alone ==
    ASSUME LocksInv, NEW v \in Workers, NEW w \in Workers, v # w
    PROVE  /\ ~(work[v].pc \in Updating /\ work[w].pc \in Updating)
           /\ ~(/\ work[v].pc \in {"locked", "writing", "written"}
                /\ work[w].pc \in {"locked", "writing", "written"})
  BY DEF LocksInv, Lockers

\* Nobody gets or gives up a lock or enters the steps that need one.
LEMMA LocksKept ==
    ASSUME LocksInv, granted' = granted,
           \A v \in Workers :
              /\ work'[v].pc \in Updating => work[v].pc \in Updating
              /\ work'[v].pc \in {"locked", "writing", "written"}
                    => work[v].pc \in {"locked", "writing", "written"}
    PROVE  LocksInv'
  BY DEF LocksInv

\* The end of a worker.
LEMMA LocksStopped ==
    ASSUME TypeOK, LocksInv, NEW w \in Workers, Stop(w)
    PROVE  LocksInv'
  BY DEF TypeOK, LocksInv, Stop, Idle, Updating, Building, Lockers

\* A lock is granted that nobody has.
LEMMA LocksGranted ==
    ASSUME TypeOK, LocksInv, NEW p \in Lockers, NEW l, Locks!Grant(p, {l}),
           \A v \in Workers :
              /\ work'[v].pc \in Updating
                    => work[v].pc \in Updating \/ (v = p /\ l = ExportsLock)
              /\ work'[v].pc \in {"locked", "writing", "written"}
                    => \/ work[v].pc \in {"locked", "writing", "written"}
                       \/ v = p /\ l = ConfigLock
    PROVE  LocksInv'
<1>1. \A q \in Lockers :
         granted'[q] = IF q = p THEN granted[q] \cup {l} ELSE granted[q]
  BY DEF TypeOK, Locks!Grant
<1>2. \A q \in Lockers : l \notin granted[q]
  BY DEF Locks!Grant
<1>3. ASSUME NEW q \in Lockers, NEW r \in Lockers, q # r
      PROVE  granted'[q] \cap granted'[r] = {}
  <2>1. granted[q] \cap granted[r] = {}
    BY <1>3 DEF LocksInv
  <2>2. /\ granted'[q] = IF q = p THEN granted[q] \cup {l} ELSE granted[q]
        /\ granted'[r] = IF r = p THEN granted[r] \cup {l} ELSE granted[r]
    BY <1>1
  <2>3. l \notin granted[q] /\ l \notin granted[r]
    BY <1>2
  <2>4. CASE q = p
    BY <1>3, <2>1, <2>2, <2>3, <2>4
  <2>5. CASE q # p
    BY <2>1, <2>2, <2>3, <2>5
  <2> QED BY <2>4, <2>5
<1>4. ASSUME NEW v \in Workers, work'[v].pc \in Updating
      PROVE  ExportsLock \in granted'[v]
  <2>1. v \in Lockers
    BY DEF Lockers
  <2>2. CASE work[v].pc \in Updating
    BY <1>1, <2>1, <2>2 DEF LocksInv
  <2>3. CASE v = p /\ l = ExportsLock
    BY <1>1, <2>1, <2>3
  <2> QED BY <1>4, <2>2, <2>3
<1>5. ASSUME NEW v \in Workers,
             work'[v].pc \in {"locked", "writing", "written"}
      PROVE  ConfigLock \in granted'[v]
  <2>1. v \in Lockers
    BY DEF Lockers
  <2>2. CASE work[v].pc \in {"locked", "writing", "written"}
    BY <1>1, <2>1, <2>2 DEF LocksInv
  <2>3. CASE v = p /\ l = ConfigLock
    BY <1>1, <2>1, <2>3
  <2> QED BY <1>5, <2>2, <2>3
<1> QED BY <1>3, <1>4, <1>5 DEF LocksInv

\* Neither links nor instances change, and a worker that goes on with an
\* update is at a step that asks little of them.
LEMMA UpdateKept ==
    ASSUME UpdateInv, LinkInv, UNCHANGED <<link, linkTmp, instance>>,
           \A v \in Workers :
              \/ /\ work'[v].pc = work[v].pc
                 /\ work'[v].old = work[v].old
                 /\ work'[v].new = work[v].new
              \/ work'[v].pc \notin Building \cup {"retire", "remove"}
              \/ /\ work'[v].pc \in {"reset", "walk", "stat", "export"}
                 /\ work'[v].old = link.id
                 /\ work'[v].new # link.id
    PROVE  UpdateInv' /\ LinkInv'
<1>1. LinkInv'
  BY DEF LinkInv
<1>2. ASSUME NEW v \in Workers
      PROVE  /\ work'[v].pc \in Building => /\ work'[v].old = link'.id
                                            /\ work'[v].new # link'.id
             /\ work'[v].pc \in {"link", "switch"}
                    => instance'[work'[v].new].whole
             /\ work'[v].pc = "switch" => linkTmp'.id = work'[v].new
             /\ work'[v].pc \in {"retire", "remove"} => work'[v].old # link'.id
  BY DEF UpdateInv, Building
<1> QED BY <1>1, <1>2 DEF UpdateInv

LEMMA ConfigKept ==
    ASSUME ConfigInv, UNCHANGED <<config, configTmp>>,
           \A v \in Workers : work'[v].pc = "written" => work[v].pc = "written"
    PROVE  ConfigInv'
  BY DEF ConfigInv

\* The record of a worker after a Goto or a Stop, and those of the others.
LEMMA WentTo ==
    ASSUME TypeOK, NEW w \in Workers, NEW pc, Goto(w, pc)
    PROVE  /\ \A v \in Workers : v # w => work'[v] = work[v]
           /\ work'[w].pc = pc
           /\ work'[w].old = work[w].old
           /\ work'[w].new = work[w].new
  BY DEF TypeOK, Goto, Works

LEMMA Stopped ==
    ASSUME TypeOK, NEW w \in Workers, Stop(w)
    PROVE  /\ \A v \in Workers : v # w => work'[v] = work[v]
           /\ work'[w].pc = "idle"
  BY DEF TypeOK, Stop, Idle

-----------------------------------------------------------------------------
(***************************************************************************)
(* The invariant                                                           *)
(***************************************************************************)
LEMMA StopInv ==
    ASSUME TypeOK, IInv, NEW w \in Workers, Stop(w),
           UNCHANGED <<config, configTmp, link, linkTmp, instance>>
    PROVE  IInv'
<1>1. LocksInv'
  BY LocksStopped DEF IInv
<1>2. \A v \in Workers : v # w => work'[v] = work[v]
  BY Stopped
<1>3. work'[w].pc = "idle"
  BY Stopped
<1>4. UpdateInv' /\ LinkInv'
  BY <1>2, <1>3, UpdateKept DEF IInv, Building
<1>5. ConfigInv'
  BY <1>2, <1>3, ConfigKept DEF IInv
<1> QED BY <1>1, <1>4, <1>5 DEF IInv

LEMMA CommandInv ==
    ASSUME TypeOK, IInv, NEW c \in Cmds, Command(c)
    PROVE  IInv'
<1>0. c \in Workers /\ c \in Lockers
  BY DEF Workers, Lockers
<1>1. CASE Open(c)
  <2>1. /\ \A v \in Workers : v # c => work'[v] = work[v]
        /\ work'[c].pc = "opened"
    BY <1>0, <1>1, WentTo DEF Open
  <2>2. LocksInv'
    BY <1>1, <2>1, LocksKept DEF Open, IInv, Updating, Building
  <2>3. UpdateInv' /\ LinkInv'
    BY <1>1, <2>1, UpdateKept DEF Open, IInv, Building, files
  <2>4. ConfigInv'
    BY <1>1, <2>1, ConfigKept DEF Open, IInv, files
  <2> QED BY <2>2, <2>3, <2>4 DEF IInv
<1>2. CASE Quit(c)
  BY <1>0, <1>2, StopInv DEF Quit, files
<1>3. CASE LockConfig(c)
  <2>1. /\ \A v \in Workers : v # c => work'[v] = work[v]
        /\ work'[c].pc = "locked"
    BY <1>0, <1>3, WentTo DEF LockConfig
  <2>2. LocksInv'
    BY <1>0, <1>3, <2>1, LocksGranted
       DEF LockConfig, IInv, Updating, Building
  <2>3. UpdateInv' /\ LinkInv'
    BY <1>3, <2>1, UpdateKept DEF LockConfig, IInv, Building, files
  <2>4. ConfigInv'
    BY <1>3, <2>1, ConfigKept DEF LockConfig, IInv, files
  <2> QED BY <2>2, <2>3, <2>4 DEF IInv
<1>4. CASE WriteConfigTmp(c)
  <2>1. /\ \A v \in Workers : v # c => work'[v] = work[v]
        /\ work'[c].pc = "writing"
        /\ work[c].pc = "locked"
    BY <1>0, <1>4, WentTo DEF WriteConfigTmp, At
  <2>2. LocksInv'
    BY <1>4, <2>1, LocksKept DEF WriteConfigTmp, IInv, Updating, Building
  <2>3. UpdateInv' /\ LinkInv'
    BY <1>4, <2>1, UpdateKept DEF WriteConfigTmp, IInv, Building
  <2>4. \A v \in Workers : work'[v].pc # "written"
    BY <1>0, <2>1, Alone DEF IInv
  <2>5. ConfigInv'
    BY <1>4, <2>4 DEF WriteConfigTmp, IInv, ConfigInv
  <2> QED BY <2>2, <2>3, <2>5 DEF IInv
<1>5. CASE CloseConfigTmp(c)
  <2>1. /\ \A v \in Workers : v # c => work'[v] = work[v]
        /\ work'[c].pc = "written"
        /\ work[c].pc = "writing"
    BY <1>0, <1>5, WentTo DEF CloseConfigTmp, At
  <2>2. LocksInv'
    BY <1>5, <2>1, LocksKept DEF CloseConfigTmp, IInv, Updating, Building
  <2>3. UpdateInv' /\ LinkInv'
    BY <1>5, <2>1, UpdateKept DEF CloseConfigTmp, IInv, Building
  <2>4. ConfigInv'
    BY <1>5 DEF CloseConfigTmp, IInv, ConfigInv
  <2> QED BY <2>2, <2>3, <2>4 DEF IInv
<1>6. CASE RenameConfigTmp(c)
  <2>1. /\ \A v \in Workers : v # c => work'[v] = work[v]
        /\ work'[c].pc = "update"
        /\ work[c].pc = "written"
    BY <1>0, <1>6, WentTo DEF RenameConfigTmp, At
  <2>2. LocksInv'
    BY <1>6, <2>1, LocksKept DEF RenameConfigTmp, IInv, Updating, Building
  <2>3. UpdateInv' /\ LinkInv'
    BY <1>6, <2>1, UpdateKept DEF RenameConfigTmp, IInv, Building
  <2>4. \A v \in Workers : work'[v].pc # "written"
    BY <1>0, <2>1, Alone DEF IInv
  <2>5. configTmp.whole
    BY <1>0, <2>1 DEF IInv, ConfigInv
  <2>6. ConfigInv'
    BY <1>6, <2>4, <2>5 DEF RenameConfigTmp, ConfigInv
  <2> QED BY <2>2, <2>3, <2>6 DEF IInv
<1>7. CASE \E new \in Names : Rename(c, new)
  BY <1>0, <1>7, StopInv DEF Rename
<1> QED BY <1>1, <1>2, <1>3, <1>4, <1>5, <1>6, <1>7 DEF Command

LEMMA NsboxdInv ==
    ASSUME TypeOK, IInv,
           \/ NsboxdOpen
           \/ NsboxdLock
           \/ NsboxdDies
           \/ \E h \in Handlers : NotifyReloadExports(h)
           \/ \E a \in Apps : ChangePackages(a)
    PROVE  IInv'
<1>0. Nsboxd \in Lockers /\ Nsboxd \notin Workers
  BY WorkersAssumption DEF Lockers, Workers
<1>1. CASE NsboxdOpen
  BY <1>1, LocksKept, UpdateKept, ConfigKept DEF NsboxdOpen, IInv, files
<1>2. CASE NsboxdLock
  <2>1. LocksInv'
    BY <1>0, <1>2, LocksGranted DEF NsboxdLock, IInv
  <2>2. UpdateInv' /\ LinkInv' /\ ConfigInv'
    BY <1>2, UpdateKept, ConfigKept DEF NsboxdLock, IInv, files
  <2> QED BY <2>1, <2>2 DEF IInv
<1>3. CASE NsboxdDies
  <2>1. /\ \A v \in Cmds : work'[v] = work[v] /\ granted'[v] = granted[v]
        /\ \A v \in Workers : v \notin Cmds => work'[v].pc = "idle"
        /\ \A p \in Lockers : p \notin Cmds => granted'[p] = {}
    BY <1>3 DEF NsboxdDies, Workers, Lockers, Idle
  <2>2. \A p, q \in Lockers : p # q => granted'[p] \cap granted'[q] = {}
    BY <2>1 DEF IInv, LocksInv
  <2>3. LocksInv'
    BY <2>1, <2>2 DEF IInv, LocksInv, Updating, Building
  <2>4. UpdateInv' /\ LinkInv'
    BY <1>3, <2>1, UpdateKept DEF NsboxdDies, IInv, Building, files
  <2>5. ConfigInv'
    BY <1>3, <2>1, ConfigKept DEF NsboxdDies, IInv, files
  <2> QED BY <2>3, <2>4, <2>5 DEF IInv
<1>4. CASE \E h \in Handlers : NotifyReloadExports(h)
  <2> PICK h \in Handlers : NotifyReloadExports(h)
    BY <1>4
  <2>1. /\ \A v \in Workers : v # h => work'[v] = work[v]
        /\ work'[h].pc = "update"
    BY WentTo DEF NotifyReloadExports, Workers
  <2>2. LocksInv'
    BY <2>1, LocksKept DEF NotifyReloadExports, IInv, Updating, Building
  <2>3. UpdateInv' /\ LinkInv'
    BY <2>1, UpdateKept DEF NotifyReloadExports, IInv, Building, files
  <2>4. ConfigInv'
    BY <2>1, ConfigKept DEF NotifyReloadExports, IInv, files
  <2> QED BY <2>2, <2>3, <2>4 DEF IInv
<1>5. CASE \E a \in Apps : ChangePackages(a)
  <2> PICK a \in Apps : ChangePackages(a)
    BY <1>5
  <2>1. \A v \in Workers : /\ work'[v].pc = work[v].pc
                           /\ work'[v].old = work[v].old
                           /\ work'[v].new = work[v].new
    BY DEF ChangePackages, TypeOK, Works
  <2>2. LocksInv'
    BY <2>1, LocksKept DEF ChangePackages, IInv
  <2>3. UpdateInv' /\ LinkInv'
    BY <2>1, UpdateKept DEF ChangePackages, IInv
  <2>4. ConfigInv'
    BY <2>1, ConfigKept DEF ChangePackages, IInv
  <2> QED BY <2>2, <2>3, <2>4 DEF IInv
<1> QED BY <1>1, <1>2, <1>3, <1>4, <1>5

\* What an update's step leaves of the locks and of config.json, when it is
\* the work of one worker that was in an update before.
LEMMA UpdateStep ==
    ASSUME TypeOK, IInv, NEW w \in Workers, work[w].pc \in Updating,
           UNCHANGED <<config, configTmp, granted>>,
           \A v \in Workers : v # w => work'[v] = work[v],
           work'[w].pc \in Updating
    PROVE  /\ LocksInv'
           /\ ConfigInv'
           /\ \A v \in Workers : v # w => work'[v].pc \notin Updating
<1>1. work'[w].pc \notin {"locked", "writing", "written"}
  BY DEF Updating, Building
<1>2. LocksInv'
  BY <1>1, LocksKept DEF IInv
<1>3. ConfigInv'
  BY <1>1, ConfigKept DEF IInv
<1> QED BY <1>2, <1>3, Alone DEF IInv

\* So nothing but the worker's own part of UpdateInv is left to show.
LEMMA UpdateAlone ==
    ASSUME NEW w \in Workers,
           \A v \in Workers : v # w => work'[v].pc \notin Updating,
           work'[w].pc \in Building => /\ work'[w].old = link'.id
                                       /\ work'[w].new # link'.id,
           work'[w].pc \in {"link", "switch"} => instance'[work'[w].new].whole,
           work'[w].pc = "switch" => linkTmp'.id = work'[w].new,
           work'[w].pc \in {"retire", "remove"} => work'[w].old # link'.id
    PROVE  UpdateInv'
<1>1. ASSUME NEW v \in Workers
      PROVE  /\ work'[v].pc \in Building => /\ work'[v].old = link'.id
                                            /\ work'[v].new # link'.id
             /\ work'[v].pc \in {"link", "switch"}
                    => instance'[work'[v].new].whole
             /\ work'[v].pc = "switch" => linkTmp'.id = work'[v].new
             /\ work'[v].pc \in {"retire", "remove"} => work'[v].old # link'.id
  <2>1. CASE v = w
    BY <2>1
  <2>2. CASE v # w
    BY <2>2 DEF Updating, Building
  <2> QED BY <2>1, <2>2
<1> QED BY <1>1 DEF UpdateInv

\* A step that rebuilds or removes an instance the link does not name.
LEMMA InstanceInv ==
    ASSUME TypeOK, IInv, NEW w \in Workers, NEW i, NEW dir,
           NEW from \in {"reset", "mkdir", "export", "retire", "remove"},
           NEW to \in {"mkdir", "walk", "link", "remove", "done"},
           InstanceStep(w, from, to, i, dir),
           from \in {"reset", "mkdir"}
              => i = work[w].new /\ to \in {"mkdir", "walk"},
           from = "export" => i = work[w].new /\ to = "link" /\ dir.whole,
           from \in {"retire", "remove"}
              => i = work[w].old /\ to \in {"remove", "done"}
    PROVE  IInv'
<1>1. /\ work[w].pc = from
      /\ \A v \in Workers : v # w => work'[v] = work[v]
      /\ work'[w].pc = to
      /\ work'[w].old = work[w].old
      /\ work'[w].new = work[w].new
  BY WentTo DEF InstanceStep, At
<1>2. /\ LocksInv'
      /\ ConfigInv'
      /\ \A v \in Workers : v # w => work'[v].pc \notin Updating
  BY <1>1, UpdateStep DEF InstanceStep, Updating, Building
<1>3. /\ from \in Building => work[w].old = link.id /\ work[w].new # link.id
      /\ from \in {"retire", "remove"} => work[w].old # link.id
  BY <1>1 DEF IInv, UpdateInv
<1>4. i # link.id
  BY <1>3 DEF Building
<1>5. LinkInv'
  BY <1>4 DEF InstanceStep, IInv, LinkInv, TypeOK, Links
<1>6. to = "link" => instance'[work[w].new].whole
  <2>1. work[w].new \in {0, 1}
    BY DEF TypeOK, Works
  <2> QED BY <2>1 DEF InstanceStep, TypeOK
<1>7. /\ link' = link
      /\ to \in Building => from \in Building
      /\ to \in {"retire", "remove"} => from \in {"retire", "remove"}
      /\ to # "switch"
  BY DEF InstanceStep, Building
<1>8. UpdateInv'
  BY <1>1, <1>2, <1>3, <1>6, <1>7, UpdateAlone
<1> QED BY <1>2, <1>5, <1>8 DEF IInv

\* A step that changes only the worker's own record, and stays before the
\* new instance is whole.
LEMMA WorkInv ==
    ASSUME TypeOK, IInv, NEW w \in Workers, UNCHANGED <<files, granted>>,
           work[w].pc \in Updating,
           \A v \in Workers : v # w => work'[v] = work[v],
           work'[w].pc \in {"reset", "stat", "export"},
           work'[w].old = link.id /\ work'[w].new # link.id
    PROVE  IInv'
<1>1. UpdateInv' /\ LinkInv'
  BY UpdateKept DEF IInv, files
<1>2. LocksInv' /\ ConfigInv'
  BY UpdateStep DEF files, Updating, Building
<1> QED BY <1>1, <1>2 DEF IInv

LEMMA UpdateDesktopFilesInv ==
    ASSUME TypeOK, IInv, NEW w \in Workers, UpdateDesktopFiles(w)
    PROVE  IInv'
<1>0. w \in Lockers /\ work[w] \in Works
  BY DEF Lockers, TypeOK
<1>1. CASE LockExports(w)
  <2>1. /\ \A v \in Workers : v # w => work'[v] = work[v]
        /\ work'[w].pc = "read"
    BY <1>1 DEF LockExports, TypeOK, Idle
  <2>2. LocksInv'
    BY <1>0, <1>1, <2>1, LocksGranted DEF LockExports, IInv
  <2>3. UpdateInv' /\ LinkInv'
    BY <1>1, <2>1, UpdateKept DEF LockExports, IInv, Building, files
  <2>4. ConfigInv'
    BY <1>1, <2>1, ConfigKept DEF LockExports, IInv, files
  <2> QED BY <2>2, <2>3, <2>4 DEF IInv
<1>2. CASE UpdateFails(w) \/ UpdateReturns(w)
  BY <1>2, StopInv DEF UpdateFails, UpdateReturns, files
<1>3. CASE ReadExportsId(w)
  <2>1. /\ \A v \in Workers : v # w => work'[v] = work[v]
        /\ work[w].pc = "read"
        /\ work'[w].pc = "reset"
        /\ work'[w].old = link.id
        /\ work'[w].new = IF link.id = 0 THEN 1 ELSE 0
    BY <1>0, <1>3 DEF ReadExportsId, TypeOK, Works, At
  <2>2. work'[w].new # link.id
    BY <2>1
  <2> QED BY <1>3, <2>1, <2>2, WorkInv DEF ReadExportsId, Updating
<1>4. CASE ResetNew(w)
  BY <1>4, InstanceInv DEF ResetNew
<1>5. CASE MakeNew(w)
  BY <1>5, InstanceInv DEF MakeNew
<1>6. work[w].pc \in Building => /\ work[w].old = link.id
                                 /\ work[w].new # link.id
  BY DEF IInv, UpdateInv
<1>7. CASE WalkList(w)
  <2>1. /\ \A v \in Workers : v # w => work'[v] = work[v]
        /\ work[w].pc = "walk"
        /\ work'[w].pc = "stat"
        /\ work'[w].old = work[w].old
        /\ work'[w].new = work[w].new
    BY <1>0, <1>7 DEF WalkList, TypeOK, Works, At
  <2> QED BY <1>6, <1>7, <2>1, WorkInv DEF WalkList, Updating, Building
<1>8. CASE \E a \in Apps : WalkVisit(w, a)
  <2>1. /\ \A v \in Workers : v # w => work'[v] = work[v]
        /\ work[w].pc = "stat"
        /\ work'[w].pc = "stat"
        /\ work'[w].old = work[w].old
        /\ work'[w].new = work[w].new
    BY <1>0, <1>8 DEF WalkVisit, TypeOK, Works, At
  <2> QED BY <1>6, <1>8, <2>1, WorkInv DEF WalkVisit, Updating, Building
<1>9. CASE WalkEnds(w)
  <2>1. /\ \A v \in Workers : v # w => work'[v] = work[v]
        /\ work[w].pc = "stat"
        /\ work'[w].pc = "export"
        /\ work'[w].old = work[w].old
        /\ work'[w].new = work[w].new
    BY <1>9, WentTo DEF WalkEnds, At
  <2> QED BY <1>6, <1>9, <2>1, WorkInv DEF WalkEnds, Updating, Building
<1>10. CASE \E a \in Apps : ExportDesktopFile(w, a)
  <2> PICK a \in Apps : ExportDesktopFile(w, a)
    BY <1>10
  <2>1. /\ \A v \in Workers : v # w => work'[v] = work[v]
        /\ work[w].pc = "export"
        /\ work'[w].pc = "export"
        /\ work'[w].old = work[w].old
        /\ work'[w].new = work[w].new
    BY <1>0 DEF ExportDesktopFile, TypeOK, Works, At
  <2>2. /\ LocksInv'
        /\ ConfigInv'
        /\ \A v \in Workers : v # w => work'[v].pc \notin Updating
    BY <2>1, UpdateStep DEF ExportDesktopFile, Updating, Building
  <2>3. UpdateInv'
    BY <1>6, <2>1, <2>2, UpdateAlone DEF ExportDesktopFile, Building
  <2>4. LinkInv'
    BY <1>6, <2>1
       DEF ExportDesktopFile, IInv, LinkInv, TypeOK, Links, Building
  <2> QED BY <2>2, <2>3, <2>4 DEF IInv
<1>11. CASE ExportIcons(w)
  <2>1. [instance[work[w].new] EXCEPT !.whole = TRUE].whole
    BY <1>0 DEF TypeOK, Works, Instances
  <2> QED BY <1>11, <2>1, InstanceInv DEF ExportIcons
<1>12. CASE SymlinkTmp(w)
  <2>1. /\ \A v \in Workers : v # w => work'[v] = work[v]
        /\ work[w].pc = "link"
        /\ work'[w].pc = "switch"
        /\ work'[w].old = work[w].old
        /\ work'[w].new = work[w].new
    BY <1>12, WentTo DEF SymlinkTmp, At
  <2>2. /\ LocksInv'
        /\ ConfigInv'
        /\ \A v \in Workers : v # w => work'[v].pc \notin Updating
    BY <1>12, <2>1, UpdateStep DEF SymlinkTmp, Updating, Building
  <2>3. instance[work[w].new].whole
    BY <2>1 DEF IInv, UpdateInv
  <2>4. linkTmp'.id = work'[w].new /\ link' = link /\ instance' = instance
    BY <1>12, <2>1 DEF SymlinkTmp
  <2>5. UpdateInv'
    BY <1>6, <2>1, <2>2, <2>3, <2>4, UpdateAlone DEF Building
  <2>6. LinkInv'
    BY <2>4 DEF IInv, LinkInv
  <2> QED BY <2>2, <2>5, <2>6 DEF IInv
<1>13. CASE RenameLinkTmp(w)
  <2>1. /\ \A v \in Workers : v # w => work'[v] = work[v]
        /\ work[w].pc = "switch"
        /\ work'[w].pc = IF work[w].old = -1 THEN "done" ELSE "retire"
        /\ work'[w].old = work[w].old
    BY <1>13, WentTo DEF RenameLinkTmp, At
  <2>2. /\ LocksInv'
        /\ ConfigInv'
        /\ \A v \in Workers : v # w => work'[v].pc \notin Updating
    BY <1>13, <2>1, UpdateStep DEF RenameLinkTmp, Updating, Building
  <2>3. /\ instance[work[w].new].whole
        /\ linkTmp.id = work[w].new
    BY <2>1 DEF IInv, UpdateInv
  <2>4. link' = linkTmp /\ instance' = instance
    BY <1>13 DEF RenameLinkTmp
  <2>5. work'[w].old # link'.id
    BY <1>6, <2>1, <2>3, <2>4 DEF Building
  <2>6. work'[w].pc \notin Building
    BY <2>1 DEF Building
  <2>7. UpdateInv'
    BY <2>2, <2>5, <2>6, UpdateAlone DEF Building
  <2>8. LinkInv'
    BY <2>3, <2>4 DEF LinkInv
  <2> QED BY <2>2, <2>7, <2>8 DEF IInv
<1>14. CASE RetireOld(w)
  BY <1>14, InstanceInv DEF RetireOld
<1>15. CASE RemoveOld(w)
  BY <1>15, InstanceInv DEF RemoveOld
<1> QED BY <1>1, <1>2, <1>3, <1>4, <1>5, <1>7, <1>8, <1>9, <1>10, <1>11, <1>12,
           <1>13, <1>14, <1>15 DEF UpdateDesktopFiles

LEMMA NextInv == TypeOK /\ IInv /\ [Next]_vars => IInv'
<1> SUFFICES ASSUME TypeOK, IInv, [Next]_vars PROVE IInv'
  OBVIOUS
<1>1. CASE \E c \in Cmds : Command(c)
  BY <1>1, CommandInv
<1>2. CASE \E w \in Workers : UpdateDesktopFiles(w)
  BY <1>2, UpdateDesktopFilesInv
<1>3. CASE UNCHANGED vars
  BY <1>3, LocksKept, UpdateKept, ConfigKept DEF vars, files, IInv
<1> QED BY <1>1, <1>2, <1>3, NsboxdInv DEF Next

LEMMA Invariance == Spec => []IInv
  BY InitInv, NextInv, Typing, PTL DEF Spec

-----------------------------------------------------------------------------
\* The link that the host follows leads to a complete instance at every
\* moment of every update (xdgdesktop.go:261-272, 324-337), however many
\* commands and reloads there are and wherever they stop.
THEOREM LiveExports == Spec => []LiveExportsWhole
<1>1. IInv => LiveExportsWhole
  BY DEF IInv, LinkInv, LiveExportsWhole
<1> QED BY <1>1, Invariance, PTL

\* config.json always holds one whole configuration (container.go:257-266),
\* however many commands write it and wherever they die.
THEOREM ConfigAlwaysWhole == Spec => []ConfigWhole
<1>1. IInv => ConfigWhole
  BY DEF IInv, ConfigInv, ConfigWhole
<1> QED BY <1>1, Invariance, PTL
-----------------------------------------------------------------------------
(***************************************************************************)
(* What an update shows when it succeeds.  The invariant follows one       *)
(* update from the lock to the link: what has been listed, opened and      *)
(* exported so far, for the name and the items that it works with, which   *)
(* nobody changes while it holds its locks.                                *)
(***************************************************************************)
\* The configuration of the worker is in force, if it is a command's.
Committed == {"update"} \cup Updating
Configuring == {"locked", "writing", "written"} \cup Committed

\* A process with a lock works under the container's name.
HoldInv ==
    /\ Running => loaded[Nsboxd].name = name
    /\ \A c \in Cmds : work[c].pc \in Configuring =>
          ConfigLock \in granted[c] /\ loaded[c].name = name
    /\ \A h \in Handlers :
          work[h].pc \in {"idle"} \cup Committed /\ (work[h].pc # "idle" => Running)

\* What a command has loaded is what it has written.
WrittenInv ==
    \A c \in Cmds :
        /\ work[c].pc = "written" => configTmp.items = loaded[c].items
        /\ work[c].pc \in Committed => loaded[c].items = config.items

\* The steps from the empty new instance on.
Filling == {"walk", "stat", "export", "link", "switch", "retire", "remove", "done"}

\* How far the update u has come: the items it exports under a name, the files
\* made so far, those installed, and the two links.  A walk that was given up
\* has nothing left to export.
Progress(u, items, under, made, installed, to, tmp) ==
    /\ u.pc \in Updating => u.steady \subseteq installed /\ u.found \subseteq items
    /\ u.pc \in Filling => made \subseteq items \X {under}
    /\ u.pc \in {"read", "reset", "mkdir", "walk"} => ~u.lost
    /\ u.pc \in {"walk", "stat"} => made = {}
    /\ u.pc \in Filling \ {"walk"} =>
          IF u.lost
          THEN u.todo = {} /\ u.found = {} /\ made = {}
          ELSE \A a \in u.steady \cap items :
                  a \in u.todo \cup u.found \/ <<a, under>> \in made
    /\ u.pc \in Filling \ {"walk", "stat"} => u.todo = {}
    /\ u.pc \in Filling \ {"walk", "stat", "export"} => u.found = {}
    /\ u.pc = "switch" => tmp.under = under
    /\ u.pc \in {"retire", "remove", "done"} => to.id = u.new /\ to.under = under

ProgressInv ==
    \A w \in Workers : Progress(work[w], Ct(w).items, name,
                                instance[work[w].new].files, storage, link, linkTmp)

LEMMA StopFacts ==
    ASSUME TypeOK, NEW w \in Workers, Stop(w)
    PROVE  /\ work'[w].pc = "idle"
           /\ \A v \in Workers : v # w => work'[v] = work[v]
           /\ \A p \in Lockers : p # w => granted'[p] = granted[p] /\ loaded'[p] = loaded[p]
           /\ w # Nsboxd /\ Nsboxd \in Lockers
  BY WorkersAssumption DEF TypeOK, Stop, Idle, Workers, Lockers

LEMMA GrantFacts ==
    ASSUME TypeOK, NEW p \in Lockers, NEW S, Locks!Grant(p, S)
    PROVE  \A q \in Lockers : granted'[q] = IF q = p THEN granted[q] \cup S ELSE granted[q]
  BY DEF TypeOK, Locks!Grant

LEMMA GrantHeld ==
    ASSUME TypeOK, NEW p \in Lockers, NEW l, Locks!Grant(p, {l})
    PROVE  l \in granted'[p]
<1>1. granted'[p] = granted[p] \cup {l}
  BY GrantFacts
<1> QED BY <1>1

\* What a command leaves alone, and what it needs when it does not stop.
LEMMA CommandFacts ==
    ASSUME TypeOK, NEW c \in Cmds, Command(c)
    PROVE  /\ UNCHANGED <<storage, link, linkTmp, instance>>
           /\ \A v \in Workers : v # c => work'[v] = work[v]
           /\ \A p \in Lockers : p # c => granted'[p] = granted[p] /\ loaded'[p] = loaded[p]
           /\ work'[c].pc \notin Updating
           /\ name' # name => \A p \in Lockers : granted[p] = {}
<1>0. c \in Workers /\ c \in Lockers
  BY DEF Workers, Lockers
<1>1. CASE Open(c) \/ WriteConfigTmp(c)
  <2>1. \A p \in Lockers : p # c => loaded'[p] = loaded[p]
    BY <1>1 DEF Open, WriteConfigTmp, Load, TypeOK
  <2>2. /\ \A v \in Workers : v # c => work'[v] = work[v]
        /\ work'[c].pc \notin Updating
    BY <1>0, <1>1, WentTo DEF Open, WriteConfigTmp, Updating, Building
  <2> QED BY <1>1, <2>1, <2>2 DEF Open, WriteConfigTmp, files
<1>2. CASE Quit(c) \/ \E new \in Names : Rename(c, new)
  BY <1>0, <1>2, StopFacts DEF Quit, Rename, files, Updating, Building
<1>3. CASE LockConfig(c)
  <2>1. /\ \A v \in Workers : v # c => work'[v] = work[v]
        /\ work'[c].pc \notin Updating
    BY <1>0, <1>3, WentTo DEF LockConfig, Updating, Building
  <2> QED BY <1>0, <1>3, <2>1, GrantFacts DEF LockConfig, files
<1>4. CASE CloseConfigTmp(c) \/ RenameConfigTmp(c)
  <2>1. /\ \A v \in Workers : v # c => work'[v] = work[v]
        /\ work'[c].pc \notin Updating
    BY <1>0, <1>4, WentTo DEF CloseConfigTmp, RenameConfigTmp, Updating, Building
  <2> QED BY <1>4, <2>1 DEF CloseConfigTmp, RenameConfigTmp
<1> QED BY <1>1, <1>2, <1>3, <1>4 DEF Command

\* An update's step is its worker's alone, and leaves the configuration alone.
LEMMA UpdateFacts ==
    ASSUME TypeOK, NEW w \in Workers, UpdateDesktopFiles(w)
    PROVE  /\ UNCHANGED <<name, config, configTmp, storage>>
           /\ work[w].pc \in Committed
           /\ \A v \in Workers : v # w => work'[v] = work[v]
           /\ \/ Stop(w) /\ UNCHANGED <<link, linkTmp, instance>>
              \/ /\ loaded' = loaded
                 /\ work'[w].pc \in Updating
                 /\ granted' = granted \/ Locks!Grant(w, {ExportsLock})
<1> USE DEF Committed, Updating, Building
<1>1. CASE LockExports(w)
  BY <1>1 DEF LockExports, TypeOK, Idle, files, At
<1>2. CASE UpdateFails(w) \/ UpdateReturns(w)
  BY <1>2, StopFacts DEF UpdateFails, UpdateReturns, files, At
<1>3. CASE ReadExportsId(w) \/ WalkList(w) \/ \E a \in Apps : WalkVisit(w, a)
  <2>1. /\ \A v \in Workers : v # w => work'[v] = work[v]
        /\ work'[w].pc \in {"reset", "stat"}
    <3>1. CASE ReadExportsId(w)
      BY <3>1 DEF ReadExportsId, TypeOK, Works, At
    <3>2. CASE WalkList(w)
      BY <3>2 DEF WalkList, TypeOK, Works, At
    <3>3. CASE \E a \in Apps : WalkVisit(w, a)
      BY <3>3 DEF WalkVisit, TypeOK, Works, At
    <3> QED BY <1>3, <3>1, <3>2, <3>3
  <2> QED BY <1>3, <2>1 DEF ReadExportsId, WalkList, WalkVisit, At, files
<1>4. CASE \E a \in Apps : ExportDesktopFile(w, a)
  <2>1. /\ \A v \in Workers : v # w => work'[v] = work[v]
        /\ work'[w].pc = "export"
    BY <1>4 DEF ExportDesktopFile, TypeOK, Works, At
  <2> QED BY <1>4, <2>1 DEF ExportDesktopFile, At
<1>5. CASE ResetNew(w) \/ MakeNew(w) \/ ExportIcons(w) \/ RetireOld(w) \/ RemoveOld(w)
  BY <1>5, WentTo DEF ResetNew, MakeNew, ExportIcons, RetireOld, RemoveOld, InstanceStep, At
<1>6. CASE WalkEnds(w) \/ SymlinkTmp(w)
  BY <1>6, WentTo DEF WalkEnds, SymlinkTmp, At, files
<1>7. CASE RenameLinkTmp(w)
  <2>1. /\ \A v \in Workers : v # w => work'[v] = work[v]
        /\ work'[w].pc \in {"done", "retire"}
    BY <1>7, WentTo DEF RenameLinkTmp
  <2> QED BY <1>7, <2>1 DEF RenameLinkTmp, At
<1> QED BY <1>1, <1>2, <1>3, <1>4, <1>5, <1>6, <1>7 DEF UpdateDesktopFiles
LEMMA HoldNext == TypeOK /\ LocksInv /\ HoldInv /\ [Next]_vars => HoldInv'
<1> SUFFICES ASSUME TypeOK, LocksInv, HoldInv, [Next]_vars PROVE HoldInv'
  OBVIOUS
<1> USE WorkersAssumption DEF Workers, Lockers
<1>1. ASSUME NEW c \in Cmds, Command(c) PROVE HoldInv'
  <2>1. /\ \A v \in Workers : v # c => work'[v] = work[v]
        /\ \A p \in Lockers : p # c => granted'[p] = granted[p] /\ loaded'[p] = loaded[p]
    BY <1>1, CommandFacts
  <2>2. ASSUME name' # name PROVE HoldInv'
    <3>1. \A p \in Lockers : granted[p] = {}
      BY <1>1, <2>2, CommandFacts
    <3>2. Stop(c)
      BY <1>1, <2>2 DEF Command, Rename, Open, Quit, LockConfig, WriteConfigTmp,
         CloseConfigTmp, RenameConfigTmp, files
    <3>3. work'[c].pc = "idle"
      BY <3>2, StopFacts
    <3>4. ~Running /\ ~Running'
      BY <2>1, <3>1 DEF Running
    <3>5. \A d \in Cmds : work'[d].pc \notin Configuring
      BY <2>1, <3>1, <3>3 DEF HoldInv, Configuring, Committed, Updating, Building
    <3> QED BY <2>1, <3>4, <3>5 DEF HoldInv
  <2>3. ASSUME name' = name,
               work'[c].pc \in Configuring =>
                   ConfigLock \in granted'[c] /\ loaded'[c].name = name
        PROVE  HoldInv'
    BY <2>1, <2>3 DEF HoldInv, Running
  <2>4. CASE Quit(c)
    BY <1>1, <2>3, <2>4, StopFacts DEF Quit, files, Configuring, Committed, Updating, Building
  <2>5. CASE Open(c)
    <3>1. work'[c].pc = "opened"
      BY <2>5, WentTo DEF Open
    <3> QED BY <2>3, <2>5, <3>1 DEF Open, files, Configuring, Committed, Updating, Building
  <2>6. CASE LockConfig(c)
    <3>1. c \in Lockers /\ Locks!Grant(c, {ConfigLock})
      BY <2>6 DEF LockConfig
    <3>2. ConfigLock \in granted'[c]
      BY <3>1, GrantHeld
    <3> QED BY <2>3, <2>6, <3>2 DEF LockConfig, files
  <2>7. CASE WriteConfigTmp(c) \/ CloseConfigTmp(c) \/ RenameConfigTmp(c)
    <3>1. work[c].pc \in Configuring /\ granted' = granted /\ name' = name
      BY <2>7 DEF WriteConfigTmp, CloseConfigTmp, RenameConfigTmp, At, Configuring
    <3>2. loaded'[c].name = loaded[c].name
      BY <2>7 DEF WriteConfigTmp, CloseConfigTmp, RenameConfigTmp, TypeOK, Containers
    <3> QED BY <2>3, <3>1, <3>2 DEF HoldInv
  <2>8. CASE \E new \in Names : Rename(c, new)
    BY <2>2, <2>8 DEF Rename
  <2> QED BY <1>1, <2>4, <2>5, <2>6, <2>7, <2>8 DEF Command
<1>2. CASE NsboxdOpen \/ NsboxdLock
  <2>1. /\ UNCHANGED <<work, name>>
        /\ \A p \in Lockers : p # Nsboxd => granted'[p] = granted[p] /\ loaded'[p] = loaded[p]
    BY <1>2, GrantFacts DEF NsboxdOpen, NsboxdLock, Load, files, TypeOK
  <2>2. Running' => loaded'[Nsboxd].name = name
    BY <1>2 DEF NsboxdOpen, NsboxdLock, Running
  <2>3. \A h \in Handlers : work[h].pc = "idle"
    BY <1>2 DEF NsboxdOpen, NsboxdLock, HoldInv
  <2> QED BY <2>1, <2>2, <2>3 DEF HoldInv
<1>3. CASE NsboxdDies
  <2>1. ~Running'
    BY <1>3 DEF NsboxdDies, Running
  <2>2. /\ \A c \in Cmds : /\ work'[c] = work[c]
                           /\ granted'[c] = granted[c] /\ loaded'[c] = loaded[c]
        /\ name' = name
    BY <1>3 DEF NsboxdDies, TypeOK, files
  <2>3. \A h \in Handlers : work'[h].pc = "idle"
    BY <1>3 DEF NsboxdDies, Idle
  <2> QED BY <2>1, <2>2, <2>3 DEF HoldInv
<1>4. ASSUME NEW h \in Handlers, NotifyReloadExports(h) PROVE HoldInv'
  <2>1. /\ \A v \in Workers : v # h => work'[v] = work[v]
        /\ work'[h].pc = "update" /\ Running
        /\ UNCHANGED <<name, granted, loaded>>
    BY <1>4, WentTo DEF NotifyReloadExports, files
  <2> QED BY <2>1 DEF HoldInv, Running, Committed
<1>5. ASSUME NEW w \in Workers, UpdateDesktopFiles(w) PROVE HoldInv'
  <2>1. /\ name' = name
        /\ work[w].pc \in Committed
        /\ \A v \in Workers : v # w => work'[v] = work[v]
    BY <1>5, UpdateFacts
  <2>2. CASE Stop(w)
    BY <2>1, <2>2, StopFacts DEF HoldInv, Running, Configuring, Committed, Updating, Building
  <2>3. CASE /\ loaded' = loaded
             /\ work'[w].pc \in Updating
             /\ granted' = granted \/ Locks!Grant(w, {ExportsLock})
    <3>1. \A p \in Lockers : granted[p] \subseteq granted'[p]
      BY <2>3, GrantFacts
    <3>2. Running' => Running
      <4>1. w # Nsboxd
        OBVIOUS
      <4> QED BY <2>3, <4>1, GrantFacts DEF Running
    <3>3. Running => Running'
      BY <3>1 DEF Running
    <3>4. work[w].pc # "idle"
      BY <2>1 DEF Committed, Updating, Building
    <3> QED BY <2>1, <2>3, <3>1, <3>2, <3>3, <3>4 DEF HoldInv, Configuring, Committed
  <2> QED BY <1>5, <2>2, <2>3, UpdateFacts
<1>6. CASE (\E a \in Apps : ChangePackages(a)) \/ UNCHANGED vars
  <2>1. /\ \A v \in Workers : work'[v].pc = work[v].pc
        /\ UNCHANGED <<name, granted, loaded>>
    BY <1>6 DEF ChangePackages, vars, files, TypeOK, Works
  <2> QED BY <2>1 DEF HoldInv, Running
<1> QED BY <1>1, <1>2, <1>3, <1>4, <1>5, <1>6 DEF Next

\* Two commands are never both between the lock and the end.
LEMMA OneCommand ==
    ASSUME LocksInv, HoldInv, NEW c \in Cmds, NEW d \in Cmds, c # d,
           work[c].pc \in Configuring
    PROVE  work[d].pc \notin Configuring
  BY DEF LocksInv, HoldInv, Workers, Lockers

LEMMA WrittenNext ==
    TypeOK /\ LocksInv /\ HoldInv /\ WrittenInv /\ [Next]_vars => WrittenInv'
<1> SUFFICES ASSUME TypeOK, LocksInv, HoldInv, WrittenInv, [Next]_vars PROVE WrittenInv'
  OBVIOUS
<1> USE WorkersAssumption DEF Workers, Lockers
<1>1. ASSUME NEW c \in Cmds, Command(c) PROVE WrittenInv'
  <2>1. /\ \A d \in Cmds : d # c => work'[d] = work[d] /\ loaded'[d] = loaded[d]
        /\ work'[c].pc \notin Updating
    BY <1>1, CommandFacts
  <2>2. CASE Open(c) \/ Quit(c) \/ LockConfig(c) \/ \E new \in Names : Rename(c, new)
    <3>1. work'[c].pc \in {"idle", "opened", "locked"}
      BY <2>2, WentTo, StopFacts DEF Open, Quit, LockConfig, Rename
    <3>2. UNCHANGED <<config, configTmp>>
      BY <2>2 DEF Open, Quit, LockConfig, Rename, files
    <3> QED BY <2>1, <3>1, <3>2 DEF WrittenInv, Committed
  <2>3. CASE WriteConfigTmp(c) \/ CloseConfigTmp(c) \/ RenameConfigTmp(c)
    <3>1. work[c].pc \in Configuring
      BY <2>3 DEF WriteConfigTmp, CloseConfigTmp, RenameConfigTmp, At, Configuring
    <3>2. \A d \in Cmds : d # c => work'[d].pc \notin Configuring
      BY <2>1, <3>1, OneCommand
    <3>3. CASE WriteConfigTmp(c)
      <4>1. work'[c].pc = "writing"
        BY <3>3, WentTo DEF WriteConfigTmp
      <4> QED BY <2>1, <3>2, <4>1 DEF WrittenInv, Configuring, Committed
    <3>4. CASE CloseConfigTmp(c)
      <4>1. work'[c].pc = "written" /\ configTmp'.items = loaded'[c].items
        BY <3>4, WentTo DEF CloseConfigTmp
      <4> QED BY <2>1, <3>2, <4>1 DEF WrittenInv, Configuring, Committed
    <3>5. CASE RenameConfigTmp(c)
      <4>1. work'[c].pc = "update" /\ config'.items = loaded'[c].items
        BY <3>5, WentTo DEF RenameConfigTmp, WrittenInv, At
      <4> QED BY <2>1, <3>2, <4>1 DEF WrittenInv, Configuring, Committed
    <3> QED BY <2>3, <3>3, <3>4, <3>5
  <2> QED BY <1>1, <2>2, <2>3 DEF Command
<1>2. ASSUME UNCHANGED <<config, configTmp>>,
             \A c \in Cmds : loaded'[c] = loaded[c] /\ work'[c].pc = work[c].pc
      PROVE  WrittenInv'
  BY <1>2 DEF WrittenInv
<1>3. CASE NsboxdOpen \/ NsboxdLock \/ NsboxdDies
  BY <1>2, <1>3 DEF NsboxdOpen, NsboxdLock, NsboxdDies, Load, TypeOK, files
<1>4. ASSUME NEW h \in Handlers, NotifyReloadExports(h) PROVE WrittenInv'
  BY <1>2, <1>4, WentTo DEF NotifyReloadExports, files
<1>5. ASSUME NEW w \in Workers, UpdateDesktopFiles(w) PROVE WrittenInv'
  <2>1. /\ UNCHANGED <<config, configTmp>>
        /\ work[w].pc \in Committed
        /\ \A v \in Workers : v # w => work'[v] = work[v]
    BY <1>5, UpdateFacts
  <2>2. CASE Stop(w)
    BY <2>1, <2>2, StopFacts DEF WrittenInv, Committed, Updating, Building
  <2>3. CASE loaded' = loaded /\ work'[w].pc \in Updating
    BY <2>1, <2>3 DEF WrittenInv, Committed, Updating, Building
  <2> QED BY <1>5, <2>2, <2>3, UpdateFacts
<1>6. CASE (\E a \in Apps : ChangePackages(a)) \/ UNCHANGED vars
  <2>1. \A v \in Workers : work'[v].pc = work[v].pc
    BY <1>6 DEF ChangePackages, vars, TypeOK, Works
  <2> QED BY <1>2, <1>6, <2>1 DEF ChangePackages, vars, files
<1> QED BY <1>1, <1>3, <1>4, <1>5, <1>6 DEF Next
\* Who is in an update works under the container's name.
LEMMA RightName ==
    ASSUME HoldInv, NEW w \in Workers, work[w].pc \in Updating
    PROVE  Ct(w).name = name
<1>1. CASE w \in Cmds
  BY <1>1 DEF HoldInv, Configuring, Committed, Ct
<1>2. CASE w \in Handlers /\ w \notin Cmds
  BY <1>2 DEF HoldInv, Ct, Updating, Building
<1> QED BY <1>1, <1>2 DEF Workers

\* Nothing is asked of a worker that is not in an update.
LEMMA ProgressOutside ==
    ASSUME NEW u, u.pc \notin Updating, NEW items, NEW under, NEW made, NEW installed,
           NEW to, NEW tmp
    PROVE  Progress(u, items, under, made, installed, to, tmp)
  BY DEF Progress, Filling, Updating, Building

LEMMA ProgressKept ==
    ASSUME ProgressInv, UNCHANGED <<storage, link, linkTmp, instance>>,
           \A v \in Workers : work'[v].pc \in Updating =>
              work'[v] = work[v] /\ Ct(v)' = Ct(v) /\ name' = name
    PROVE  ProgressInv'
<1> SUFFICES ASSUME NEW v \in Workers
             PROVE  Progress(work'[v], Ct(v)'.items, name',
                             instance'[work'[v].new].files, storage', link', linkTmp')
  BY DEF ProgressInv
<1>1. CASE work'[v].pc \in Updating
  BY <1>1 DEF ProgressInv
<1>2. CASE work'[v].pc \notin Updating
  BY <1>2, ProgressOutside
<1> QED BY <1>1, <1>2

\* A step of the worker in the update leaves only its own part to show.
LEMMA ProgressAlone ==
    ASSUME TypeOK, IInv, NEW w \in Workers, work[w].pc \in Updating,
           \A v \in Workers : v # w => work'[v] = work[v],
           loaded' = loaded, name' = name,
           Progress(work'[w], Ct(w).items, name, instance'[work'[w].new].files, storage',
                    link', linkTmp')
    PROVE  ProgressInv'
<1> SUFFICES ASSUME NEW v \in Workers
             PROVE  Progress(work'[v], Ct(v)'.items, name',
                             instance'[work'[v].new].files, storage', link', linkTmp')
  BY DEF ProgressInv
<1>1. CASE v = w
  <2>1. Ct(w)' = Ct(w)
    BY DEF Ct
  <2> QED BY <1>1, <2>1
<1>2. CASE v # w
  <2>1. work'[v].pc \notin Updating
    BY <1>2, Alone DEF IInv
  <2> QED BY <2>1, ProgressOutside
<1> QED BY <1>1, <1>2

LEMMA ProgressUpdate ==
    ASSUME TypeOK, IInv, HoldInv, ProgressInv, NEW w \in Workers, UpdateDesktopFiles(w)
    PROVE  ProgressInv'
<1> DEFINE u == work[w]
           items == Ct(w).items
           made == instance[work[w].new].files
<1>1. /\ UNCHANGED <<name, storage>>
      /\ \A v \in Workers : v # w => work'[v] = work[v]
  BY UpdateFacts
<1>2. /\ u \in Works
      /\ instance \in [{0, 1} -> Instances]
      /\ storage \subseteq Apps
  BY DEF TypeOK
<1>3. Progress(u, items, name, made, storage, link, linkTmp)
  BY DEF ProgressInv
<1>4. u.pc \in Updating => Ct(w).name = name
  BY RightName
<1>5. ASSUME work[w].pc \in Updating, loaded' = loaded,
             Progress(work'[w], items, name, instance'[work'[w].new].files, storage,
                      link', linkTmp')
      PROVE  ProgressInv'
  BY <1>1, <1>5, ProgressAlone
<1>6. CASE Stop(w)
  <2>1. /\ UNCHANGED <<link, linkTmp, instance>>
        /\ work'[w].pc = "idle"
        /\ \A p \in Lockers : p # w => loaded'[p] = loaded[p]
    BY <1>6, UpdateFacts, StopFacts DEF Updating, Building
  <2>2. \A v \in Workers : v # w => Ct(v)' = Ct(v)
    BY <2>1, WorkersAssumption DEF Ct, Workers, Lockers
  <2> QED BY <1>1, <2>1, <2>2, ProgressKept DEF Updating, Building
<1>7. CASE LockExports(w)
  <2>1. work'[w] = [Idle EXCEPT !.pc = "read", !.steady = storage]
    BY <1>7 DEF LockExports, TypeOK
  <2>2. /\ work'[w].pc = "read" /\ work'[w].steady = storage
        /\ work'[w].found = {} /\ ~work'[w].lost
    BY <2>1 DEF Idle
  <2> SUFFICES ASSUME NEW v \in Workers
               PROVE  Progress(work'[v], Ct(v)'.items, name',
                               instance'[work'[v].new].files, storage', link', linkTmp')
    BY DEF ProgressInv
  <2>3. CASE v = w
    BY <1>1, <2>2, <2>3 DEF Progress, Filling
  <2>4. CASE v # w
    <3>1. /\ Ct(v)' = Ct(v)
          /\ UNCHANGED <<instance, link, linkTmp>>
      BY <1>7 DEF LockExports, Ct, files
    <3> QED BY <1>1, <2>4, <3>1 DEF ProgressInv
  <2> QED BY <2>3, <2>4
<1>8. CASE ReadExportsId(w)
  <2>1. /\ work'[w].pc = "reset" /\ u.pc = "read"
        /\ work'[w].steady = u.steady /\ work'[w].found = u.found
        /\ work'[w].lost = u.lost
    BY <1>2, <1>8 DEF ReadExportsId, TypeOK, Works, At
  <2>2. Progress(work'[w], items, name, instance'[work'[w].new].files, storage,
                 link', linkTmp')
    BY <1>3, <2>1 DEF Progress, Filling, Updating, Building
  <2> QED BY <1>5, <1>8, <2>1, <2>2 DEF ReadExportsId, Updating
<1> DEFINE Same == /\ work'[w].new = u.new
                   /\ work'[w].todo = u.todo
                   /\ work'[w].found = u.found
                   /\ work'[w].steady = u.steady
                   /\ work'[w].lost = u.lost
<1>9. ASSUME NEW pc, Goto(w, pc)
      PROVE  Same /\ work'[w].pc = pc
  BY <1>2, <1>9 DEF Goto, TypeOK, Works
<1>10. CASE ResetNew(w)
  <2>1. Same /\ work'[w].pc = "mkdir" /\ u.pc = "reset" /\ loaded' = loaded
    BY <1>9, <1>10 DEF ResetNew, InstanceStep, At
  <2>2. Progress(work'[w], items, name, instance'[work'[w].new].files, storage,
                 link', linkTmp')
    BY <1>3, <2>1 DEF Progress, Filling, Updating, Building
  <2> QED BY <1>5, <2>1, <2>2 DEF Updating, Building
<1>11. CASE MakeNew(w)
  <2>1. Same /\ work'[w].pc = "walk" /\ u.pc = "mkdir" /\ loaded' = loaded
    BY <1>9, <1>11 DEF MakeNew, InstanceStep, At
  <2>2. instance'[u.new].files = {}
    BY <1>2, <1>11 DEF MakeNew, InstanceStep, Works, NoDir
  <2>3. Progress(work'[w], items, name, instance'[work'[w].new].files, storage,
                 link', linkTmp')
    BY <1>3, <2>1, <2>2 DEF Progress, Filling, Updating, Building
  <2> QED BY <1>5, <2>1, <2>3 DEF Updating, Building
<1>12. CASE WalkList(w)
  <2>1. /\ work'[w].pc = "stat" /\ u.pc = "walk" /\ work'[w].todo = storage
        /\ work'[w].new = u.new /\ work'[w].found = u.found
        /\ work'[w].steady = u.steady /\ work'[w].lost = u.lost
        /\ UNCHANGED <<loaded, instance>>
    BY <1>2, <1>12 DEF WalkList, TypeOK, Works, At, files
  <2>2. Progress(work'[w], items, name, instance'[work'[w].new].files, storage,
                 link', linkTmp')
    BY <1>3, <2>1 DEF Progress, Filling, Updating, Building
  <2> QED BY <1>5, <2>1, <2>2 DEF Updating, Building
<1>13. ASSUME NEW a \in Apps, WalkVisit(w, a) PROVE ProgressInv'
  <2>1. /\ u.pc = "stat" /\ a \in u.todo
        /\ UNCHANGED <<loaded, instance, link, linkTmp>>
    BY <1>13 DEF WalkVisit, At, files
  <2>2. CASE /\ a \in storage
             /\ work' = [work EXCEPT ![w].todo = @ \ {a},
                                     ![w].found = @ \cup ({a} \cap Ct(w).items)]
    <3>1. /\ work'[w].pc = "stat" /\ work'[w].todo = u.todo \ {a}
          /\ work'[w].found = u.found \cup ({a} \cap items)
          /\ work'[w].new = u.new /\ work'[w].steady = u.steady
          /\ work'[w].lost = u.lost
      BY <1>2, <2>1, <2>2 DEF TypeOK, Works
    <3>2. Progress(work'[w], items, name, instance'[work'[w].new].files, storage,
                   link', linkTmp')
      BY <1>3, <2>1, <3>1 DEF Progress, Filling, Updating, Building
    <3> QED BY <1>5, <2>1, <3>2 DEF Updating, Building
  <2>3. CASE work' = [work EXCEPT ![w].todo = @ \ {a}, ![w].steady = @ \ {a}]
    <3>1. /\ work'[w].pc = "stat" /\ work'[w].todo = u.todo \ {a}
          /\ work'[w].steady = u.steady \ {a}
          /\ work'[w].new = u.new /\ work'[w].found = u.found
          /\ work'[w].lost = u.lost
      BY <1>2, <2>1, <2>3 DEF TypeOK, Works
    <3>2. Progress(work'[w], items, name, instance'[work'[w].new].files, storage,
                   link', linkTmp')
      BY <1>3, <2>1, <3>1 DEF Progress, Filling, Updating, Building
    <3> QED BY <1>5, <2>1, <3>2 DEF Updating, Building
  <2>4. CASE work' = [work EXCEPT ![w].todo = {}, ![w].found = {}, ![w].lost = TRUE]
    <3>1. /\ work'[w].pc = "stat" /\ work'[w].found = {} /\ work'[w].lost
          /\ work'[w].todo = {}
          /\ work'[w].new = u.new /\ work'[w].steady = u.steady
      BY <1>2, <2>1, <2>4 DEF TypeOK, Works
    <3>2. Progress(work'[w], items, name, instance'[work'[w].new].files, storage,
                   link', linkTmp')
      BY <1>3, <2>1, <3>1 DEF Progress, Filling, Updating, Building
    <3> QED BY <1>5, <2>1, <3>2 DEF Updating, Building
  <2> QED BY <1>13, <2>2, <2>3, <2>4 DEF WalkVisit
<1>14. CASE WalkEnds(w)
  <2>1. /\ Same /\ work'[w].pc = "export" /\ u.pc = "stat" /\ u.todo = {}
        /\ UNCHANGED <<loaded, instance>>
    BY <1>9, <1>14 DEF WalkEnds, At, files
  <2>2. Progress(work'[w], items, name, instance'[work'[w].new].files, storage,
                 link', linkTmp')
    BY <1>3, <2>1 DEF Progress, Filling, Updating, Building
  <2> QED BY <1>5, <2>1, <2>2 DEF Updating, Building
<1>15. ASSUME NEW a \in Apps, ExportDesktopFile(w, a) PROVE ProgressInv'
  <2>1. /\ u.pc = "export" /\ a \in u.found /\ loaded' = loaded
        /\ \/ work' = [work EXCEPT ![w].found = @ \ {a}]
           \/ work' = [work EXCEPT ![w].found = @ \ {a}, ![w].steady = @ \ {a}]
    BY <1>15 DEF ExportDesktopFile, At
  <2>2. /\ work'[w].pc = "export" /\ work'[w].found = u.found \ {a}
        /\ work'[w].todo = u.todo
        /\ work'[w].new = u.new
        /\ work'[w].steady \in {u.steady, u.steady \ {a}}
        /\ work'[w].lost = u.lost
    BY <1>2, <2>1 DEF TypeOK, Works
  <2>3. Ct(w).name = name
    BY <1>4, <2>1 DEF Updating, Building
  <2>4. instance'[u.new].files = made \cup {<<a, name>>}
    BY <1>2, <1>15, <2>3 DEF ExportDesktopFile, Works, Instances
  <2>5. Progress(work'[w], items, name, instance'[work'[w].new].files, storage,
                 link', linkTmp')
    BY <1>3, <2>1, <2>2, <2>4 DEF Progress, Filling, Updating, Building
  <2> QED BY <1>5, <2>1, <2>5 DEF Updating, Building
<1>16. CASE ExportIcons(w)
  <2>1. /\ Same /\ work'[w].pc = "link" /\ u.pc = "export" /\ u.found = {}
        /\ loaded' = loaded
    BY <1>9, <1>16 DEF ExportIcons, InstanceStep, At
  <2>2. instance'[u.new].files = made
    BY <1>2, <1>16 DEF ExportIcons, InstanceStep, Works, Instances
  <2>3. Progress(work'[w], items, name, instance'[work'[w].new].files, storage,
                 link', linkTmp')
    BY <1>3, <2>1, <2>2 DEF Progress, Filling, Updating, Building
  <2> QED BY <1>5, <2>1, <2>3 DEF Updating, Building
<1>17. CASE SymlinkTmp(w)
  <2>1. /\ Same /\ work'[w].pc = "switch" /\ u.pc = "link"
        /\ linkTmp'.under = name
        /\ UNCHANGED <<loaded, instance>>
    BY <1>4, <1>9, <1>17 DEF SymlinkTmp, At, Updating, Building
  <2>2. Progress(work'[w], items, name, instance'[work'[w].new].files, storage,
                 link', linkTmp')
    BY <1>3, <2>1 DEF Progress, Filling, Updating, Building
  <2> QED BY <1>5, <2>1, <2>2 DEF Updating, Building
<1>18. CASE RenameLinkTmp(w)
  <2>1. /\ Same /\ work'[w].pc \in {"done", "retire"} /\ u.pc = "switch"
        /\ link' = linkTmp
        /\ UNCHANGED <<loaded, instance>>
    BY <1>9, <1>18 DEF RenameLinkTmp, At
  <2>2. linkTmp.id = u.new
    BY <2>1 DEF IInv, UpdateInv
  <2>3. Progress(work'[w], items, name, instance'[work'[w].new].files, storage,
                 link', linkTmp')
    BY <1>3, <2>1, <2>2 DEF Progress, Filling, Updating, Building
  <2> QED BY <1>5, <2>1, <2>3 DEF Updating, Building
<1>19. CASE RetireOld(w) \/ RemoveOld(w)
  <2>1. /\ Same /\ work'[w].pc \in {"remove", "done"} /\ u.pc \in {"retire", "remove"}
        /\ UNCHANGED <<loaded, link, linkTmp>>
    BY <1>9, <1>19 DEF RetireOld, RemoveOld, InstanceStep, At
  <2>2. u.old # u.new
    BY <1>3, <2>1 DEF IInv, UpdateInv, Progress
  <2>3. instance'[u.new] = instance[u.new]
    BY <1>2, <1>19, <2>2 DEF RetireOld, RemoveOld, InstanceStep, Works
  <2>4. Progress(work'[w], items, name, instance'[work'[w].new].files, storage,
                 link', linkTmp')
    BY <1>3, <2>1, <2>3 DEF Progress, Filling, Updating, Building
  <2> QED BY <1>5, <2>1, <2>4 DEF Updating, Building
<1> QED BY <1>6, <1>7, <1>8, <1>10, <1>11, <1>12, <1>13, <1>14, <1>15, <1>16, <1>17,
           <1>18, <1>19 DEF UpdateDesktopFiles, UpdateFails, UpdateReturns

LEMMA ProgressNext ==
    TypeOK /\ IInv /\ HoldInv /\ ProgressInv /\ [Next]_vars => ProgressInv'
<1> SUFFICES ASSUME TypeOK, IInv, HoldInv, ProgressInv, [Next]_vars PROVE ProgressInv'
  OBVIOUS
<1>1. ASSUME NEW c \in Cmds, Command(c) PROVE ProgressInv'
  <2>1. /\ UNCHANGED <<storage, link, linkTmp, instance>>
        /\ \A v \in Workers : v # c => work'[v] = work[v]
        /\ \A p \in Lockers : p # c => loaded'[p] = loaded[p]
        /\ work'[c].pc \notin Updating
        /\ name' # name => \A p \in Lockers : granted[p] = {}
    BY <1>1, CommandFacts
  <2>2. ASSUME NEW v \in Workers, work'[v].pc \in Updating
        PROVE  work'[v] = work[v] /\ Ct(v)' = Ct(v) /\ name' = name
    <3>1. v # c /\ work'[v] = work[v]
      BY <2>1, <2>2
    <3>2. Ct(v)' = Ct(v)
      BY <2>1, <3>1, WorkersAssumption DEF Ct, Workers, Lockers
    <3>3. ExportsLock \in granted[v] /\ v \in Lockers
      BY <2>2, <3>1 DEF IInv, LocksInv, Lockers
    <3> QED BY <2>1, <3>1, <3>2, <3>3
  <2> QED BY <2>1, <2>2, ProgressKept
<1>2. CASE NsboxdOpen \/ NsboxdLock
  <2>1. /\ UNCHANGED <<name, storage, link, linkTmp, instance, work>>
        /\ \A p \in Lockers : p # Nsboxd => loaded'[p] = loaded[p]
        /\ ~Running
    BY <1>2 DEF NsboxdOpen, NsboxdLock, Load, TypeOK, files
  <2>2. ASSUME NEW v \in Workers, work'[v].pc \in Updating
        PROVE  Ct(v)' = Ct(v)
    <3>1. v \in Cmds
      BY <2>1, <2>2 DEF HoldInv, Workers, Updating, Building
    <3> QED BY <2>1, <3>1, WorkersAssumption DEF Ct, Workers, Lockers
  <2> QED BY <2>1, <2>2, ProgressKept
<1>3. CASE NsboxdDies
  <2>1. /\ UNCHANGED <<name, storage, link, linkTmp, instance>>
        /\ \A v \in Workers : v \notin Cmds => work'[v].pc = "idle"
        /\ \A v \in Cmds : work'[v] = work[v] /\ loaded'[v] = loaded[v]
    BY <1>3, WorkersAssumption DEF NsboxdDies, TypeOK, files, Idle, Workers, Lockers
  <2>2. ASSUME NEW v \in Workers, work'[v].pc \in Updating
        PROVE  work'[v] = work[v] /\ Ct(v)' = Ct(v)
    BY <2>1, <2>2 DEF Ct, Updating, Building
  <2> QED BY <2>1, <2>2, ProgressKept
<1>4. ASSUME NEW h \in Handlers, NotifyReloadExports(h) PROVE ProgressInv'
  <2>1. /\ \A v \in Workers : v # h => work'[v] = work[v]
        /\ work'[h].pc \notin Updating
        /\ UNCHANGED <<name, storage, link, linkTmp, instance, loaded>>
    BY <1>4, WentTo DEF NotifyReloadExports, Workers, files, Updating, Building
  <2>2. \A v \in Workers : Ct(v)' = Ct(v)
    BY <2>1 DEF Ct
  <2> QED BY <2>1, <2>2, ProgressKept
<1>5. ASSUME NEW w \in Workers, UpdateDesktopFiles(w) PROVE ProgressInv'
  BY <1>5, ProgressUpdate
<1>6. ASSUME NEW a \in Apps, ChangePackages(a) PROVE ProgressInv'
  <2> SUFFICES ASSUME NEW v \in Workers
               PROVE  Progress(work'[v], Ct(v)'.items, name',
                               instance'[work'[v].new].files, storage', link', linkTmp')
    BY DEF ProgressInv
  <2>1. /\ UNCHANGED <<name, link, linkTmp, instance>>
        /\ Ct(v)' = Ct(v)
        /\ work'[v] = [work[v] EXCEPT !.steady = @ \cap storage']
    BY <1>6 DEF ChangePackages, Ct
  <2>2. /\ work'[v].pc = work[v].pc /\ work'[v].new = work[v].new
        /\ work'[v].todo = work[v].todo /\ work'[v].found = work[v].found
        /\ work'[v].lost = work[v].lost
        /\ work'[v].steady = work[v].steady \cap storage'
    BY <2>1 DEF TypeOK, Works
  <2>3. Progress(work[v], Ct(v).items, name, instance[work[v].new].files, storage,
                 link, linkTmp)
    BY DEF ProgressInv
  <2> QED BY <2>1, <2>2, <2>3 DEF Progress
<1>7. CASE UNCHANGED vars
  <2>1. \A v \in Workers : Ct(v)' = Ct(v)
    BY <1>7 DEF vars, Ct
  <2> QED BY <1>7, <2>1, ProgressKept DEF vars, files
<1> QED BY <1>1, <1>2, <1>3, <1>4, <1>5, <1>6, <1>7 DEF Next

LEMMA EffectInit == Init => HoldInv /\ WrittenInv /\ ProgressInv
<1> SUFFICES ASSUME Init PROVE HoldInv /\ WrittenInv /\ ProgressInv
  OBVIOUS
<1>1. \A w \in Workers : work[w].pc = "idle"
  BY DEF Init, Idle
<1>2. ~Running
  BY DEF Init, Running, Lockers
<1>3. HoldInv /\ WrittenInv
  BY <1>1, <1>2 DEF HoldInv, WrittenInv, Configuring, Committed, Updating, Building, Workers
<1>4. ProgressInv
  BY <1>1, ProgressOutside DEF ProgressInv, Updating, Building
<1> QED BY <1>3, <1>4

\* An update that succeeds has switched the link to what it was asked for.
\* The files that the host sees are among the desktop files in the configuration
\* that the command has written (config.go:76-86), or that nsboxd read when it
\* started, under the container's present name (xdgdesktop.go:246-340), whoever
\* else updates, fails, dies, renames or installs packages meanwhile.  Whatever
\* was installed all the while, and not logged as failed, is there; but a walk
\* that met a vanished file shows nothing at all, and succeeds too.
THEOREM TakesEffect == Spec => []UpdateTakesEffect
<1>1. TypeOK /\ IInv /\ HoldInv /\ WrittenInv /\ ProgressInv /\ [Next]_vars
          => (HoldInv /\ WrittenInv /\ ProgressInv)'
  BY HoldNext, WrittenNext, ProgressNext DEF IInv
<1>2. Spec => [](HoldInv /\ WrittenInv /\ ProgressInv)
  BY <1>1, EffectInit, Typing, Invariance, PTL DEF Spec
<1>3. WrittenInv /\ ProgressInv => UpdateTakesEffect
  <2> SUFFICES ASSUME WrittenInv, ProgressInv, NEW w \in Workers, work[w].pc = "done"
               PROVE  Shows(w, IF w \in Cmds THEN config.items ELSE Ct(w).items, Exported)
    BY DEF UpdateTakesEffect, At
  <2> DEFINE items == Ct(w).items
  <2>1. items = IF w \in Cmds THEN config.items ELSE Ct(w).items
    BY DEF WrittenInv, Committed, Updating, Ct
  <2>2. Progress(work[w], items, name, instance[work[w].new].files, storage, link, linkTmp)
    BY DEF ProgressInv
  <2> HIDE DEF items
  <2>3. /\ link.under = name /\ link.id = work[w].new
        /\ instance[work[w].new].files \subseteq items \X {name}
        /\ IF work[w].lost
           THEN instance[work[w].new].files = {}
           ELSE \A a \in work[w].steady \cap items :
                   <<a, name>> \in instance[work[w].new].files
    BY <2>2 DEF Progress, Filling
  <2>4. Shows(w, items, Exported)
    BY <2>3 DEF Shows, Exported
  <2> QED BY <2>1, <2>4
<1> QED BY <1>2, <1>3, PTL
=============================================================================
