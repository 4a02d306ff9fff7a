------------------------------ MODULE Startup ------------------------------
(***************************************************************************)
(* The account of the user in a container.  At every start nsboxd leaves   *)
(* what the account of the host says in the container's private directory  *)
(* (RunContainerDirectNspawn), and nsbox-init.sh makes the account in the  *)
(* container follow it.  nsbox config -auth=manual leaves a password of    *)
(* its own there at any time, without the run lock (UpdateManualPassword). *)
(*                                                                         *)
(* A password is numbered: by the change of the host's account, or by the  *)
(* command that gave it.  There is one nsboxd at a time, and none while a  *)
(* container of an earlier one is left (the run lock, see Lifecycle).      *)
(***************************************************************************)
EXTENDS Integers, Sequences, SequencesExt

CONSTANTS
    Rights,       \* what the host may say of the rights of the user
    MaxChanges,   \* bound: changes of the host's account
    MaxCommands,  \* bound: nsbox config commands
    MaxKills      \* bound: kills and failures of starts and commands

\* A rule as cvtsudoers prints it: whether it is for this user or a group of
\* theirs, whether it allows every command, and its last authenticate option.
Rule == [mine : BOOLEAN, all : BOOLEAN, authenticated : BOOLEAN]

\* What GetSudoAccess asks: the rules of /etc/sudoers, what comes of cvtsudoers
\* ("disabled" if nsbox is built without it; "fails" also if its output cannot
\* be parsed), and whether a group of the user is found to be config.SudoGroup.
Right == [rules : Seq(Rule), member : BOOLEAN,
          cvtsudoers : {"answers", "fails", "missing", "disabled"}]

ASSUME StartupAssumption ==
    /\ Rights \subseteq Right
    /\ {MaxChanges, MaxCommands, MaxKills} \subseteq Nat

VARIABLES
    account,   \* the user on the host: number of the password, and the rights
    auth,      \* Config.Auth in config.json
    custom,    \* shadow-custom-pass
    entry,     \* shadow-entry
    private,   \* whether the private directory has been made
    nopasswd,  \* sudoers.d/10-nsbox-passwd
    user,      \* in the container: whether the user exists, is in the group
    shadow,    \* the user's password in /etc/shadow, and in /etc/shadow.x
    pc,        \* of nsboxd, and then of nsbox-init.sh
    start,     \* what nsboxd read at this start; short: the files of it that
               \* an ignored error cut off; took: what init took up
    cmd,       \* the nsbox config command that runs
    commands, kills,
    asked,     \* ghost: what the last command asked for while all was down
    commanded  \* ghost: a command ran since a password was put in force, or a
               \* password it left is still waiting

files == <<custom, entry, private, nopasswd>>
ghosts == <<asked, commanded>>
vars == <<account, auth, files, user, shadow, pc, start, cmd, commands, kills,
          ghosts>>

\* The contents of a file, or of the password field of a line in it.
Missing == <<"missing", 0>>    \* no file; no line
Empty == <<"empty", 0>>        \* a file without a whole line; an empty field
NoPassword == <<"locked", 0>>  \* what useradd leaves
Host(n) == <<"host", n>>
Manual(n) == <<"manual", n>>
Contents == {Missing, Empty, NoPassword} \cup {Host(n) : n \in 0..MaxChanges}
                \cup {Manual(n) : n \in 1..MaxCommands}

NsboxdSteps == {"private", "sudo", "nopasswd", "env", "entry",
                "create", "write", "nspawn"}
InitSteps == {"user", "group", "pick", "custom", "entries", "mv", "service",
              "ready"}
Access == {"no", "password", "nopasswd"}

TypeOK ==
    /\ account \in [password : 0..MaxChanges, rights : Rights]
    /\ auth \in {"auto", "manual"}
    /\ custom \in Contents
    /\ entry \in Contents
    /\ private \in BOOLEAN
    /\ nopasswd \in {"missing", "cut", "whole"}
    /\ user \in [exists : BOOLEAN, member : BOOLEAN]
    /\ shadow \in [live : Contents, x : Contents]
    /\ pc \in {"down"} \cup NsboxdSteps \cup InitSteps
    /\ start \in [auth : {"auto", "manual"}, rights : Rights, access : Access,
                  password : 0..MaxChanges, took : {"none", "custom", "entry"},
                  short : SUBSET {"shared-env", "shadow-entry"}]
    /\ cmd \in [pc : {"idle", "create", "write", "update"},
                auth : {"auto", "manual"}, alone : BOOLEAN]
    /\ commands \in 0..MaxCommands
    /\ kills \in 0..MaxKills
    /\ asked \in Contents
    /\ commanded \in BOOLEAN

Init ==
    /\ account \in [password : {0}, rights : Rights]
    /\ auth = "auto"
    /\ custom = Missing
    /\ entry = Missing
    /\ private = FALSE
    /\ nopasswd = "missing"
    /\ user = [exists |-> FALSE, member |-> FALSE]
    /\ shadow = [live |-> Missing, x |-> Missing]
    /\ pc = "down"
    /\ start = [auth |-> "auto", rights |-> account.rights, access |-> "no",
                password |-> 0, took |-> "none", short |-> {}]
    /\ cmd = [pc |-> "idle", auth |-> "auto", alone |-> FALSE]
    /\ commands = 0
    /\ kills = 0
    /\ asked = Missing
    /\ commanded = FALSE

\* The host's user changes the password, or root the sudoers file, the groups
\* or the sudo that is installed; what nsbox was built with stays.
ChangeAccount ==
    /\ account.password < MaxChanges
    /\ \E rights \in Rights :
          /\ rights.cvtsudoers = "disabled"
                 <=> account.rights.cvtsudoers = "disabled"
          /\ account' = [password |-> account.password + 1, rights |-> rights]
    /\ UNCHANGED <<auth, files, user, shadow, pc, start, cmd, commands, kills,
                   ghosts>>

-----------------------------------------------------------------------------
(***************************************************************************)
(* nsboxd                                                                  *)
(***************************************************************************)
Step(from, to) == pc = from /\ pc' = to

\* Every rule that lets the user run any command overrides those before it.
LastRule(rules) ==
    LET Says(rule) == IF rule.authenticated THEN "password" ELSE "nopasswd"
    IN  FoldLeft(LAMBDA access, rule :
                     IF rule.mine /\ rule.all THEN Says(rule) ELSE access,
                 "no", rules)

\* checkSudoAccessViaCvtsudoers, or checkSudoAccessViaGroupName if disabled; an
\* error is logged and is no access.
GetSudoAccess(rights) ==
    CASE rights.cvtsudoers = "answers" -> LastRule(rights.rules)
      [] rights.cvtsudoers = "disabled" /\ rights.member -> "password"
      [] OTHER -> "no"

\* container.Open, before the run lock is taken.
Open ==
    /\ Step("down", "private")
    /\ start' = [start EXCEPT !.auth = auth, !.took = "none",
                               !.short = {}]
    /\ cmd' = [cmd EXCEPT !.alone = FALSE]
    /\ UNCHANGED <<account, auth, files, user, shadow, commands, kills, ghosts>>

MakePrivate ==
    /\ Step("private", "sudo")
    /\ private' = TRUE
    /\ UNCHANGED <<account, auth, custom, entry, nopasswd, user, shadow, start,
                   cmd, commands, kills, ghosts>>

\* setupSudo: the file is made anew, or removed.
SetupSudo ==
    /\ LET access == GetSudoAccess(account.rights)
       IN  /\ start' = [start EXCEPT !.access = access,
                                  !.rights = account.rights]
           /\ Step("sudo", IF access = "nopasswd" THEN "nopasswd" ELSE "env")
           /\ nopasswd' = IF access = "nopasswd" THEN "cut" ELSE "missing"
    /\ UNCHANGED <<account, auth, custom, entry, private, user, shadow, cmd,
                   commands, kills, ghosts>>

WriteNoPasswd ==
    /\ Step("nopasswd", "env")
    /\ nopasswd' = "whole"
    /\ UNCHANGED <<account, auth, custom, entry, private, user, shadow, start,
                   cmd, commands, kills, ghosts>>

\* Mutant of WriteEnv: an entry is left whatever Config.Auth is.
WriteEnvAlways ==
    /\ Step("env", "entry")
    /\ start' = [start EXCEPT !.password = account.password]
    /\ UNCHANGED <<account, auth, files, user, shadow, cmd, commands, kills,
                   ghosts>>

\* Mutant of WriteEnv: an entry that is there is good enough.
WriteEnvKeeps ==
    /\ Step("env", IF start.auth = "auto" /\ entry = Missing
                   THEN "entry" ELSE "nspawn")
    /\ start' = [start EXCEPT !.password = account.password]
    /\ UNCHANGED <<account, auth, files, user, shadow, cmd, commands, kills,
                   ghosts>>

\* writeContainerFiles: shared-env with what setUserEnv and setupSudo found, of
\* which an ignored error may cut off the line about sudo; then, if the password is the
\* host's, the line that getent finds.
WriteEnv ==
    /\ Step("env", IF start.auth = "auto" THEN "entry" ELSE "nspawn")
    /\ \/ start' = [start EXCEPT !.password = account.password]
          /\ UNCHANGED kills
       \/ /\ kills < MaxKills
          /\ kills' = kills + 1
          /\ start' = [start EXCEPT !.password = account.password,
                                    !.short = {"shared-env"}]
    /\ UNCHANGED <<account, auth, files, user, shadow, cmd, commands, ghosts>>

WriteEntry ==
    /\ \/ Step("entry", "create") /\ entry' = Missing
          /\ UNCHANGED <<start, kills>>
       \/ Step("create", "write") /\ entry' = Empty
          /\ UNCHANGED <<start, kills>>
       \/ Step("write", "nspawn") /\ entry' = Host(start.password)
          /\ UNCHANGED <<start, kills>>
       \/ /\ Step("write", "nspawn") /\ UNCHANGED entry
          /\ kills < MaxKills
          /\ kills' = kills + 1
          /\ start' = [start EXCEPT !.short = @ \cup {"shadow-entry"}]
    /\ UNCHANGED <<account, auth, custom, private, nopasswd, user, shadow,
                   cmd, commands, ghosts>>

StartNspawn ==
    /\ Step("nspawn", "user")
    /\ UNCHANGED <<account, auth, files, user, shadow, start, cmd, commands,
                   kills, ghosts>>

-----------------------------------------------------------------------------
(***************************************************************************)
(* nsbox-init.sh                                                           *)
(***************************************************************************)
\* usermod, or useradd
SetupUser ==
    /\ Step("user", "group")
    /\ IF user.exists
       THEN UNCHANGED <<user, shadow>>
       ELSE /\ user' = [user EXCEPT !.exists = TRUE]
            /\ shadow' = [shadow EXCEPT !.live = NoPassword]
    /\ UNCHANGED <<account, auth, files, start, cmd, commands, kills, ghosts>>

\* Mutant of SetupGroup: nobody is taken out of the group.
SetupGroupAdds ==
    /\ Step("group", "pick")
    /\ user' = [user EXCEPT !.member = @ \/ start.access # "no"]
    /\ UNCHANGED <<account, auth, files, shadow, start, cmd, commands, kills,
                   ghosts>>

\* gpasswd -a, gpasswd -d, or neither, as the line in shared-env says; without
\* the line, as if it said no.
SetupGroup ==
    /\ Step("group", "pick")
    /\ user' = [user EXCEPT !.member = /\ start.access # "no"
                                       /\ "shared-env" \notin start.short]
    /\ UNCHANGED <<account, auth, files, shadow, start, cmd, commands, kills,
                   ghosts>>

Takes(what, password) ==
    /\ shadow' = [shadow EXCEPT !.x = password]
    /\ start' = [start EXCEPT !.took = what]

\* Mutant of MakeShadow: the entry comes before the custom password.
MakeShadowEntryFirst ==
    /\ Step("pick", IF {custom, entry} = {Missing} THEN "service" ELSE "custom")
    /\ \/ entry # Missing
          /\ Takes("entry", IF entry = Empty THEN Missing ELSE entry)
       \/ custom # Missing /\ entry = Missing
          /\ Takes("custom", IF shadow.live = Missing THEN Missing ELSE custom)
       \/ custom = Missing /\ entry = Missing /\ UNCHANGED <<shadow, start>>
    /\ UNCHANGED <<account, auth, files, user, cmd, commands, kills, ghosts>>

\* shadow.x: sed puts the custom password into the user's line, if there is
\* one; without a custom password the entry takes the place of the line.
MakeShadow ==
    /\ Step("pick", IF {custom, entry} = {Missing} THEN "service" ELSE "custom")
    /\ \/ custom # Missing
          /\ Takes("custom", IF shadow.live = Missing THEN Missing ELSE custom)
       \/ custom = Missing /\ entry # Missing
          /\ Takes("entry", IF entry = Empty THEN Missing ELSE entry)
       \/ custom = Missing /\ entry = Missing /\ UNCHANGED <<shadow, start>>
    /\ UNCHANGED <<account, auth, files, user, cmd, commands, kills, ghosts>>

\* rm -f, one file after the other
RemoveFiles ==
    /\ \/ Step("custom", "entries") /\ custom' = Missing /\ UNCHANGED entry
       \/ Step("entries", "mv") /\ entry' = Missing /\ UNCHANGED custom
    /\ UNCHANGED <<account, auth, private, nopasswd, user, shadow, start, cmd,
                   commands, kills, ghosts>>

MoveShadow ==
    /\ Step("mv", "service")
    /\ shadow' = [live |-> shadow.x, x |-> Missing]
    /\ commanded' = (cmd.pc # "idle" \/ custom # Missing)
    /\ UNCHANGED <<account, auth, files, user, start, cmd, commands, kills,
                   asked>>

\* nsbox-host service: NotifyStart
Service ==
    /\ Step("service", "ready")
    /\ UNCHANGED <<account, auth, files, user, shadow, start, cmd, commands,
                   kills, ghosts>>

Stop ==
    /\ Step("ready", "down")
    /\ UNCHANGED <<account, auth, files, user, shadow, start, cmd, commands,
                   kills, ghosts>>

\* nsboxd or nsbox-init.sh is killed or fails, which ends both.  A password
\* that has been removed and not yet moved into place is lost.
StartDies ==
    /\ pc \notin {"down", "ready"}
    /\ kills < MaxKills
    /\ kills' = kills + 1
    /\ pc' = "down"
    /\ asked' = IF pc \in {"entries", "mv"} THEN Missing ELSE asked
    /\ UNCHANGED <<account, auth, files, user, shadow, start, cmd, commands,
                   commanded>>

-----------------------------------------------------------------------------
(***************************************************************************)
(* nsbox config -auth=..., which holds the configuration lock              *)
(***************************************************************************)
Begin(a) ==
    /\ cmd.pc = "idle"
    /\ commands < MaxCommands
    /\ commands' = commands + 1
    /\ cmd' = [pc |-> IF a = "manual" THEN "create" ELSE "update", auth |-> a,
               alone |-> pc = "down"]
    /\ asked' = Missing
    /\ commanded' = TRUE
    /\ UNCHANGED <<account, auth, files, user, shadow, pc, start, kills>>

\* UpdateManualPassword: without the directory, the command fails.
CreateCustom ==
    /\ cmd.pc = "create"
    /\ cmd' = [cmd EXCEPT !.pc = IF private THEN "write" ELSE "idle"]
    /\ custom' = IF private THEN Empty ELSE custom
    /\ UNCHANGED <<account, auth, entry, private, nopasswd, user, shadow, pc,
                   start, commands, kills, ghosts>>

\* A file that init has removed meanwhile stays removed.  The error of the
\* write is ignored, which leaves the file empty; cmd.alone then ends as well.
WriteCustom ==
    /\ cmd.pc = "write"
    /\ \/ /\ cmd' = [cmd EXCEPT !.pc = "update"]
          /\ custom' = IF custom = Missing THEN Missing ELSE Manual(commands)
          /\ UNCHANGED kills
       \/ /\ kills < MaxKills
          /\ kills' = kills + 1
          /\ cmd' = [cmd EXCEPT !.pc = "update", !.alone = FALSE]
          /\ UNCHANGED custom
    /\ UNCHANGED <<account, auth, entry, private, nopasswd, user, shadow, pc,
                   start, commands, ghosts>>

UpdateConfig ==
    /\ cmd.pc = "update"
    /\ cmd' = [cmd EXCEPT !.pc = "idle"]
    /\ auth' = cmd.auth
    /\ asked' = IF cmd.alone /\ cmd.auth = "manual" THEN Manual(commands)
                                                    ELSE asked
    /\ UNCHANGED <<account, files, user, shadow, pc, start, commands, kills,
                   commanded>>

\* The command is killed, or another of its options is invalid.
CommandFails ==
    /\ cmd.pc # "idle"
    /\ kills < MaxKills
    /\ kills' = kills + 1
    /\ cmd' = [cmd EXCEPT !.pc = "idle"]
    /\ UNCHANGED <<account, auth, files, user, shadow, pc, start, commands,
                   ghosts>>

Nsboxd == Open \/ MakePrivate \/ SetupSudo \/ WriteNoPasswd \/ WriteEnv
          \/ WriteEntry \/ StartNspawn
NsboxInit == SetupUser \/ SetupGroup \/ MakeShadow \/ RemoveFiles
             \/ MoveShadow \/ Service
Config == CreateCustom \/ WriteCustom \/ UpdateConfig \/ CommandFails
          \/ \E a \in {"auto", "manual"} : Begin(a)

Next == ChangeAccount \/ Nsboxd \/ NsboxInit \/ Stop \/ StartDies \/ Config

Spec == Init /\ [][Next]_vars

-----------------------------------------------------------------------------
(***************************************************************************)
(* Properties                                                              *)
(***************************************************************************)
\* When the container is ready, the sudo rights of its user are those that this
\* start found on the host, whatever starts died before it, and at which step:
\* what the last rule for them says; in a build without cvtsudoers, those of the
\* group; none while cvtsudoers is missing or fails, whatever the rules say.  A
\* shared-env that was cut off can take the group away and never gives it
\* (check_privs.go:54-170, direct.go:113-175, nsbox-init.sh:24-30).
SudoFollowsHost ==
    LET rights == start.rights
        mine == {n \in DOMAIN rights.rules :
                     rights.rules[n].mine /\ rights.rules[n].all}
        open == \E n \in mine : /\ ~rights.rules[n].authenticated
                                /\ \A m \in mine : m <= n
        can == \/ rights.cvtsudoers = "answers" /\ mine # {}
               \/ rights.cvtsudoers = "disabled" /\ rights.member
        free == rights.cvtsudoers = "answers" /\ open
    IN  pc = "ready" =>
            /\ user.member <=> can /\ "shared-env" \notin start.short
            /\ nopasswd = IF free THEN "whole" ELSE "missing"

\* A start with Config.Auth at auto leaves the host's password of that moment,
\* though earlier starts died between any two steps, unless a password of the
\* user's own was still waiting, or this start's write of the entry failed,
\* which nothing looks at: the user then has no line, and never an older
\* password (direct.go:178-198, nsbox-init.sh:41-57).
HostPassword ==
    pc = "ready" /\ start.auth = "auto" /\ start.took # "custom"
        => shadow.live = IF "shadow-entry" \in start.short
                         THEN Missing ELSE Host(start.password)

\* guide.md:221: a custom password "will be applied to the container the next
\* time you run it": so it is if it was given while the container was down,
\* and written whole (container.go:481 looks at no error), unless the start
\* that takes it up dies between rm and mv, or the line of the user has been
\* lost.
NextRunApplies ==
    pc = "ready" /\ asked # Missing => shadow.live \in {asked, Missing}

\* A password of the user's own, once in force with Config.Auth at manual, is
\* replaced by no restart: it takes another nsbox config -auth.
ManualStays ==
    [][shadow.live[1] = "manual" /\ auth = "manual" /\ ~commanded
           => shadow'.live = shadow.live]_vars
=============================================================================
