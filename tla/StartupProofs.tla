---------------------------- MODULE StartupProofs ----------------------------
(***************************************************************************)
(* Proofs about Startup, for any hosts and any number of changes,          *)
(* commands and deaths: what the password in the container is, and what    *)
(* sudo lets the user do.                                                  *)
(***************************************************************************)
EXTENDS Startup, WellFoundedInduction, TLAPS

\* TypeOK in parts, and the number that a command's password gets.
Starts == [auth : {"auto", "manual"}, rights : Rights, access : Access,
           password : 0..MaxChanges, took : {"none", "custom", "entry"},
           short : SUBSET {"shared-env", "shadow-entry"}]
Accounts == [password : 0..MaxChanges, rights : Rights]
Users == [exists : BOOLEAN, member : BOOLEAN]
Shadows == [live : Contents, x : Contents]
Commands == [pc : {"idle", "create", "write", "update"},
             auth : {"auto", "manual"}, alone : BOOLEAN]

Typed ==
    /\ account \in Accounts
    /\ auth \in {"auto", "manual"}
    /\ custom \in Contents
    /\ entry \in Contents
    /\ user \in Users
    /\ shadow \in Shadows
    /\ start \in Starts
    /\ cmd \in Commands
    /\ commands \in 0..MaxCommands
    /\ cmd.pc # "idle" => commands >= 1

\* The rest of TypeOK, which no other invariant needs.
RestTyped ==
    /\ private \in BOOLEAN
    /\ nopasswd \in {"missing", "cut", "whole"}
    /\ pc \in {"down"} \cup NsboxdSteps \cup InitSteps
    /\ kills \in 0..MaxKills
    /\ asked \in Contents
    /\ commanded \in BOOLEAN

\* The user's line is made before it is changed, and the files of the private
\* directory are gone before the new line is in force.
OrderInv ==
    /\ user.exists \/ shadow.live = Missing
    /\ pc \in {"group", "pick", "custom", "entries", "mv"} => user.exists
    /\ pc = "mv" => entry = Missing

\* From the file to the line: the password that getent found at this start, or
\* nothing if the write of the entry failed.
EntryFailed == "shadow-entry" \in start.short
Found == IF EntryFailed THEN Missing ELSE Host(start.password)

HostInv ==
    start.auth = "auto" =>
        /\ pc = "write" => entry = Empty
        /\ pc \in {"private", "sudo", "nopasswd", "env", "entry", "create", "write"} => ~EntryFailed
        /\ pc \in {"nspawn", "user", "group", "pick"}
               => entry = IF EntryFailed THEN Empty ELSE Host(start.password)
        /\ pc \in {"custom", "entries", "mv"} /\ start.took # "custom"
               => shadow.x = Found
        /\ pc \in {"service", "ready"} /\ start.took # "custom"
               => shadow.live = Found

\* Without a command nothing is left that a start could take up.
ManualInv ==
    ~commanded =>
        /\ cmd.pc = "idle"
        /\ custom = Missing
        /\ shadow.live[1] = "manual" /\ auth = "manual" =>
               /\ entry = Missing
               /\ pc \notin {"entry", "create", "write", "custom", "entries", "mv"}
               /\ pc \in {"private", "sudo", "nopasswd", "env"} => start.auth = "manual"

\* A command that no start has come between finds the file as it left it.
AloneInv ==
    cmd.pc # "idle" /\ cmd.alone =>
        /\ pc = "down"
        /\ cmd.pc = "write" => custom = Empty
        /\ cmd.pc = "update" /\ cmd.auth = "manual" => custom = Manual(commands)

\* Where the password that was asked for is: in its file, in shadow.x, or in force.
Waiting ==
    /\ custom = asked
    /\ pc \notin {"entries", "mv", "service", "ready"}
    /\ pc = "custom" => shadow.x \in {asked, Missing}
Moving ==
    /\ custom = Missing
    /\ pc \in {"entries", "mv"}
    /\ shadow.x \in {asked, Missing}
InForce ==
    /\ custom = Missing /\ entry = Missing
    /\ user.exists
    /\ pc \notin {"entry", "create", "write", "custom", "entries", "mv"}
    /\ shadow.live \in {asked, Missing}

AskedInv ==
    asked # Missing =>
        /\ cmd.pc = "idle"
        /\ auth = "manual"
        /\ pc # "down" => start.auth = "manual"
        /\ Waiting \/ Moving \/ InForce

\* From the rights that this start found to the file and the group.
SudoInv ==
    /\ pc \notin {"down", "private", "sudo"} =>
           start.access = GetSudoAccess(start.rights)
    /\ pc = "nopasswd" => start.access = "nopasswd"
    /\ pc \notin {"down", "private", "sudo", "nopasswd"} =>
           nopasswd = IF start.access = "nopasswd" THEN "whole" ELSE "missing"
    /\ pc \in {"pick", "custom", "entries", "mv", "service", "ready"} =>
           user.member = (start.access # "no" /\ "shared-env" \notin start.short)

IInv == OrderInv /\ HostInv /\ SudoInv /\ ManualInv /\ AloneInv /\ AskedInv

-----------------------------------------------------------------------------
(***************************************************************************)
(* What the fold over the sudoers rules returns                            *)
(***************************************************************************)
\* Induction on a set of numbers, by its smallest element.
LEMMA Smallest ==
    ASSUME NEW S \in SUBSET Nat, S # {}
    PROVE  \E n \in S : \A m \in S : n <= m
<1> DEFINE Less == {ss \in Nat \X Nat : ss[1] < ss[2]}
<1>1. OpToRel(<, Nat) = Less
  BY DEF OpToRel
<1>2. IsWellFoundedOn(Less, Nat)
  BY <1>1, NatLessThanWellFounded
<1>3. PICK n \in S : \A m \in S : <<m, n>> \notin Less
  BY <1>2, WFMin
<1>4. \A m \in S : ~(m < n)
  BY <1>3
<1> QED BY <1>4

LEMMA Largest ==
    ASSUME NEW n \in Nat, NEW S \in SUBSET (1..n), S # {}
    PROVE  \E x \in S : \A y \in S : x >= y
<1> DEFINE Above == {n - x : x \in S}
<1>1. \A x \in S : n - x \in Nat
  OBVIOUS
<1>5. Above \in SUBSET Nat /\ Above # {}
  BY <1>1
<1>2. PICK b \in Above : \A c \in Above : b <= c
  BY <1>5, Smallest
<1>3. PICK x \in S : b = n - x
  OBVIOUS
<1>4. \A y \in S : n - x <= n - y
  BY <1>2, <1>3
<1> QED BY <1>4

LEMMA MaxIs ==
    ASSUME NEW n \in Nat, NEW S \in SUBSET (1..n), S # {}
    PROVE  Max(S) \in S /\ \A y \in S : Max(S) >= y
BY Largest DEF Max

Says(rule) == IF rule.authenticated THEN "password" ELSE "nopasswd"

\* The rules that are for the user and let them run any command.
Decisive(rules, S) == {n \in S : rules[n].mine /\ rules[n].all}
\* What the rules numbered in S say: the last of them that decides.
Verdict(rules, S) ==
    IF Decisive(rules, S) = {} THEN "no" ELSE Says(rules[Max(Decisive(rules, S))])

\* The equation that the fold over rules satisfies.
Follows(rules, f) ==
    f = [S \in SUBSET DOMAIN rules |->
            IF S = {} THEN "no"
            ELSE IF rules[Max(S)].mine /\ rules[Max(S)].all
                 THEN Says(rules[Max(S)]) ELSE f[S \ {Max(S)}]]

LEMMA FoldIs ==
    ASSUME NEW rules
    PROVE  LastRule(rules) = (CHOOSE f : Follows(rules, f))[DOMAIN rules]
BY DEF LastRule, FoldLeft, MapThenFoldSet, Follows, Says

LEMMA VerdictFollows ==
    ASSUME NEW rules \in Seq(Rule)
    PROVE  Follows(rules, [S \in SUBSET DOMAIN rules |-> Verdict(rules, S)])
<1> DEFINE f == [S \in SUBSET DOMAIN rules |-> Verdict(rules, S)]
<1>1. Len(rules) \in Nat /\ DOMAIN rules = 1..Len(rules)
  OBVIOUS
<1>2. ASSUME NEW S \in SUBSET DOMAIN rules
      PROVE  Verdict(rules, S) =
                 IF S = {} THEN "no"
                 ELSE IF rules[Max(S)].mine /\ rules[Max(S)].all
                      THEN Says(rules[Max(S)]) ELSE f[S \ {Max(S)}]
  <2>1. CASE S = {}
    BY <2>1 DEF Verdict, Decisive
  <2>2. CASE S # {}
    <3> DEFINE m == Max(S)
    <3>1. m \in S /\ \A y \in S : m >= y
      BY <1>1, <2>2, MaxIs
    <3>2. CASE rules[m].mine /\ rules[m].all
      <4>1. m \in Decisive(rules, S) /\ Decisive(rules, S) \subseteq S
        BY <3>1, <3>2 DEF Decisive
      <4>2. Max(Decisive(rules, S)) \in Decisive(rules, S)
            /\ Max(Decisive(rules, S)) >= m
        BY <1>1, <4>1, MaxIs
      <4>3. Max(Decisive(rules, S)) = m
        BY <1>1, <3>1, <4>1, <4>2
      <4> QED BY <2>2, <3>2, <4>1, <4>3 DEF Verdict
    <3>3. CASE ~(rules[m].mine /\ rules[m].all)
      <4>1. Decisive(rules, S) = Decisive(rules, S \ {m})
        BY <3>3 DEF Decisive
      <4>2. f[S \ {m}] = Verdict(rules, S \ {m})
        OBVIOUS
      <4>3. Verdict(rules, S) = Verdict(rules, S \ {m})
        BY <4>1 DEF Verdict
      <4> QED BY <2>2, <3>3, <4>2, <4>3
    <3> QED BY <3>2, <3>3
  <2> QED BY <2>1, <2>2
<1> HIDE DEF f
<1>3. f = [S \in SUBSET DOMAIN rules |-> 
            IF S = {} THEN "no"
            ELSE IF rules[Max(S)].mine /\ rules[Max(S)].all
                 THEN Says(rules[Max(S)]) ELSE f[S \ {Max(S)}]]
  BY <1>2 DEF f
<1> QED BY <1>3 DEF Follows, f

\* A function that follows the rules has one value on every set of rules.
LEMMA OneVerdict ==
    ASSUME NEW rules \in Seq(Rule), NEW f, NEW g, Follows(rules, f), Follows(rules, g),
           NEW S \in SUBSET DOMAIN rules
    PROVE  f[S] = g[S]
<1> DEFINE Differ == {T \in SUBSET DOMAIN rules : f[T] # g[T]}
           Tops == {Max(T) : T \in Differ}
<1>1. Len(rules) \in Nat /\ DOMAIN rules = 1..Len(rules)
  OBVIOUS
<1>2. ASSUME NEW T \in Differ
      PROVE  T # {} /\ T \ {Max(T)} \in Differ
  <2>1. /\ f[T] = IF T = {} THEN "no"
                  ELSE IF rules[Max(T)].mine /\ rules[Max(T)].all
                       THEN Says(rules[Max(T)]) ELSE f[T \ {Max(T)}]
        /\ g[T] = IF T = {} THEN "no"
                  ELSE IF rules[Max(T)].mine /\ rules[Max(T)].all
                       THEN Says(rules[Max(T)]) ELSE g[T \ {Max(T)}]
    BY DEF Follows
  <2> QED BY <2>1
<1>3. \A T \in Differ : Max(T) \in T /\ \A y \in T : Max(T) >= y
  BY <1>1, <1>2, MaxIs
<1>4. ASSUME Differ # {} PROVE FALSE
  <2>1. Tops \in SUBSET Nat /\ Tops # {}
    BY <1>1, <1>3, <1>4
  <2>2. PICK t \in Tops : \A u \in Tops : t <= u
    BY <2>1, Smallest
  <2>3. PICK T \in Differ : t = Max(T)
    OBVIOUS
  <2>4. T \ {t} \in Differ
    BY <1>2, <2>3
  <2>5. Max(T \ {t}) \in T \ {t} /\ t >= Max(T \ {t}) /\ t <= Max(T \ {t})
    BY <1>3, <2>2, <2>3, <2>4
  <2>6. t \in Nat /\ Max(T \ {t}) \in Nat
    BY <1>1, <2>1, <2>5
  <2>7. t <= Max(T \ {t}) /\ t >= Max(T \ {t}) /\ t # Max(T \ {t})
    BY <2>5
  <2> HIDE DEF Differ, Tops
  <2> QED BY <2>6, <2>7
<1> QED BY <1>4

\* The last rule that decides is what the fold over the rules returns.
LEMMA LastDecides ==
    ASSUME NEW rules \in Seq(Rule)
    PROVE  LastRule(rules) = Verdict(rules, DOMAIN rules)
<1> DEFINE v == [S \in SUBSET DOMAIN rules |-> Verdict(rules, S)]
           f == CHOOSE g : Follows(rules, g)
<1>1. Follows(rules, v)
  BY VerdictFollows
<1>2. Follows(rules, f)
  BY <1>1
<1>3. f[DOMAIN rules] = v[DOMAIN rules]
  BY <1>1, <1>2, OneVerdict
<1> QED BY <1>3, FoldIs

LEMMA LastRuleIs ==
    ASSUME NEW rules \in Seq(Rule)
    PROVE  /\ LastRule(rules) \in Access
           /\ LastRule(rules) # "no" <=> Decisive(rules, DOMAIN rules) # {}
           /\ LastRule(rules) = "nopasswd" <=>
                  \E n \in Decisive(rules, DOMAIN rules) :
                      /\ ~rules[n].authenticated
                      /\ \A m \in Decisive(rules, DOMAIN rules) : m <= n
<1> DEFINE D == Decisive(rules, DOMAIN rules)
<1>1. Len(rules) \in Nat /\ D \in SUBSET (1..Len(rules))
  BY DEF Decisive
<1>2. CASE D = {}
  BY <1>2, LastDecides DEF Verdict, Access
<1>3. CASE D # {}
  <2>1. Max(D) \in D /\ \A m \in D : Max(D) >= m
    BY <1>1, <1>3, MaxIs
  <2>2. LastRule(rules) = Says(rules[Max(D)])
    BY <1>3, LastDecides DEF Verdict
  <2>3. \A n \in D : (\A m \in D : m <= n) => n = Max(D)
    BY <1>1, <2>1
  <2> HIDE DEF D
  <2>4. (\E n \in D : ~rules[n].authenticated /\ \A m \in D : m <= n)
            <=> ~rules[Max(D)].authenticated
    BY <1>1, <2>1, <2>3
  <2> QED BY <1>3, <2>2, <2>4 DEF Says, Access, D
<1> QED BY <1>2, <1>3

\* The rules are asked where cvtsudoers answers, and the group where nsbox was
\* built without it.
LEMMA AccessIs ==
    ASSUME NEW rights \in Right
    PROVE  LET D == Decisive(rights.rules, DOMAIN rights.rules)
           IN  /\ GetSudoAccess(rights) \in Access
               /\ GetSudoAccess(rights) # "no" <=>
                      \/ rights.cvtsudoers = "answers" /\ D # {}
                      \/ rights.cvtsudoers = "disabled" /\ rights.member
               /\ GetSudoAccess(rights) = "nopasswd" <=>
                      /\ rights.cvtsudoers = "answers"
                      /\ \E n \in D : /\ ~rights.rules[n].authenticated
                                      /\ \A m \in D : m <= n
<1> DEFINE D == Decisive(rights.rules, DOMAIN rights.rules)
           open == \E n \in D : /\ ~rights.rules[n].authenticated
                               /\ \A m \in D : m <= n
<1>1. /\ LastRule(rights.rules) \in Access
      /\ LastRule(rights.rules) # "no" <=> D # {}
      /\ LastRule(rights.rules) = "nopasswd" <=> open
  <2>1. rights.rules \in Seq(Rule)
    BY DEF Right
  <2> QED BY <2>1, LastRuleIs
<1> HIDE DEF D, open
<1>2. /\ GetSudoAccess(rights) \in Access
      /\ GetSudoAccess(rights) # "no" <=>
             \/ rights.cvtsudoers = "answers" /\ D # {}
             \/ rights.cvtsudoers = "disabled" /\ rights.member
      /\ GetSudoAccess(rights) = "nopasswd" <=> rights.cvtsudoers = "answers" /\ open
  <2>1. CASE rights.cvtsudoers = "answers"
    <3>1. GetSudoAccess(rights) = LastRule(rights.rules)
      BY <2>1 DEF GetSudoAccess
    <3> QED BY <1>1, <2>1, <3>1
  <2>2. CASE rights.cvtsudoers = "disabled" /\ rights.member
    <3>1. GetSudoAccess(rights) = "password"
      BY <2>2 DEF GetSudoAccess
    <3> QED BY <2>2, <3>1 DEF Access
  <2>3. CASE rights.cvtsudoers # "answers" /\ ~(rights.cvtsudoers = "disabled" /\ rights.member)
    <3>1. GetSudoAccess(rights) = "no"
      BY <2>3 DEF GetSudoAccess
    <3> QED BY <2>3, <3>1 DEF Access
  <2> QED BY <2>1, <2>2, <2>3
<1> QED BY <1>2 DEF D, open

-----------------------------------------------------------------------------
(***************************************************************************)
(* Types                                                                   *)
(***************************************************************************)
LEMMA ContentsTyped ==
    /\ {Missing, Empty, NoPassword} \subseteq Contents
    /\ \A n \in 0..MaxChanges : Host(n) \in Contents
    /\ \A n \in 1..MaxCommands : Manual(n) \in Contents
  BY DEF Contents

LEMMA InitTyped == Init => Typed
<1> SUFFICES ASSUME Init PROVE Typed
  OBVIOUS
<1>1. account \in Accounts
  BY StartupAssumption DEF Init, Accounts
<1>2. start \in Starts
  BY <1>1, StartupAssumption DEF Init, Starts, Accounts, Access
<1>3. user \in Users /\ cmd \in Commands
  BY DEF Init, Users, Commands
<1>4. shadow \in Shadows
  BY ContentsTyped DEF Init, Shadows
<1> QED BY <1>1, <1>2, <1>3, <1>4, ContentsTyped, StartupAssumption DEF Init, Typed

LEMMA NextTyped == Typed /\ [Next]_vars => Typed'
<1> SUFFICES ASSUME Typed, [Next]_vars PROVE Typed'
  OBVIOUS
<1> USE StartupAssumption
<1>1. CASE ChangeAccount
  <2>1. account' \in Accounts
    BY <1>1 DEF ChangeAccount, Typed, Accounts
  <2> QED BY <1>1, <2>1 DEF ChangeAccount, Typed, files
<1>2. CASE Open
  <2>1. start' \in Starts /\ cmd' \in Commands /\ cmd'.pc = cmd.pc
    BY <1>2 DEF Open, Typed, Starts, Commands
  <2> QED BY <1>2, <2>1 DEF Open, Typed, files
<1>3. CASE SetupSudo
  <2>1. /\ account.rights \in Rights
        /\ account.rights \in Right
    BY DEF Typed, Accounts
  <2>2. start' = [start EXCEPT !.access = GetSudoAccess(account.rights),
                               !.rights = account.rights]
    BY <1>3 DEF SetupSudo
  <2>3. start' \in Starts
    BY <2>1, <2>2, AccessIs DEF Typed, Starts
  <2>4. UNCHANGED <<account, auth, custom, entry, user, shadow, cmd, commands>>
    BY <1>3 DEF SetupSudo
  <2> QED BY <2>3, <2>4 DEF Typed
<1>4. CASE WriteEnv
  <2>1. [start EXCEPT !.password = account.password] \in Starts
    BY DEF Typed, Starts, Accounts
  <2>2. [start EXCEPT !.password = account.password,
                      !.short = {"shared-env"}] \in Starts
    BY DEF Typed, Starts, Accounts
  <2>3. start' \in Starts
    BY <1>4, <2>1, <2>2 DEF WriteEnv
  <2> QED BY <1>4, <2>3 DEF WriteEnv, Typed, files
<1>5. CASE WriteEntry
  <2>1. start.password \in 0..MaxChanges
    BY DEF Typed, Starts
  <2>2. entry' \in Contents
    BY <1>5, <2>1, ContentsTyped DEF WriteEntry, Typed
  <2>3. start' \in Starts
    BY <1>5 DEF WriteEntry, Typed, Starts
  <2> QED BY <1>5, <2>2, <2>3 DEF WriteEntry, Typed
<1>6. CASE SetupUser \/ SetupGroup
  <2>1. user' \in Users
    BY <1>6 DEF SetupUser, SetupGroup, Typed, Users
  <2>2. shadow' \in Shadows
    BY <1>6, ContentsTyped DEF SetupUser, SetupGroup, Typed, Shadows
  <2> QED BY <1>6, <2>1, <2>2 DEF SetupUser, SetupGroup, Typed, files
<1>7. CASE MakeShadow
  <2>1. UNCHANGED <<shadow, start>>
        \/ \E what \in {"custom", "entry"}, password \in Contents : Takes(what, password)
    BY <1>7, ContentsTyped DEF MakeShadow, Typed
  <2>2. shadow' \in Shadows /\ start' \in Starts
    BY <2>1 DEF Takes, Typed, Shadows, Starts
  <2> QED BY <1>7, <2>2 DEF MakeShadow, Typed, files
<1>8. CASE RemoveFiles
  BY <1>8, ContentsTyped DEF RemoveFiles, Typed
<1>9. CASE MoveShadow
  <2>1. shadow' \in Shadows
    BY <1>9, ContentsTyped DEF MoveShadow, Typed, Shadows
  <2> QED BY <1>9, <2>1 DEF MoveShadow, Typed, files
<1>10. CASE MakePrivate \/ WriteNoPasswd \/ StartNspawn \/ Service \/ Stop \/ StartDies
  BY <1>10 DEF MakePrivate, WriteNoPasswd, StartNspawn, Service, Stop, StartDies,
      Typed, files
<1>11. ASSUME NEW a \in {"auto", "manual"}, Begin(a) PROVE Typed'
  <2>1. cmd' \in Commands /\ commands' \in 1..MaxCommands
    BY <1>11 DEF Begin, Typed, Commands
  <2> QED BY <1>11, <2>1 DEF Begin, Typed, files
<1>12. CASE CreateCustom \/ WriteCustom \/ UpdateConfig \/ CommandFails
  <2>1. /\ cmd' \in Commands
        /\ cmd'.pc # "idle" => cmd.pc # "idle"
    BY <1>12 DEF CreateCustom, WriteCustom, UpdateConfig, CommandFails, Typed, Commands
  <2>2. custom' \in Contents
    BY <1>12, ContentsTyped DEF CreateCustom, WriteCustom, UpdateConfig, CommandFails,
        Typed, files
  <2>3. auth' \in {"auto", "manual"}
    BY <1>12 DEF CreateCustom, WriteCustom, UpdateConfig, CommandFails, Typed, Commands
  <2>4. UNCHANGED <<account, entry, user, shadow, start, commands>>
    BY <1>12 DEF CreateCustom, WriteCustom, UpdateConfig, CommandFails, files
  <2> QED BY <2>1, <2>2, <2>3, <2>4 DEF Typed
<1>13. CASE UNCHANGED vars
  BY <1>13 DEF vars, files, Typed
<1> QED BY <1>1, <1>2, <1>3, <1>4, <1>5, <1>6, <1>7, <1>8, <1>9, <1>10, <1>11,
           <1>12, <1>13 DEF Next, Nsboxd, NsboxInit, Config

LEMMA NextRest == Typed /\ RestTyped /\ [Next]_vars => RestTyped'
<1> SUFFICES ASSUME Typed, RestTyped, [Next]_vars PROVE RestTyped'
  OBVIOUS
<1> USE StartupAssumption
<1>1. CASE Nsboxd
  <2>1. CASE Open \/ MakePrivate \/ SetupSudo \/ WriteNoPasswd \/ StartNspawn
    BY <2>1 DEF Open, MakePrivate, SetupSudo, WriteNoPasswd, StartNspawn, Step,
        RestTyped, NsboxdSteps, ghosts, files, InitSteps
  <2>2. CASE WriteEnv \/ WriteEntry
    <3>1. kills' \in 0..MaxKills
      BY <2>2 DEF WriteEnv, WriteEntry, RestTyped
    <3>2. /\ pc' \in {"entry", "create", "write", "nspawn"}
          /\ UNCHANGED <<private, nopasswd, asked, commanded>>
      BY <2>2 DEF WriteEnv, WriteEntry, Step, ghosts, files
    <3> QED BY <3>1, <3>2 DEF RestTyped, NsboxdSteps
  <2> QED BY <1>1, <2>1, <2>2 DEF Nsboxd
<1>2. CASE NsboxInit \/ Stop \/ StartDies
  <2>1. pc' \in {"down"} \cup InitSteps
    BY <1>2 DEF NsboxInit, SetupUser, SetupGroup, MakeShadow, RemoveFiles,
        MoveShadow, Service, Stop, StartDies, Step, InitSteps
  <2>2. kills' \in 0..MaxKills /\ asked' \in Contents
    BY <1>2, StartupAssumption, ContentsTyped DEF NsboxInit, SetupUser, SetupGroup,
        MakeShadow, RemoveFiles, MoveShadow, Service, Stop, StartDies, RestTyped, ghosts
  <2>3. commanded' \in BOOLEAN
    <3>1. CASE MoveShadow
      BY <3>1, Zenon DEF MoveShadow
    <3>2. CASE commanded' = commanded
      BY <3>2 DEF RestTyped
    <3> QED BY <1>2, <3>1, <3>2 DEF NsboxInit, SetupUser, SetupGroup, MakeShadow,
            RemoveFiles, Service, Stop, StartDies, ghosts
  <2>4. UNCHANGED <<private, nopasswd>>
    BY <1>2 DEF NsboxInit, SetupUser, SetupGroup, MakeShadow, RemoveFiles,
        MoveShadow, Service, Stop, StartDies, files
  <2> QED BY <2>1, <2>2, <2>3, <2>4 DEF RestTyped
<1>3. CASE UpdateConfig
  <2>1. commands \in 1..MaxCommands
    BY <1>3 DEF UpdateConfig, Typed
  <2> QED BY <1>3, <2>1, ContentsTyped DEF UpdateConfig, RestTyped, files
<1>4. ASSUME NEW a \in {"auto", "manual"}, Begin(a) PROVE RestTyped'
  BY <1>4, ContentsTyped DEF Begin, RestTyped, files
<1>6. CASE CreateCustom \/ WriteCustom \/ CommandFails
  BY <1>6 DEF CreateCustom, WriteCustom, CommandFails, RestTyped, ghosts, files
<1>5. CASE ChangeAccount \/ UNCHANGED vars
  BY <1>5 DEF ChangeAccount, RestTyped, vars, ghosts, files
<1> QED BY <1>1, <1>2, <1>3, <1>4, <1>5, <1>6 DEF Next, Config

-----------------------------------------------------------------------------
(***************************************************************************)
(* The invariant                                                           *)
(***************************************************************************)
LEMMA Different ==
    /\ Missing # Empty
    /\ \A n : /\ Host(n) # Missing /\ Host(n) # Empty /\ Host(n)[1] = "host"
              /\ Manual(n) # Missing /\ Manual(n) # Empty /\ Manual(n)[1] = "manual"
    /\ Missing[1] = "missing" /\ NoPassword[1] = "locked"
  BY DEF Missing, Empty, NoPassword, Host, Manual

LEMMA InitInv == Init => IInv
<1> SUFFICES ASSUME Init PROVE IInv
  OBVIOUS
<1>1. /\ pc = "down" /\ cmd.pc = "idle" /\ custom = Missing /\ asked = Missing
      /\ shadow.live = Missing
  BY DEF Init
<1> QED BY <1>1, Different
        DEF IInv, OrderInv, HostInv, SudoInv, ManualInv, AloneInv, AskedInv

LEMMA OrderNext == Typed /\ OrderInv /\ [Next]_vars => OrderInv'
<1> SUFFICES ASSUME Typed, OrderInv, [Next]_vars PROVE OrderInv'
  OBVIOUS
<1>1. CASE SetupUser
  <2>1. user'.exists
    BY <1>1 DEF SetupUser, Typed, Users
  <2> QED BY <1>1, <2>1 DEF SetupUser, Step, OrderInv
<1>2. CASE SetupGroup
  <2>1. user'.exists = user.exists
    BY <1>2 DEF SetupGroup, Typed, Users
  <2> QED BY <1>2, <2>1 DEF SetupGroup, Step, OrderInv
<1>3. CASE MakeShadow
  <2>1. shadow'.live = shadow.live
    BY <1>3 DEF MakeShadow, Takes, Typed, Shadows
  <2> QED BY <1>3, <2>1 DEF MakeShadow, Step, OrderInv
<1>4. CASE RemoveFiles \/ MoveShadow
  BY <1>4 DEF RemoveFiles, MoveShadow, Step, OrderInv, files
<1>5. CASE WriteEntry \/ SetupSudo \/ WriteEnv
  BY <1>5 DEF WriteEntry, SetupSudo, WriteEnv, Step, OrderInv, files
<1>6. CASE Open \/ MakePrivate \/ WriteNoPasswd \/ StartNspawn \/ Service \/ Stop
               \/ StartDies
  BY <1>6 DEF Open, MakePrivate, WriteNoPasswd, StartNspawn, Service, Stop, StartDies,
      Step, OrderInv, files
<1>7. CASE ChangeAccount \/ Config
  BY <1>7 DEF ChangeAccount, Config, Begin, CreateCustom, WriteCustom, UpdateConfig,
      CommandFails, OrderInv, files
<1>8. CASE UNCHANGED vars
  BY <1>8 DEF vars, files, OrderInv
<1> QED BY <1>1, <1>2, <1>3, <1>4, <1>5, <1>6, <1>7, <1>8
        DEF Next, Nsboxd, NsboxInit

LEMMA HostNext == Typed /\ HostInv /\ [Next]_vars => HostInv'
<1> SUFFICES ASSUME Typed, HostInv, [Next]_vars PROVE HostInv'
  OBVIOUS
<1>1. CASE MakePrivate \/ WriteNoPasswd \/ Stop \/ StartDies
  BY <1>1 DEF MakePrivate, WriteNoPasswd, Stop, StartDies, Step, HostInv, Found,
      EntryFailed
<1>2. CASE Open \/ SetupSudo
  <2>1. /\ Open => start'.short = {}
        /\ SetupSudo => start'.short = start.short /\ start'.auth = start.auth
        /\ pc' \in {"private", "nopasswd", "env"}
    BY <1>2 DEF Open, SetupSudo, Step, Typed, Starts
  <2>2. start'.auth = "auto" => "shadow-entry" \notin start'.short
    <3>1. CASE Open
      BY <2>1, <3>1
    <3>2. CASE SetupSudo
      BY <2>1, <3>2 DEF SetupSudo, Step, HostInv, EntryFailed
    <3> QED BY <1>2, <3>1, <3>2
  <2> QED BY <2>1, <2>2 DEF HostInv, EntryFailed
<1>3. CASE WriteEnv
  <2>1. /\ start'.auth = start.auth
        /\ start.auth = "auto" => pc' = "entry"
        /\ start'.short \in {start.short, {"shared-env"}}
    BY <1>3 DEF WriteEnv, Step, Typed, Starts
  <2>2. start'.auth = "auto" => "shadow-entry" \notin start'.short
    BY <1>3, <2>1 DEF WriteEnv, Step, HostInv, EntryFailed
  <2> QED BY <2>1, <2>2 DEF HostInv, EntryFailed
<1>4. CASE WriteEntry
  <2>1. CASE pc = "write" /\ entry' = entry
             /\ start' = [start EXCEPT !.short = @ \cup {"shadow-entry"}]
    <3>1. /\ "shadow-entry" \in start'.short /\ start'.auth = start.auth
          /\ pc' = "nspawn"
      BY <1>4, <2>1 DEF WriteEntry, Step, Typed, Starts
    <3> QED BY <2>1, <3>1 DEF HostInv, EntryFailed
  <2>2. CASE /\ start' = start
            /\ \/ pc' = "create" /\ pc = "entry"
               \/ pc' = "write" /\ pc = "create" /\ entry' = Empty
               \/ pc' = "nspawn" /\ pc = "write" /\ entry' = Host(start.password)
    BY <2>2 DEF HostInv, EntryFailed
  <2> QED BY <1>4, <2>1, <2>2 DEF WriteEntry, Step
<1>5. CASE StartNspawn \/ SetupGroup \/ Service
  BY <1>5 DEF StartNspawn, SetupGroup, Service, Step, HostInv, Found, EntryFailed, files
<1>6. CASE SetupUser
  BY <1>6 DEF SetupUser, Step, HostInv, Found, EntryFailed, files
<1>7. CASE MakeShadow
  <2>1. /\ start'.auth = start.auth /\ start'.password = start.password
        /\ start'.short = start.short
    BY <1>7 DEF MakeShadow, Takes, Typed, Starts
  <2> SUFFICES ASSUME start.auth = "auto"
               PROVE  /\ pc' = "custom"
                      /\ start'.took # "custom" => shadow'.x = Found
    BY <1>7, <2>1 DEF HostInv, MakeShadow, Step, Found, EntryFailed
  <2>2. entry = IF EntryFailed THEN Empty ELSE Host(start.password)
    BY <1>7 DEF MakeShadow, Step, HostInv
  <2>3. entry # Missing /\ (entry = Empty <=> EntryFailed)
    BY <2>2, Different
  <2>4. pc' = "custom"
    BY <1>7, <2>3 DEF MakeShadow, Step
  <2>5. CASE custom # Missing
    <3>1. start'.took = "custom"
      BY <1>7, <2>5 DEF MakeShadow, Takes, Typed, Starts
    <3> QED BY <2>4, <3>1
  <2>6. CASE custom = Missing
    <3>1. shadow'.x = IF entry = Empty THEN Missing ELSE entry
      BY <1>7, <2>3, <2>6 DEF MakeShadow, Takes, Typed, Shadows
    <3> QED BY <2>2, <2>3, <2>4, <3>1 DEF Found
  <2> QED BY <2>5, <2>6
<1>8. CASE RemoveFiles
  BY <1>8 DEF RemoveFiles, Step, HostInv, Found, EntryFailed
<1>9. CASE MoveShadow
  BY <1>9 DEF MoveShadow, Step, HostInv, Found, EntryFailed
<1>10. CASE ChangeAccount \/ Config
  BY <1>10 DEF ChangeAccount, Config, Begin, CreateCustom, WriteCustom, UpdateConfig,
      CommandFails, HostInv, Found, EntryFailed, files
<1>11. CASE UNCHANGED vars
  BY <1>11 DEF vars, files, HostInv, Found, EntryFailed
<1> QED BY <1>1, <1>2, <1>3, <1>4, <1>5, <1>6, <1>7, <1>8, <1>9, <1>10, <1>11
        DEF Next, Nsboxd, NsboxInit

LEMMA SudoNext == Typed /\ SudoInv /\ [Next]_vars => SudoInv'
<1> SUFFICES ASSUME Typed, SudoInv, [Next]_vars PROVE SudoInv'
  OBVIOUS
<1>1. CASE Open \/ MakePrivate \/ Stop \/ StartDies
  BY <1>1 DEF Open, MakePrivate, Stop, StartDies, Step, SudoInv
<1>2. CASE SetupSudo
  <2>1. /\ start'.access = GetSudoAccess(account.rights)
        /\ start'.rights = account.rights
    BY <1>2 DEF SetupSudo, Typed, Starts
  <2>2. /\ pc' = IF start'.access = "nopasswd" THEN "nopasswd" ELSE "env"
        /\ nopasswd' = IF start'.access = "nopasswd" THEN "cut" ELSE "missing"
    BY <1>2, <2>1 DEF SetupSudo, Step
  <2> QED BY <2>1, <2>2 DEF SudoInv
<1>3. CASE WriteNoPasswd
  BY <1>3 DEF WriteNoPasswd, Step, SudoInv
<1>4. CASE WriteEnv \/ WriteEntry \/ MakeShadow
  <2>1. /\ start'.access = start.access /\ start'.rights = start.rights
        /\ MakeShadow => start'.short = start.short
        /\ UNCHANGED <<nopasswd, user>>
    BY <1>4 DEF WriteEnv, WriteEntry, MakeShadow, Takes, Typed, Starts, files
  <2>2. CASE WriteEnv
    BY <2>1, <2>2 DEF WriteEnv, Step, SudoInv
  <2>3. CASE WriteEntry
    BY <2>1, <2>3 DEF WriteEntry, Step, SudoInv
  <2>4. CASE MakeShadow
    BY <2>1, <2>4 DEF MakeShadow, Step, SudoInv
  <2> QED BY <1>4, <2>2, <2>3, <2>4
<1>5. CASE SetupGroup
  <2> DEFINE told == start.access # "no" /\ "shared-env" \notin start.short
  <2>1. \A b : [user EXCEPT !.member = b].member = b
    BY DEF Typed, Users
  <2>2. user' = [user EXCEPT !.member = told]
    BY <1>5, Zenon DEF SetupGroup
  <2> HIDE DEF told
  <2>3. user'.member = told
    BY <2>1, <2>2, Zenon
  <2>4. user'.member = (start.access # "no" /\ "shared-env" \notin start.short)
    BY <2>3, Zenon DEF told
  <2>5. /\ start' = start /\ nopasswd' = nopasswd
        /\ pc = "group" /\ pc' = "pick"
    BY <1>5 DEF SetupGroup, Step, files
  <2>6. /\ start.access = GetSudoAccess(start.rights)
        /\ nopasswd = IF start.access = "nopasswd" THEN "whole" ELSE "missing"
    BY <2>5 DEF SudoInv
  <2>7. pc' # "nopasswd"
    BY <2>5
  <2> QED BY <2>4, <2>5, <2>6, <2>7, Zenon DEF SudoInv
<1>6. CASE SetupUser
  BY <1>6 DEF SetupUser, Step, SudoInv, files
<1>7. CASE StartNspawn \/ RemoveFiles \/ MoveShadow \/ Service
  BY <1>7 DEF StartNspawn, RemoveFiles, MoveShadow, Service, Step, SudoInv,
      files
<1>8. CASE ChangeAccount \/ Config
  BY <1>8 DEF ChangeAccount, Config, Begin, CreateCustom, WriteCustom, UpdateConfig,
      CommandFails, SudoInv, files
<1>9. CASE UNCHANGED vars
  BY <1>9 DEF vars, files, SudoInv
<1> QED BY <1>1, <1>2, <1>3, <1>4, <1>5, <1>6, <1>7, <1>8, <1>9
        DEF Next, Nsboxd, NsboxInit

LEMMA ManualNext ==
    Typed /\ OrderInv /\ ManualInv /\ [Next]_vars => ManualInv'
<1> SUFFICES ASSUME Typed, OrderInv, ManualInv, [Next]_vars, ~commanded'
             PROVE  ManualInv'
  BY DEF ManualInv
<1>1. CASE Config
  \* A command begins, or goes on, with commanded true.
  <2>1. ~Config
    BY DEF Config, Begin, CreateCustom, WriteCustom, UpdateConfig, CommandFails,
           ManualInv, ghosts
  <2> QED BY <1>1, <2>1
<1>2. CASE MoveShadow
  <2>1. cmd.pc = "idle" /\ custom = Missing /\ pc' = "service" /\ entry = Missing
    BY <1>2 DEF MoveShadow, Step, OrderInv
  <2> QED BY <1>2, <2>1 DEF MoveShadow, ManualInv, files
<1>3. CASE ~Config /\ ~MoveShadow
  <2>1. ~commanded
    BY <1>3 DEF Next, ChangeAccount, Nsboxd, NsboxInit, Open, MakePrivate, SetupSudo,
       WriteNoPasswd, WriteEnv, WriteEntry, StartNspawn, SetupUser, SetupGroup,
       MakeShadow, RemoveFiles, Service, Stop, StartDies, vars, ghosts
  <2>2. CASE Open
    <3>1. start'.auth = auth /\ cmd'.pc = cmd.pc /\ pc' = "private"
      BY <2>2 DEF Open, Step, Typed, Starts, Commands
    <3> QED BY <2>1, <2>2, <3>1 DEF Open, files, ManualInv
  <2>3. CASE SetupSudo
    <3>1. start'.auth = start.auth /\ pc = "sudo" /\ pc' \in {"nopasswd", "env"}
      BY <2>3 DEF SetupSudo, Step, Typed, Starts
    <3> QED BY <2>1, <2>3, <3>1 DEF SetupSudo, ManualInv
  <2>4. CASE WriteEnv
    <3>1. /\ start'.auth = start.auth /\ pc = "env"
          /\ pc' \in {"entry", "nspawn"}
          /\ start.auth = "manual" => pc' = "nspawn"
      BY <2>4 DEF WriteEnv, Step, Typed, Starts
    <3> QED BY <2>1, <2>4, <3>1 DEF WriteEnv, files, ManualInv
  <2>5. CASE WriteEntry
    BY <2>1, <2>5 DEF WriteEntry, Step, ManualInv
  <2>6. CASE SetupUser
    <3>1. shadow'.live[1] = "manual" => shadow' = shadow
      BY <2>6, Different DEF SetupUser, Typed, Shadows
    <3> QED BY <2>1, <2>6, <3>1 DEF SetupUser, Step, files, ManualInv
  <2>7. CASE MakeShadow
    <3>1. /\ shadow'.live = shadow.live
          /\ {custom, entry} = {Missing} => pc' = "service"
          /\ pc = "pick" /\ pc' \in {"service", "custom"}
      BY <2>7 DEF MakeShadow, Takes, Step, Typed, Shadows
    <3> QED BY <2>1, <2>7, <3>1 DEF MakeShadow, files, ManualInv
  <2>8. CASE RemoveFiles \/ StartDies
    BY <2>1, <2>8 DEF RemoveFiles, StartDies, Step, files, ManualInv
  <2>9. CASE MakePrivate \/ WriteNoPasswd \/ StartNspawn \/ SetupGroup \/ Service
                \/ Stop
    BY <2>1, <2>9 DEF MakePrivate, WriteNoPasswd, StartNspawn, SetupGroup, Service,
        Stop, Step, files, ManualInv
  <2>10. CASE ChangeAccount \/ UNCHANGED vars
    BY <2>1, <2>10 DEF ChangeAccount, vars, files, ManualInv
  <2> QED BY <1>3, <2>2, <2>3, <2>4, <2>5, <2>6, <2>7, <2>8, <2>9, <2>10
          DEF Next, Nsboxd, NsboxInit
<1> QED BY <1>1, <1>2, <1>3

LEMMA AloneNext == Typed /\ AloneInv /\ [Next]_vars => AloneInv'
<1> SUFFICES ASSUME Typed, AloneInv, [Next]_vars PROVE AloneInv'
  OBVIOUS
<1>1. ASSUME NEW a \in {"auto", "manual"}, Begin(a) PROVE AloneInv'
  BY <1>1 DEF Begin, AloneInv
<1>2. CASE CreateCustom
  BY <1>2 DEF CreateCustom, AloneInv, Typed, Commands
<1>3. CASE WriteCustom
  BY <1>3, Different DEF WriteCustom, AloneInv, Typed, Commands
<1>4. CASE UpdateConfig \/ CommandFails
  BY <1>4 DEF UpdateConfig, CommandFails, AloneInv, Typed, Commands
<1>5. CASE Open
  BY <1>5 DEF Open, AloneInv, Typed, Commands
<1>6. CASE ChangeAccount \/ UNCHANGED vars
  BY <1>6 DEF ChangeAccount, vars, files, AloneInv
<1>7. CASE (Nsboxd /\ ~Open) \/ NsboxInit \/ Stop \/ StartDies
  <2>1. pc # "down" /\ cmd' = cmd
    BY <1>7 DEF Nsboxd, NsboxInit, MakePrivate, SetupSudo, WriteNoPasswd, WriteEnv,
        WriteEntry, StartNspawn, SetupUser, SetupGroup, MakeShadow, RemoveFiles,
        MoveShadow, Service, Stop, StartDies, Step
  <2> QED BY <2>1 DEF AloneInv
<1> QED BY <1>1, <1>2, <1>3, <1>4, <1>5, <1>6, <1>7 DEF Next, Config

\* A command that ends with a password to be applied leaves it waiting.
LEMMA AskedConfig ==
    ASSUME Typed, AloneInv, AskedInv, Config
    PROVE  AskedInv'
<1>1. ASSUME NEW a \in {"auto", "manual"}, Begin(a) PROVE AskedInv'
  BY <1>1 DEF Begin, AskedInv
<1>2. CASE CreateCustom \/ WriteCustom \/ CommandFails
  <2>1. asked = Missing /\ asked' = asked
    BY <1>2 DEF CreateCustom, WriteCustom, CommandFails, AskedInv, ghosts
  <2> QED BY <2>1 DEF AskedInv
<1>3. CASE UpdateConfig
  <2>1. asked = Missing /\ cmd'.pc = "idle" /\ auth' = cmd.auth
        /\ UNCHANGED <<custom, shadow, pc>>
    BY <1>3 DEF UpdateConfig, AskedInv, Typed, Commands, files
  <2>2. CASE cmd.alone /\ cmd.auth = "manual"
    <3>1. asked' = Manual(commands) /\ pc = "down" /\ custom = Manual(commands)
      BY <1>3, <2>2 DEF UpdateConfig, AloneInv
    <3> QED BY <2>1, <2>2, <3>1 DEF AskedInv, Waiting
  <2>3. CASE ~(cmd.alone /\ cmd.auth = "manual")
    BY <1>3, <2>1, <2>3 DEF UpdateConfig, AskedInv
  <2> QED BY <2>2, <2>3
<1> QED BY <1>1, <1>2, <1>3 DEF Config

LEMMA AskedNext ==
    Typed /\ OrderInv /\ AloneInv /\ AskedInv /\ [Next]_vars => AskedInv'
<1> SUFFICES ASSUME Typed, OrderInv, AloneInv, AskedInv, [Next]_vars, ~Config,
                    asked' # Missing
             PROVE  AskedInv'
  BY AskedConfig DEF AskedInv
<1>1. asked' = asked
  BY DEF Next, ChangeAccount, Nsboxd, NsboxInit, Open, MakePrivate, SetupSudo,
     WriteNoPasswd, WriteEnv, WriteEntry, StartNspawn, SetupUser, SetupGroup, MakeShadow,
     RemoveFiles, MoveShadow, Service, Stop, StartDies, vars, ghosts
<1>2. /\ cmd.pc = "idle" /\ auth = "manual"
      /\ pc # "down" => start.auth = "manual"
      /\ Waiting \/ Moving \/ InForce
  BY <1>1 DEF AskedInv
<1>3. cmd'.pc = "idle" /\ auth' = "manual" /\ (pc' # "down" => start'.auth = "manual")
  <2>1. CASE Open
    BY <1>2, <2>1 DEF Open, Typed, Starts, Commands
  <2>2. CASE SetupSudo \/ WriteEnv \/ WriteEntry \/ MakeShadow
    <3>1. start'.auth = start.auth /\ pc # "down" /\ cmd' = cmd /\ auth' = auth
      BY <2>2 DEF SetupSudo, WriteEnv, WriteEntry, MakeShadow, Takes, Step, Typed, Starts
    <3> QED BY <1>2, <3>1
  <2>3. CASE MakePrivate \/ WriteNoPasswd \/ StartNspawn \/ SetupUser \/ SetupGroup
                \/ RemoveFiles \/ MoveShadow \/ Service \/ Stop \/ StartDies
    BY <1>2, <2>3 DEF MakePrivate, WriteNoPasswd, StartNspawn, SetupUser, SetupGroup,
        RemoveFiles, MoveShadow, Service, Stop, StartDies, Step
  <2>4. CASE ChangeAccount \/ UNCHANGED vars
    BY <1>2, <2>4 DEF ChangeAccount, vars
  <2> QED BY <2>1, <2>2, <2>3, <2>4 DEF Next, Nsboxd, NsboxInit
<1>4. ASSUME Waiting \/ Moving \/ InForce
      PROVE  (Waiting \/ Moving \/ InForce)'
  <2>1. CASE Open \/ MakePrivate \/ SetupSudo \/ WriteNoPasswd \/ StartNspawn \/ Service
                \/ Stop \/ StartDies
    BY <1>1, <1>2, <2>1, Different DEF Open, MakePrivate, SetupSudo, WriteNoPasswd,
        StartNspawn, Service, Stop, StartDies, Step, Waiting, Moving, InForce, files
  <2>2. CASE WriteEnv
    BY <1>1, <1>2, <2>2 DEF WriteEnv, Step, Waiting, Moving, InForce, files
  <2>3. CASE WriteEntry
    BY <1>1, <1>2, <2>3 DEF WriteEntry, Step, Waiting, Moving, InForce
  <2>4. CASE SetupUser \/ SetupGroup
    <3>1. /\ user.exists => user'.exists /\ shadow' = shadow
          /\ pc' \in {"group", "pick"}
      BY <2>4 DEF SetupUser, SetupGroup, Step, Typed, Users
    <3>2. UNCHANGED <<custom, entry>>
      BY <2>4 DEF SetupUser, SetupGroup, files
    <3>3. pc \in {"user", "group"}
      BY <2>4 DEF SetupUser, SetupGroup, Step
    <3> QED BY <1>1, <1>2, <3>1, <3>2, <3>3 DEF Waiting, Moving, InForce
  <2>5. CASE MakeShadow
    <3>1. pc = "pick" /\ UNCHANGED <<custom, entry, user>>
      BY <2>5 DEF MakeShadow, Step, files
    <3>2. CASE Waiting
      <4>1. /\ pc' = "custom"
            /\ shadow'.x \in {custom, Missing}
        BY <1>1, <2>5, <3>2 DEF MakeShadow, Takes, Step, Typed, Shadows, Waiting
      <4> QED BY <1>1, <3>1, <3>2, <4>1 DEF Waiting
    <3>3. CASE InForce
      BY <1>1, <2>5, <3>1, <3>3 DEF MakeShadow, Step, InForce
    <3> QED BY <1>4, <3>1, <3>2, <3>3 DEF Moving
  <2>6. CASE RemoveFiles
    BY <1>1, <1>2, <2>6 DEF RemoveFiles, Step, Waiting, Moving, InForce
  <2>7. CASE MoveShadow
    <3>1. /\ pc = "mv" /\ pc' = "service" /\ shadow'.live = shadow.x
          /\ UNCHANGED <<custom, entry, user>>
      BY <2>7 DEF MoveShadow, Step, files
    <3> QED BY <1>1, <1>4, <3>1 DEF OrderInv, Waiting, Moving, InForce
  <2>8. CASE ChangeAccount \/ UNCHANGED vars
    BY <1>1, <1>4, <2>8 DEF ChangeAccount, vars, files, Waiting, Moving, InForce
  <2> QED BY <2>1, <2>2, <2>3, <2>4, <2>5, <2>6, <2>7, <2>8
          DEF Next, Nsboxd, NsboxInit
<1> QED BY <1>2, <1>3, <1>4 DEF AskedInv

LEMMA Invariance == Spec => [](Typed /\ IInv)
<1>1. Typed /\ IInv /\ [Next]_vars => (Typed /\ IInv)'
  BY NextTyped, OrderNext, HostNext, SudoNext, ManualNext,
      AloneNext, AskedNext DEF IInv
<1> QED BY <1>1, InitTyped, InitInv, PTL DEF Spec

-----------------------------------------------------------------------------
(***************************************************************************)
(* Theorems                                                                *)
(***************************************************************************)
\* Every variable stays in its set: what the fold over the rules returns is one
\* of the three answers (direct.go:113-131).
THEOREM Typing == Spec => []TypeOK
<1>1. Init => RestTyped
  <2>1. 0 \in 0..MaxKills
    BY StartupAssumption
  <2> QED BY <2>1, ContentsTyped DEF Init, RestTyped
<1>2. Typed /\ RestTyped => TypeOK
  BY DEF Typed, RestTyped, TypeOK, Accounts, Users, Shadows, Starts, Commands
<1> QED BY <1>1, <1>2, NextRest, Invariance, PTL DEF Spec

\* When the container is ready, the user has the sudo rights that this start
\* found, however many rules there are and whatever starts died: by the last
\* rule where cvtsudoers answers, by the group in a build without it, else none;
\* a shared-env that was cut off only takes away (check_privs.go:54-170,
\* direct.go:113-175, nsbox-init.sh:24-30).
THEOREM SudoFollows == Spec => []SudoFollowsHost
<1>1. Typed /\ IInv => SudoFollowsHost
  <2> SUFFICES ASSUME Typed, IInv, pc = "ready" PROVE SudoFollowsHost
    BY DEF SudoFollowsHost
  <2> DEFINE rights == start.rights
             D == Decisive(rights.rules, DOMAIN rights.rules)
             open == \E n \in D : /\ ~rights.rules[n].authenticated
                                 /\ \A m \in D : m <= n
             can == \/ rights.cvtsudoers = "answers" /\ D # {}
                    \/ rights.cvtsudoers = "disabled" /\ rights.member
             whole == "shared-env" \notin start.short
  <2>1. rights \in Right
    BY StartupAssumption DEF Typed, Starts
  <2>2. /\ start.access # "no" <=> can
        /\ start.access = "nopasswd" <=> rights.cvtsudoers = "answers" /\ open
    BY <2>1, AccessIs DEF IInv, SudoInv
  <2>3. /\ user.member = (start.access # "no" /\ whole)
        /\ nopasswd = IF start.access = "nopasswd" THEN "whole" ELSE "missing"
    BY DEF IInv, SudoInv
  <2> HIDE DEF open, can, whole
  <2>4. /\ user.member <=> can /\ whole
        /\ nopasswd = IF rights.cvtsudoers = "answers" /\ open THEN "whole" ELSE "missing"
    BY <2>2, <2>3
  <2> QED BY <2>4 DEF SudoFollowsHost, Decisive, open, can, whole
<1> QED BY <1>1, Invariance, PTL

\* A start that follows the host leaves the host's password of that moment, or
\* no line if its write of the entry failed, whatever the starts before it left
\* undone (direct.go:178-198,
\* nsbox-init.sh:41-57).
THEOREM FollowsHost == Spec => []HostPassword
<1>1. IInv => HostPassword
  BY DEF IInv, HostInv, HostPassword, Found, EntryFailed
<1> QED BY <1>1, Invariance, PTL

\* A password given while the container was down is in force after the next
\* start that comes to its end (guide.md:221), or the user has no line.
THEOREM Applies == Spec => []NextRunApplies
<1>1. IInv => NextRunApplies
  <2> SUFFICES ASSUME IInv, pc = "ready", asked # Missing
               PROVE  shadow.live \in {asked, Missing}
    BY DEF NextRunApplies
  <2> QED BY DEF IInv, AskedInv, Waiting, Moving, InForce
<1> QED BY <1>1, Invariance, PTL

\* No start replaces a password of the user's own that is in force, without a
\* command (nsbox-init.sh:41-57).
THEOREM Stays == Spec => ManualStays
<1>1. ASSUME Typed, IInv, [Next]_vars
      PROVE  [shadow.live[1] = "manual" /\ auth = "manual" /\ ~commanded
                  => shadow'.live = shadow.live]_vars
  <2> SUFFICES ASSUME Next, shadow.live[1] = "manual", auth = "manual", ~commanded
               PROVE  shadow'.live = shadow.live
    BY <1>1
  <2>1. ~MoveShadow
    BY <1>1 DEF MoveShadow, Step, IInv, ManualInv
  <2>2. CASE SetupUser
    BY <1>1, <2>2, Different DEF SetupUser, IInv, OrderInv
  <2>3. CASE MakeShadow
    BY <1>1, <2>3 DEF MakeShadow, Takes, Typed, Shadows
  <2> QED BY <2>1, <2>2, <2>3 DEF Next, ChangeAccount, Nsboxd, NsboxInit, Config, Begin,
          CreateCustom, WriteCustom, UpdateConfig, CommandFails, Open, MakePrivate,
          SetupSudo, WriteNoPasswd, WriteEnv, WriteEntry, StartNspawn, SetupGroup,
          RemoveFiles, Service, Stop, StartDies
<1> QED BY <1>1, Invariance, PTL DEF Spec, ManualStays
=============================================================================
