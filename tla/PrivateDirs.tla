---------------------------- MODULE PrivateDirs ----------------------------
(***************************************************************************)
(* The private directories of a container: the list that nsbox config      *)
(* -private-dirs edits, the directories that nsboxd makes for it in the    *)
(* user's home, under the container's name, and what the container then    *)
(* shows of the home.  Create, rename and delete are one step each here    *)
(* (Inventory has theirs), and one container runs at a time: two of them   *)
(* have different names, and so different directories.                     *)
(*                                                                         *)
(* An item of the list is a sequence of characters; a directory is the     *)
(* sequence of its parts below the home.                                   *)
(***************************************************************************)
EXTENDS Integers, Sequences, SequencesExt

CONSTANTS
    Names,          \* names of containers
    Commands,       \* what -private-dirs may be given, once or several times
    MaxListed,      \* bound: items of a list
    MaxContainers,  \* bound: containers there are, or that have left files
    MaxCommands,    \* bound: nsbox config commands
    MaxWrites,      \* bound: files written in a private directory
    MaxKills        \* bound: starts that die, or fail

\* An occurrence of the option: its first character and its items.
Item == Seq({"a", "b", ".", "/"})
Argument == [kind : {"", "+", "-", ":", "?"}, items : Seq(Item)]

ASSUME PrivateDirsAssumption ==
    /\ Commands \subseteq Seq(Argument)
    /\ {MaxListed, MaxContainers, MaxCommands, MaxWrites, MaxKills} \subseteq Nat

VARIABLES
    containers,  \* the container of each name
    list,        \* Config.PrivateDirs of each container
    owner,       \* who owns each directory below a name's private home
    files,       \* who wrote which private directory under which name
    run,         \* nsboxd and nspawn: the container, and where it is with it
    commands, kills,
    asked,       \* ghost: the items a container should list, by the guide
    doubled,     \* ghost: containers that were told an item twice at once
    cut          \* ghost: directories whose start died before their chown

ghosts == <<asked, doubled, cut>>
privateVars == <<containers, list, owner, files, run, commands, kills, ghosts>>

Nobody == 0
Ids == 1..MaxContainers

-----------------------------------------------------------------------------
(***************************************************************************)
(* The option                                                              *)
(***************************************************************************)
Items == UNION {ToSet(arg.items) : arg \in UNION {ToSet(args) : args \in Commands}}

\* An empty argument changes nothing, and a bare character keeps the items.
Set(value, arg) ==
    IF arg.kind = "" THEN value
    ELSE [kind |-> arg.kind,
          items |-> IF arg.items = <<>> THEN value.items ELSE arg.items]

Invalid(arg) == arg.kind = "?" \/ <<>> \in ToSet(arg.items)

Value(args) == FoldLeft(Set, [kind |-> "+", items |-> <<>>], args)

Without(items, others) ==
    FoldLeft(LAMBDA kept, item :
                 IF item \in ToSet(others) THEN kept ELSE Append(kept, item),
             <<>>, items)

\* Mutant of Apply: an item that is removed goes away once.
ApplyRemovesOne(value, target) ==
    CASE value.kind = "+" -> target \o Without(value.items, target)
      [] value.kind = "-" -> FoldLeft(LAMBDA items, item : RemoveFirst(items, item),
                                      target, value.items)
      [] value.kind = ":" -> value.items

Apply(value, target) ==
    CASE value.kind = "+" -> target \o Without(value.items, target)
      [] value.kind = "-" -> Without(target, value.items)
      [] value.kind = ":" -> value.items

\* Mutant of NoDots: a pair of any two characters may be stepped over.
NoDotsAnyPair(item) ==
    LET Dot(k) == item[k] = "."
        Rest[k \in 1..Len(item) + 1] ==
            \/ k > Len(item)
            \/ k < Len(item) /\ Rest[k + 2]
            \/ ~Dot(k) /\ Rest[k + 1]
            \/ k = Len(item)
    IN  item # <<>> /\ Rest[1]

\* ^([^.]{2}|[^.]|\.([^.]|$))+$
NoDots(item) ==
    LET Dot(k) == item[k] = "."
        Rest[k \in 1..Len(item) + 1] ==
            \/ k > Len(item)
            \/ k < Len(item) /\ ~Dot(k) /\ ~Dot(k + 1) /\ Rest[k + 2]
            \/ ~Dot(k) /\ Rest[k + 1]
            \/ k < Len(item) /\ Dot(k) /\ ~Dot(k + 1) /\ Rest[k + 2]
            \/ k = Len(item) /\ Dot(k)
    IN  item # <<>> /\ Rest[1]

\* ^[^/]
Relative(item) == item # <<>> /\ item[1] # "/"

Valid(items) == \A item \in ToSet(items) : Relative(item) /\ NoDots(item)

\* What the guide says a command does, which knows of one occurrence of the
\* option: of several the last counts, and one without items may mean anything.
Asked(args, before, after) ==
    LET given == {k \in DOMAIN args : args[k].kind # ""}
        last == args[Max(given)]
        items == ToSet(last.items)
    IN  IF given = {} THEN before
        ELSE IF given # {Max(given)} /\ items = {} THEN after
        ELSE CASE last.kind = "+" -> before \cup items
               [] last.kind = "-" -> before \ items
               [] last.kind = ":" -> items

Doubles(args) == \E k \in DOMAIN args : ~IsInjective(args[k].items)

\* nsbox config -private-dirs=...: the list is saved whole or not at all.
Config(name, args) ==
    LET id == containers[name]
        refused == \E k \in DOMAIN args : Invalid(args[k])
        after == IF refused THEN list[id] ELSE Apply(Value(args), list[id])
        fails == refused \/ ~Valid(after)
    IN  /\ id # Nobody
        /\ commands < MaxCommands
        /\ fails \/ Len(after) <= MaxListed
        /\ commands' = commands + 1
        /\ list' = IF fails THEN list ELSE [list EXCEPT ![id] = after]
        /\ asked' = IF fails THEN asked
                    ELSE [asked EXCEPT ![id] = Asked(args, @, ToSet(after))]
        /\ doubled' = IF ~fails /\ Doubles(args) THEN doubled \cup {id} ELSE doubled
        /\ UNCHANGED <<containers, owner, files, run, kills, cut>>

-----------------------------------------------------------------------------
(***************************************************************************)
(* The names                                                               *)
(***************************************************************************)
Idle(name) == containers[name] # Nobody /\ (run.pc # "down" => run.name # name)

\* nsbox create
Create(name) ==
    /\ containers[name] = Nobody
    /\ \E id \in Ids :
          /\ \A other \in Names : containers[other] # id
          /\ \A file \in files : file[3] # id
          /\ containers' = [containers EXCEPT ![name] = id]
    /\ UNCHANGED <<list, owner, files, run, commands, kills, ghosts>>

\* nsbox rename, under the full lock
Rename(name, new) ==
    /\ Idle(name)
    /\ containers[new] = Nobody
    /\ containers' = [containers EXCEPT ![name] = Nobody, ![new] = containers[name]]
    /\ UNCHANGED <<list, owner, files, run, commands, kills, ghosts>>

\* nsbox delete, under the full lock
Delete(name) ==
    /\ Idle(name)
    /\ containers' = [containers EXCEPT ![name] = Nobody]
    /\ list' = [list EXCEPT ![containers[name]] = <<>>]
    /\ asked' = [asked EXCEPT ![containers[name]] = {}]
    /\ doubled' = doubled \ {containers[name]}
    /\ UNCHANGED <<owner, files, run, commands, kills, cut>>

-----------------------------------------------------------------------------
(***************************************************************************)
(* nsboxd                                                                  *)
(***************************************************************************)
\* What filepath.Join makes of an item: its parts, but the empty ones and ".".
Joined(parts, part) == IF part \in {<<>>, <<".">>} THEN parts ELSE Append(parts, part)

Split(at, char) ==
    IF char = "/" THEN [parts |-> Joined(at.parts, at.part), part |-> <<>>]
    ELSE [at EXCEPT !.part = Append(@, char)]

Parts(item) ==
    LET at == FoldLeft(Split, [parts |-> <<>>, part |-> <<>>], item)
    IN  Joined(at.parts, at.part)

Above(dir) == {SubSeq(dir, 1, k) : k \in 0..Len(dir)}

Dirs == {<<>>} \cup UNION {Above(Parts(item)) : item \in Items}

Down == [pc |-> "down", name |-> CHOOSE name \in Names : TRUE,
         id |-> Nobody, list |-> <<>>, item |-> 1, depth |-> 0]

\* The configuration is loaded once, and the run lock taken.
Begin(name) ==
    /\ run.pc = "down"
    /\ containers[name] # Nobody
    /\ run' = [Down EXCEPT !.pc = "bind", !.name = name, !.id = containers[name],
                           !.list = list[containers[name]]]
    /\ UNCHANGED <<containers, list, owner, files, commands, kills, ghosts>>

\* The directory that MkdirAllOwnedByUser is at.
Dir == SubSeq(Parts(run.list[run.item]), 1, run.depth)

\* It goes on with the next part of the path, or bindPrivate with the next item.
Onward ==
    IF run.depth < Len(Parts(run.list[run.item]))
    THEN [run EXCEPT !.pc = "bind", !.depth = @ + 1]
    ELSE [run EXCEPT !.pc = "bind", !.item = @ + 1, !.depth = 0]

\* The sanity check of bindPrivate.
Sane(item) ==
    /\ item[1] # "/"
    /\ \A k \in 1..Len(item) - 1 : <<item[k], item[k + 1]>> # <<".", ".">>

BindPrivate ==
    /\ run.pc = "bind"
    /\ run.item <= Len(run.list)
    /\ IF ~Sane(run.list[run.item])
       THEN run' = [run EXCEPT !.pc = "panic"] /\ UNCHANGED owner
       ELSE IF owner[<<run.name, Dir>>] # "none" THEN run' = Onward /\ UNCHANGED owner
       ELSE /\ owner' = [owner EXCEPT ![<<run.name, Dir>>] = "root"]
            /\ run' = [run EXCEPT !.pc = "chown"]
    /\ UNCHANGED <<containers, list, files, commands, kills, ghosts>>

\* Mutant of Chown: only the directory asked for is given to the user.
ChownLast ==
    /\ run.pc = "chown"
    /\ owner' = IF run.depth = Len(Parts(run.list[run.item]))
                THEN [owner EXCEPT ![<<run.name, Dir>>] = "user"] ELSE owner
    /\ run' = Onward
    /\ UNCHANGED <<containers, list, files, commands, kills, ghosts>>

Chown ==
    /\ run.pc = "chown"
    /\ owner' = [owner EXCEPT ![<<run.name, Dir>>] = "user"]
    /\ run' = Onward
    /\ UNCHANGED <<containers, list, files, commands, kills, ghosts>>

Nspawn ==
    /\ run.pc = "bind"
    /\ run.item > Len(run.list)
    /\ run' = [run EXCEPT !.pc = "up"]
    /\ UNCHANGED <<containers, list, owner, files, commands, kills, ghosts>>

\* A start is killed, or a mkdir or chown fails.
StartDies ==
    /\ run.pc \in {"bind", "chown"}
    /\ kills < MaxKills
    /\ kills' = kills + 1
    /\ cut' = IF run.pc = "chown" THEN cut \cup {<<run.name, Dir>>} ELSE cut
    /\ run' = Down
    /\ UNCHANGED <<containers, list, owner, files, commands, asked, doubled>>

-----------------------------------------------------------------------------
(***************************************************************************)
(* The container                                                           *)
(***************************************************************************)
Private(dir) == <<"private", dir>>
Host(dir) == <<"host", dir>>

\* Mutant of Binds: the directory on the host is named by its last part.
BindsLast(items) ==
    LET Bind(item) ==
            LET parts == Parts(item)
            IN  [at |-> parts,
                 from |-> Private(SubSeq(parts, Max({1, Len(parts)}), Len(parts)))]
        home == IF <<".">> \in ToSet(items) THEN <<>>
                ELSE <<[at |-> <<>>, from |-> Host(<<>>)]>>
    IN  home \o [k \in DOMAIN items |-> Bind(items[k])]

\* What nspawn is told to mount: the user's home, unless "." is listed, and
\* every item, from the same place below the private home.  /home is taken to
\* be a directory: where it is a symbolic link, bindHome has the directory it
\* leads to mounted, and what $HOME then shows is up to nsbox-init.sh.
Binds(items) ==
    LET Bind(item) == [at |-> Parts(item), from |-> Private(Parts(item))]
        home == IF <<".">> \in ToSet(items) THEN <<>>
                ELSE <<[at |-> <<>>, from |-> Host(<<>>)]>>
    IN  home \o [k \in DOMAIN items |-> Bind(items[k])]

\* nspawn mounts a directory before those in it, so the deepest one shows; of
\* two at the same place, which only the home can have, it may be either.
Shown(dir) ==
    LET over == {bind \in ToSet(Binds(run.list)) : IsPrefix(bind.at, dir)}
        deepest == {bind \in over : \A other \in over : Len(other.at) <= Len(bind.at)}
    IN  {<<bind.from[1], bind.from[2] \o SubSeq(dir, Len(bind.at) + 1, Len(dir))>> :
            bind \in deepest}

\* The user writes a file in a private directory of the running container.
Write(dir) ==
    /\ run.pc = "up"
    /\ Cardinality(files) < MaxWrites
    /\ \E place \in Shown(dir) :
          /\ place[1] = "private"
          /\ files' = files \cup {<<run.name, place[2], run.id>>}
    /\ UNCHANGED <<containers, list, owner, run, commands, kills, ghosts>>

Stop ==
    /\ run.pc = "up"
    /\ run' = Down
    /\ UNCHANGED <<containers, list, owner, files, commands, kills, ghosts>>

-----------------------------------------------------------------------------
PrivateInit ==
    /\ containers = [name \in Names |-> Nobody]
    /\ list = [id \in Ids |-> <<>>]
    /\ owner = [place \in Names \X Dirs |-> "none"]
    /\ files = {}
    /\ run = Down
    /\ commands = 0
    /\ kills = 0
    /\ asked = [id \in Ids |-> {}]
    /\ doubled = {}
    /\ cut = {}

PrivateNext ==
    \/ \E name \in Names : Create(name) \/ Delete(name) \/ Begin(name)
    \/ \E name, new \in Names : Rename(name, new)
    \/ \E name \in Names, args \in Commands : Config(name, args)
    \/ BindPrivate \/ Chown \/ Nspawn \/ StartDies
    \/ \E dir \in Dirs : Write(dir)
    \/ Stop

PrivateSpec == PrivateInit /\ [][PrivateNext]_privateVars

-----------------------------------------------------------------------------
\* nsboxd never panics on a list that nsbox config has saved: whatever passes
\* the two regular expressions of UpdateConfig passes the check of bindPrivate.
NsboxdAccepts == run.pc # "panic"

\* A container lists what the guide says its commands amount to, and no item
\* twice unless a command named it twice.
ListAsAsked ==
    \A id \in Ids :
        /\ ToSet(list[id]) = asked[id]
        /\ id \in doubled \/ IsInjective(list[id])

\* What a running container shows of the home is its own directory where an
\* item, or one it lies in, was listed when it started, and the user's
\* elsewhere: in which order and how deep items are listed does not matter, so
\* a directory keeps its files when the list around it is changed.  Not so below
\* a home that is listed as "./" only, which is bound twice.
PrivateShown ==
    run.pc = "up" =>
        \A dir \in Dirs :
            LET over == {item \in ToSet(run.list) : IsPrefix(Parts(item), dir)}
                twice == /\ over # {} /\ <<".">> \notin over
                         /\ \A item \in over : Parts(item) = <<>>
            IN  \/ twice
                \/ Shown(dir) = {IF over = {} THEN Host(dir) ELSE Private(dir)}

\* The user owns every directory on the way to what a running container shows
\* of its private home, unless an earlier start died between mkdir and chown.
OwnedByUser ==
    run.pc = "up" =>
        \A item \in ToSet(run.list) : \A dir \in Above(Parts(item)) :
            owner[<<run.name, dir>>] = "user" \/ <<run.name, dir>> \in cut

\* A private directory shows only what this container wrote there, as "private
\* to the container" (config.go) says.
OwnFilesOnly ==
    run.pc = "up" =>
        \A file \in files :
            (file[1] = run.name /\ Private(file[2]) \in Shown(file[2]))
                => file[3] = run.id
=============================================================================
