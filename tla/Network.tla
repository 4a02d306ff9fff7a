------------------------------ MODULE Network ------------------------------
(***************************************************************************)
(* Containers with a virtual network.  nsboxd makes up the name of a zone  *)
(* (GenerateUniqueLinkName), has firewalld trust the interface that nspawn *)
(* will create for the zone, and takes the trust back when it returns      *)
(* (RunContainerDirectNspawn).                                             *)
(*                                                                         *)
(* A name is what follows "nx-" in it.  The interface of a zone has the    *)
(* name of the zone with "vz-" before it.                                  *)
(***************************************************************************)
EXTENDS Integers, Sequences

CONSTANTS
    Letters,
    Containers,     \* by their names
    MaxBaseLength,  \* of a name; 9 in the code
    Others,         \* names, after "nx-", of links that are not of nsbox
    MaxFaults       \* bound: nsboxds killed, calls to untrust that fail

ASSUME NetworkAssumption ==
    /\ Containers \subseteq Seq(Letters)
    /\ Others \subseteq Seq(Letters)
    /\ MaxBaseLength \in Nat
    /\ MaxFaults \in Nat

VARIABLES
    pc,       \* of the nsboxd of each container
    name,     \* of its zone, and how many of its letters may still be changed
    letters,
    seen,     \* the links when it listed them
    owns,     \* whether it has a deferred call to untrust the interface
    trusted,  \* zones whose interface firewalld trusts
    shared,   \* ghost: the nsboxds that ran while another had the same zone
    left,     \* ghost: zones that a killed nsboxd, or a failed call, left there
    faults

naming == <<name, letters, seen>>
vars == <<pc, naming, owns, trusted, shared, left, faults>>

Zone(n) == <<"vz-", n>>
Plain(n) == <<"", n>>

\* From TrustInterface on until it has returned; with its interface.
Active(c) == pc[c] \in {"named", "starting", "up", "closing"}
Links == {Plain(n) : n \in Others}
             \cup {Zone(name[c]) : c \in {d \in Containers : pc[d] = "up"}}

LinkNames == {"vz-", ""} \X Seq(Letters)

TypeOK ==
    /\ pc \in [Containers ->
                   {"down", "naming", "named", "starting", "up", "closing"}]
    /\ name \in [Containers -> Seq(Letters)]
    /\ letters \in [Containers -> Nat]
    /\ \A c \in Containers : letters[c] <= Len(name[c])
    /\ seen \in [Containers -> SUBSET LinkNames]
    /\ owns \in [Containers -> BOOLEAN]
    /\ trusted \subseteq Seq(Letters)
    /\ shared \subseteq Containers
    /\ left \subseteq Seq(Letters)
    /\ faults \in 0..MaxFaults

Init ==
    /\ pc = [c \in Containers |-> "down"]
    /\ name = [c \in Containers |-> <<>>]
    /\ letters = [c \in Containers |-> 0]
    /\ seen = [c \in Containers |-> {}]
    /\ owns = [c \in Containers |-> FALSE]
    /\ trusted = {}
    /\ shared = {}
    /\ left = {}
    /\ faults = 0

-----------------------------------------------------------------------------
(***************************************************************************)
(* GenerateUniqueLinkName                                                  *)
(***************************************************************************)
Goto(c, l) == pc' = [pc EXCEPT ![c] = l]

\* Mutant of Truncated: the length of the prefix is forgotten.
NotTruncated(c) == IF Len(c) > MaxBaseLength + 3
                   THEN SubSeq(c, 1, MaxBaseLength + 3) ELSE c

Truncated(c) == IF Len(c) > MaxBaseLength THEN SubSeq(c, 1, MaxBaseLength) ELSE c

\* Mutant of ListLinks: the search begins behind the end of a short name.
ListLinksFull(c) ==
    /\ pc[c] = "down"
    /\ Goto(c, "naming")
    /\ name' = [name EXCEPT ![c] = Truncated(c)]
    /\ letters' = [letters EXCEPT ![c] = MaxBaseLength]
    /\ seen' = [seen EXCEPT ![c] = Links]
    /\ shared' = shared \ {c}
    /\ UNCHANGED <<owns, trusted, left, faults>>

ListLinks(c) ==
    /\ pc[c] = "down"
    /\ Goto(c, "naming")
    /\ name' = [name EXCEPT ![c] = Truncated(c)]
    /\ letters' = [letters EXCEPT ![c] = Len(name'[c])]
    /\ seen' = [seen EXCEPT ![c] = Links]
    /\ shared' = shared \ {c}
    /\ UNCHANGED <<owns, trusted, left, faults>>

\* The names of the zones that are up are never found, as what is looked up
\* has no "vz-" before it.
Exists(c) == Plain(name[c]) \in seen[c]

\* Mutant of Change: the same letter is changed again.
ChangeAgain(c) ==
    /\ pc[c] = "naming"
    /\ letters[c] > 0
    /\ Exists(c)
    /\ \E l \in Letters : name' = [name EXCEPT ![c][letters[c]] = l]
    /\ UNCHANGED <<pc, letters, seen, owns, trusted, shared, left, faults>>

Change(c) ==
    /\ pc[c] = "naming"
    /\ letters[c] > 0
    /\ Exists(c)
    /\ \E l \in Letters : name' = [name EXCEPT ![c][letters[c]] = l]
    /\ letters' = [letters EXCEPT ![c] = @ - 1]
    /\ UNCHANGED <<pc, seen, owns, trusted, shared, left, faults>>

Unique(c) ==
    /\ pc[c] = "naming"
    /\ letters[c] > 0
    /\ ~Exists(c)
    /\ Goto(c, "named")
    /\ shared' = shared \cup UNION {{c, d} : d \in {e \in Containers \ {c} :
                                                Active(e) /\ name[e] = name[c]}}
    /\ UNCHANGED <<naming, owns, trusted, left, faults>>

\* The last name made up is not looked up any more.
NotUnique(c) ==
    /\ pc[c] = "naming"
    /\ letters[c] = 0
    /\ Goto(c, "down")
    /\ UNCHANGED <<naming, owns, trusted, shared, left, faults>>

-----------------------------------------------------------------------------
(***************************************************************************)
(* RunContainerDirectNspawn                                                *)
(***************************************************************************)
\* firewalld puts an interface into its trusted zone, and takes it out again.
TrustInterface(n) == trusted' = trusted \cup {n}
UntrustInterface(n) == trusted' = trusted \ {n}

\* newFirewalld finds no firewalld, or the call fails: the container is started
\* nevertheless, and nothing is deferred.
NoFirewall(c) == owns' = [owns EXCEPT ![c] = FALSE] /\ UNCHANGED <<trusted, left>>

Trust(c) ==
    /\ pc[c] = "named"
    /\ Goto(c, "starting")
    /\ \/ /\ TrustInterface(name[c])
          /\ owns' = [owns EXCEPT ![c] = TRUE]
          /\ left' = left \ {name[c]}
       \/ NoFirewall(c)
    /\ UNCHANGED <<naming, shared, faults>>

\* Everything between, up to nspawnCmd.Run
StartNspawn(c) ==
    /\ pc[c] = "starting"
    /\ Goto(c, "up")
    /\ UNCHANGED <<naming, owns, trusted, shared, left, faults>>

\* Mutant of Return: an error returns before the calls are deferred.
ReturnEarly(c) ==
    /\ pc[c] \in {"starting", "up"}
    /\ Goto(c, IF pc[c] = "starting" THEN "down" ELSE "closing")
    /\ UNCHANGED <<naming, owns, trusted, shared, left, faults>>

\* nspawn has ended, or a step before it has failed.
Return(c) ==
    /\ pc[c] \in {"starting", "up"}
    /\ Goto(c, "closing")
    /\ UNCHANGED <<naming, owns, trusted, shared, left, faults>>

\* Mutant of Untrust: it does not wait for nspawn.
UntrustAtOnce(c) ==
    /\ pc[c] \in {"starting", "up", "closing"}
    /\ Goto(c, IF pc[c] = "closing" THEN "down" ELSE pc[c])
    /\ trusted' = IF owns[c] THEN trusted \ {name[c]} ELSE trusted
    /\ UNCHANGED <<naming, owns, shared, left, faults>>

\* The deferred calls; one that fails is logged.
Untrust(c) ==
    /\ pc[c] = "closing"
    /\ Goto(c, "down")
    /\ owns' = [owns EXCEPT ![c] = FALSE]
    /\ \/ /\ IF owns[c] THEN UntrustInterface(name[c]) ELSE UNCHANGED trusted
          /\ UNCHANGED <<left, faults>>
       \/ /\ owns[c] /\ faults < MaxFaults
          /\ faults' = faults + 1
          /\ left' = left \cup {name[c]}
          /\ UNCHANGED trusted
    /\ UNCHANGED <<naming, shared>>

\* Deferred calls do not run in a process that is killed.
Killed(c) ==
    /\ Active(c)
    /\ faults < MaxFaults
    /\ faults' = faults + 1
    /\ Goto(c, "down")
    /\ owns' = [owns EXCEPT ![c] = FALSE]
    /\ left' = IF owns[c] THEN left \cup {name[c]} ELSE left
    /\ UNCHANGED <<naming, trusted, shared>>

Next == \E c \in Containers :
    \/ ListLinks(c) \/ Change(c) \/ Unique(c) \/ NotUnique(c) \/ Trust(c)
    \/ StartNspawn(c) \/ Return(c) \/ Untrust(c) \/ Killed(c)

Fairness == \A c \in Containers :
    WF_vars(Change(c) \/ Unique(c) \/ NotUnique(c) \/ Trust(c)
            \/ StartNspawn(c) \/ Untrust(c))

Spec == Init /\ [][Next]_vars
FairSpec == Spec /\ Fairness

-----------------------------------------------------------------------------
(***************************************************************************)
(* Properties                                                              *)
(***************************************************************************)
\* While a container runs, the interface it had firewalld trust is trusted,
\* whatever the nsboxds of other containers do, end and leave behind, unless
\* one of them has made up the same name (direct.go:321-329, network.go:58).
TrustedWhileUp ==
    \A c \in Containers \ shared :
        pc[c] = "up" /\ owns[c] => name[c] \in trusted

\* Nothing stays trusted that no nsboxd will untrust, but for what one of them
\* left when it was killed or when firewalld refused (direct.go:324).
NothingForgotten ==
    \A n \in trusted \ left :
        \E c \in Containers : Active(c) /\ owns[c] /\ name[c] = n

\* The name of a zone is short enough, and was no link's when they were
\* listed (network.go:46-69).
NameFits ==
    \A c \in Containers :
        Active(c) => /\ Len(name[c]) <= MaxBaseLength
                     /\ Plain(name[c]) \notin seen[c]

\* A container that has been started ends up running, or nsboxd gives up: the
\* search for a name ends (network.go:57-65).
Settles ==
    \A c \in Containers : pc[c] = "naming" ~> pc[c] \in {"up", "down"}
=============================================================================
