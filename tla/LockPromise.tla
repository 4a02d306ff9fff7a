---------------------------- MODULE LockPromise ----------------------------
(***************************************************************************)
(* What internal/container promises of its locks, without saying how: each *)
(* level of one container is a mutex, a call to Lock is granted as a whole *)
(* or not at all, and a full container lock is a grant of every level.     *)
(* ContainerLocks is shown to implement it.                                *)
(***************************************************************************)
CONSTANTS
    Procs,   \* the processes that lock the container
    Levels   \* the lock levels, lowest first

VARIABLE granted   \* granted[p] is the set of levels p holds

Init == granted = [p \in Procs |-> {}]

\* A call returns to p with the locks in S: nobody held any of them.
Grant(p, S) ==
    /\ S # {}
    /\ \A q \in Procs : granted[q] \cap S = {}
    /\ granted' = [granted EXCEPT ![p] = @ \cup S]

\* p gives S up, by Release or by its death.
Yield(p, S) ==
    /\ S \subseteq granted[p]
    /\ granted' = [granted EXCEPT ![p] = @ \ S]

\* A single level, or all of them.
Grants == {{l} : l \in Levels} \cup {Levels}

Next == \E p \in Procs :
            \/ \E S \in Grants : Grant(p, S)
            \/ \E S \in SUBSET Levels : Yield(p, S)

Spec == Init /\ [][Next]_granted
=============================================================================
