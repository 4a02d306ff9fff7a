--------------------------- MODULE MCLockAndDelete ---------------------------
\* Three processes on one container: two deletes, or a delete that is
\* repeated, beside a start of the container and a kill of it.
EXTENDS LockAndDelete, TLC

CONSTANTS p1, p2, p3
MCProcs == {p1, p2, p3}
MCSites == {c \in CallSites : c.role = "delete" \/ c.level = RunLock}
Symmetry == Permutations(MCProcs)
=============================================================================
