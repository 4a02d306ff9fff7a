-------------------------- MODULE MCContainerLocks --------------------------
\* Three processes on one container: enough for a full lock, a lock of a
\* lower level and a waiter to meet.
EXTENDS ContainerLocks, TLC

CONSTANTS p1, p2, p3
MCProcs == {p1, p2, p3}
MCSites == CallSites
Symmetry == Permutations(MCProcs)
=============================================================================
