---------------------------- MODULE MCLifecycle ----------------------------
\* Two processes give commands to one container.
EXTENDS Lifecycle, TLC

CONSTANTS p1, p2
MCProcs == {p1, p2}
Symmetry == Permutations(MCProcs)
=============================================================================
