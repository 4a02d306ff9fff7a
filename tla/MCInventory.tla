---------------------------- MODULE MCInventory ----------------------------
\* Two commands at a time on two names.
EXTENDS Inventory, TLC

CONSTANTS p1, p2, x, y
MCProcs == {p1, p2}
MCNames == {x, y}
Symmetry == Permutations(MCProcs)
=============================================================================
