----------------------------- MODULE MCExports -----------------------------
\* Two desktop files and a container that may be renamed once and back.
EXTENDS Exports, TLC

CONSTANTS a1, a2, c1, c2, h1, n1, n2
MCApps == {a1, a2}
MCCmds == {c1, c2}
Symmetry == Permutations(MCApps) \cup Permutations(MCCmds)
=============================================================================
