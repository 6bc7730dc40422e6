----------------------------- MODULE MCStackFiles -----------------------------
\* Three commands that are alike.
EXTENDS StackFiles, TLC

CONSTANTS c1, c2, c3

Symmetry == Permutations(Commands)
===============================================================================
