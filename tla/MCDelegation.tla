----------------------------- MODULE MCDelegation -----------------------------
\* Deployments of two stacks, two delegation sets, on two servers.
EXTENDS Delegation, TLC

CONSTANTS d1, d2, d3, s1, s2, a, b

MCNameServers == {{a}, {b}}
Symmetry == Permutations(Deployments) \union Permutations(SetIds)
===============================================================================
