------------------------------ MODULE MCConsole ------------------------------
EXTENDS Console, TLC

CONSTANTS s1, s2, c1, c2, i1, i2

\* With the editable item and without it
MCLists == {<<i1, i2>>, <<i2>>}

Symmetry == Permutations(Sites) \cup Permutations(Calls)
=============================================================================
