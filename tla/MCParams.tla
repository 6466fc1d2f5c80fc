------------------------------ MODULE MCParams -------------------------------
(* Two processes, one of them with a writer thread; see the cfg files.     *)
EXTENDS Params, TLC
CONSTANTS k1, k2, v1, v2, c1, c2
mcKeys == {k1, k2}
mcValues == {v1, v2}
mcClients == {c1, c2}
Symmetry == Permutations(mcKeys) \cup Permutations(mcValues)
mcOne == {c1}
=============================================================================
