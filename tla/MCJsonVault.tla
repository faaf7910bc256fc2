----------------------------- MODULE MCJsonVault -----------------------------
(* Small instances of JsonVault for TLC. *)
EXTENDS JsonVault, TLC

CONSTANTS k1, k2, o1, o2

\* Two kinds, spelt alike in tokens (`email` and `EMAIL`).
Capitals == [k \in Kind |-> k1]

OneAndPairs == {<<<<k1, o1>>>>, <<<<k1, o1>>, <<k1, o2>>>>, <<<<k1, o1>>, <<k2, o1>>>>}
Single == {<<<<k1, o1>>>>}
Two == {<<<<k1, o1>>>>, <<<<k1, o2>>>>}
Symmetry == Permutations(Process) \cup Permutations(Scope) \cup Permutations(Entropy)
SymmetryKeys == Permutations(Process) \cup Permutations(Key)
=============================================================================
