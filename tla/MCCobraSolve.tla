---------------------------- MODULE MCCobraSolve ----------------------------
(* Two candidates with a sound and an unsound rewrite each.                 *)
EXTENDS CobraSolve, TLC

CONSTANTS k1, k2, k3, good, bad, w1

MCEquivalent == {<<k, good>> : k \in Key}

\* The candidates are alike, so safety is the same for any naming of them.
KeySymmetry == Permutations(Key)
=============================================================================
