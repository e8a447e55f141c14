----------------------------- MODULE MCRunQueue -----------------------------
(* Model-checking instances of RunQueue: a handful of interchangeable      *)
(* invocations. The safety runs use the symmetry, the liveness runs do not.*)
EXTENDS RunQueue, TLC

Symmetry == Permutations(Invocations)
=============================================================================
