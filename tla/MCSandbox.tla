------------------------------ MODULE MCSandbox ------------------------------
(***************************************************************************)
(* The model-checking instance of Sandbox: three calls of two threads on   *)
(* two instances, all interchangeable.                                     *)
(***************************************************************************)
EXTENDS Sandbox, TLC

CONSTANTS c1, c2, c3, i1, i2, t1, t2

MCCalls == {c1, c2, c3}
MCInstances == {i1, i2}
MCThreads == {t1, t2}
Symmetry == Permutations(MCCalls) \cup Permutations(MCInstances) \cup Permutations(MCThreads)
=============================================================================
