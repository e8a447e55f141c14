----------------------------- MODULE MCScheduler -----------------------------
(* The model-checking instance of Scheduler: a deferred task, and a        *)
(* recurring trigger that falls due twice; three pollers, two of which     *)
(* share an instance. No symmetry: the run checks liveness too.            *)
EXTENDS Scheduler

CONSTANTS p1, p2, p3, i1, i2

Sharing == [p \in {p1, p2, p3} |-> IF p = p3 THEN i2 ELSE i1]
=============================================================================
