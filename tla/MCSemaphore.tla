----------------------------- MODULE MCSemaphore -----------------------------
(* The model-checking instance of Semaphore: twice as many callers as      *)
(* permits, half of which wait without a time-out. No symmetry: the run    *)
(* checks liveness too.                                                    *)
EXTENDS Semaphore

CONSTANTS c1, c2, c3, c4

FourCallers == {c1, c2, c3, c4}
PatientOnes == {c3, c4}
=============================================================================
