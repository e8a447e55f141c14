----------------------------- MODULE MCDashboard -----------------------------
(***************************************************************************)
(* The model-checking instance of Dashboard: one page with its two         *)
(* requests, at one instance. No symmetry: the run checks liveness.        *)
(***************************************************************************)
EXTENDS Dashboard

CONSTANTS p1, i1

OnePage == {p1}
OneInstance == {i1}
=============================================================================
