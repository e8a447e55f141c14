----------------------------- MODULE MCReactLoop -----------------------------
(* The model-checking instance of ReactLoop: nothing is symmetric, the     *)
(* code's own caps bound it.                                               *)
EXTENDS ReactLoop
=============================================================================
