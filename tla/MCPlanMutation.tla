--------------------------- MODULE MCPlanMutation ---------------------------
(* The model-checking instance of PlanMutation: an approved plan of one    *)
(* write, to which two mutations may each add a step, or change it.        *)
EXTENDS PlanMutation, TLC

CONSTANTS read, mail

OneWrite == {<<mail>>}
Symmetry == Permutations(Mutations)
=============================================================================
