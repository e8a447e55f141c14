--------------------------- MODULE MCEventIngress ---------------------------
(* The model-checking instance of EventIngress: two deliveries of one      *)
(* event, and another event of the same message.                           *)
EXTENDS EventIngress, TLC

CONSTANTS d1, d2, d3, e1, e2, m1, k1

ThreeDeliveries == {d1, d2, d3}
Sent  == d1 :> e1 @@ d2 :> e1 @@ d3 :> e2
About == e1 :> m1 @@ e2 :> m1
Meant == m1 :> k1

Symmetry == Permutations(Instances) \cup Permutations({d1, d2})
=============================================================================
