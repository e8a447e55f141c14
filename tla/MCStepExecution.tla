--------------------------- MODULE MCStepExecution ---------------------------
(* Model-checking instances of StepExecution. The drafts are the smallest  *)
(* that make the gate, the retry and the resumption interact; workers,     *)
(* plans and approvals are interchangeable.                                *)
EXTENDS StepExecution, TLC

WriteReply == {<<"write", "reply">>, <<"other">>}
OneWrite   == {<<"write">>}
Mixed      == {<<"write", "reply">>, <<"reply", "write">>, <<"forbidden">>, <<"other">>}

Symmetry == Permutations(Workers) \cup Permutations(Plans) \cup Permutations(Approvals)
=============================================================================
