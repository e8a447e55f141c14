---------------------------- MODULE MCDirectReply ----------------------------
(* The model-checking instance of DirectReply: two replies that queue for  *)
(* one permit, one on another instance that says the same as the first,    *)
(* and a run that reads the history; everything may fail.                  *)
EXTENDS DirectReply

CONSTANTS m1, m2, m3, yes, no

Texting == [r \in {m1, m2, m3} |-> IF r = m2 THEN no ELSE yes]
Everything == {"redis", "row", "pool", "model", "slack"}
=============================================================================
