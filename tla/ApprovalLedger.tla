--------------------------- MODULE ApprovalLedger ---------------------------
(***************************************************************************)
(* What the approval machinery promises, apart from how it is executed: an *)
(* external write happens only under an approval a human granted, the      *)
(* approval covers the step that writes (it names that step, or the plan   *)
(* the step belongs to), and an approval of a whole plan pays for one      *)
(* write.                                                                  *)
(***************************************************************************)
EXTENDS Naturals, Sequences

CONSTANTS
  Approvals,      \* approval requests
  Plans,          \* plans an approval may name
  StepIds,        \* steps an approval may name: records with a field "plan"
  Nothing         \* the scope of a request not made yet

VARIABLES
  answer,         \* what became of each request
  scope,          \* the plan or the step it names
  writes          \* the external writes made so far: which step, on whose authority

Covers(a, s) == scope[a] \in {s, s.plan}
Spent(a) == \E n \in DOMAIN writes : writes[n].authority = a

Init ==
  /\ answer = [a \in Approvals |-> "unused"]
  /\ scope = [a \in Approvals |-> Nothing]
  /\ writes = <<>>

Ask(a, what) ==
  /\ answer[a] = "unused"
  /\ answer' = [answer EXCEPT ![a] = "pending"]
  /\ scope' = [scope EXCEPT ![a] = what]
  /\ UNCHANGED writes

Answer(a, reply) ==
  /\ answer[a] = "pending"
  /\ answer' = [answer EXCEPT ![a] = reply]
  /\ UNCHANGED <<scope, writes>>

Write(s, a) ==
  /\ answer[a] = "granted"
  /\ Covers(a, s)
  /\ scope[a] \in Plans => ~Spent(a)
  /\ writes' = Append(writes, [step |-> s, authority |-> a])
  /\ UNCHANGED <<answer, scope>>

Next ==
  \E a \in Approvals :
    \/ \E what \in Plans \cup StepIds : Ask(a, what)
    \/ \E reply \in {"granted", "refused"} : Answer(a, reply)
    \/ \E s \in StepIds : Write(s, a)

Spec == Init /\ [][Next]_<<answer, scope, writes>>
=============================================================================
