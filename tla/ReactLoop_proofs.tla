------------------------- MODULE ReactLoop_proofs -------------------------
(***************************************************************************)
(* Proofs about ReactLoop, for any caps: type correctness, and the four    *)
(* safety invariants its run checks.                                       *)
(***************************************************************************)
EXTENDS ReactLoop, FiniteSetTheorems, TLAPS

-----------------------------------------------------------------------------
(* The table of steps                                                      *)

Row == [plan : 1..MaxIterations, tool : Tools \cup {"answer"}, status : StepStatus,
        acted : BOOLEAN, request : {"none", "pending", "approved", "rejected", "failed"}]

(* Appending a row gives the next number to it and leaves the others alone. *)
LEMMA RowAdded ==
  ASSUME steps \in Seq(Row), NEW r \in Row, steps' = Append(steps, r)
  PROVE  /\ steps' \in Seq(Row)
         /\ DOMAIN steps' = DOMAIN steps \cup {Len(steps) + 1}
         /\ Len(steps) + 1 \notin DOMAIN steps
         /\ steps'[Len(steps) + 1] = r
         /\ \A n \in DOMAIN steps : steps'[n] = steps[n]
  OBVIOUS

(* A table over the same numbers is a table. *)
LEMMA RowsReplaced ==
  ASSUME steps \in Seq(Row), NEW f, f \in [DOMAIN steps -> Row], steps' = f
  PROVE  steps' \in Seq(Row) /\ DOMAIN steps' = DOMAIN steps
  OBVIOUS
-----------------------------------------------------------------------------
(* Types                                                                   *)

RunRow == [status : RunStatus, plan : 0..MaxIterations,
           iteration : 0..MaxIterations, retry : 0..MaxRetries]
Conversation == [last : {"none", "user", "model"}, heard : SUBSET DOMAIN steps]
Held == [contents : Conversation, made : Nat, turn : 0..MaxTurns,
         responses : SUBSET DOMAIN steps, outcome : {"none", "capped", "clock", "approval"},
         step : {0} \cup DOMAIN steps, unblocked : BOOLEAN]
Places == {"idle", "capped", "resume", "plan", "enter", "ask", "answer", "call", "asking",
           "acting", "push", "pick", "gate", "regate", "redo", "verify", "reset"}

(* What the place of the worker implies, and the types rest on.            *)
Placed ==
  /\ pc = "plan" => run.iteration < MaxIterations
  /\ pc = "enter" => run.iteration > 0
  /\ pc \in {"ask", "answer", "call", "asking", "acting", "push"} => run.plan > 0
  /\ pc \in {"asking", "acting", "gate", "regate", "redo"} => local.step # 0

Others ==
  /\ rows \in Nat
  /\ task \in 0..MaxIterations
  /\ pc \in Places
  /\ observed \subseteq DOMAIN steps
  /\ dropped \subseteq DOMAIN steps

(* TypeOK by variable, with what it needs to be inductive. *)
Typed ==
  /\ run \in RunRow
  /\ messages \in Conversation
  /\ steps \in Seq(Row)
  /\ local \in Held
  /\ Others
  /\ Placed

(* The types by variable give the type invariant.                          *)
LEMMA TypedIsTypeOK == Typed => TypeOK
  BY DEF Typed, TypeOK, Others, RunRow, Conversation, Held, Row, Places

(* The run starts with rows of the right types, and nobody on it.          *)
LEMMA TypedInit == Init => Typed
<1> SUFFICES ASSUME Init PROVE Typed
  OBVIOUS
<1>1. run \in RunRow
  BY LoopAssumption DEF Init, RunRow, RunStatus
<1>2. messages \in Conversation /\ local \in Held
  BY LoopAssumption DEF Init, Conversation, Held, Empty, Idle
<1>3. steps \in Seq(Row) /\ Others /\ Placed
  BY LoopAssumption DEF Init, Others, Placed, Places
<1> QED
  BY <1>1, <1>2, <1>3 DEF Typed

(* Steps that leave the table of steps alone. *)
LEMMA TypedAside ==
  ASSUME Typed, UNCHANGED steps,
         \/ Claim \/ GiveUp \/ StartIteration \/ EnterLoop \/ AskModel \/ FinalAnswer
         \/ EmptyAnswer \/ EndLoop \/ StopCalls \/ Push \/ ResumePlan \/ StepsDone
         \/ Succeed \/ RetrySteps \/ Replan \/ TimeOut \/ Throw
         \/ RecoverStaleClaims \/ Crash
  PROVE  Typed'
<1> USE LoopAssumption DEF Typed
<1>0. Idle \in Held /\ Idle \in Held'
  BY DEF Held, Conversation, Idle, Empty
<1>c. Conversation' = Conversation /\ Held' = Held
  BY DEF Conversation, Held
<1>1. CASE Claim
  <2>1. run' \in RunRow
    BY <1>1 DEF Claim, SetStatus, RunRow, RunStatus
  <2>2. Others' /\ Placed'
    BY <1>1 DEF Claim, SetStatus, Others, Placed, Places, RunRow, Held, rowVars, ghosts
  <2> QED
    BY <1>1, <1>c, <2>1, <2>2 DEF Claim
<1>2. CASE GiveUp
  <2>1. run' \in RunRow
    BY <1>2 DEF GiveUp, SetStatus, RunRow, RunStatus
  <2>2. local' \in Held'
    BY <1>2, <1>0, <1>c DEF GiveUp, Leave, Held, Conversation
  <2>3. Others' /\ Placed'
    BY <1>2 DEF GiveUp, SetStatus, Leave, Others, Placed, Places, RunRow, Held, rowVars, ghosts
  <2> QED
    BY <1>2, <1>c, <2>1, <2>2, <2>3 DEF GiveUp
<1>3. CASE StartIteration
  <2>1. run' \in RunRow
    BY <1>3 DEF StartIteration, RunRow, RunStatus, Placed
  <2>2. Others' /\ Placed'
    BY <1>3 DEF StartIteration, Others, Placed, Places, RunRow, Held, rowVars, ghosts
  <2> QED
    BY <1>3, <1>c, <2>1, <2>2 DEF StartIteration
<1>4. CASE EnterLoop
  <2>1. run' \in RunRow
    BY <1>4 DEF EnterLoop, RunRow, RunStatus
  <2>2. local' \in Held'
    <3>1. /\ messages.heard \subseteq DOMAIN steps
          /\ [messages EXCEPT !.last = "user"] \in Conversation
      BY DEF Conversation
    <3>2. Reload(messages) \in Conversation
      BY <3>1 DEF Reload, Fresh, Conversation
    <3>3. CallsMade \in Nat
      BY DEF CallsMade, Others
    <3> QED
      BY <1>4, <1>c, <3>2, <3>3 DEF EnterLoop, Held
  <2>3. Others' /\ Placed'
    BY <1>4
       DEF EnterLoop, Reload, CallsMade, Fresh, Others, Placed, Places, RunRow, Held, rowVars, ghosts
  <2> QED
    BY <1>4, <1>c, <2>1, <2>2, <2>3 DEF EnterLoop
<1>5. CASE AskModel
  <2>1. local' \in Held'
    <3>1. local.turn + 1 \in 0..MaxTurns
      BY <1>5 DEF AskModel, Held
    <3> QED
      BY <1>5, <1>c, <3>1 DEF AskModel, Held
  <2>2. Others' /\ Placed'
    BY <1>5 DEF AskModel, Others, Placed, Places, RunRow, Held, rowVars, ghosts
  <2> QED
    BY <1>5, <1>c, <2>1, <2>2 DEF AskModel, rowVars
<1>6. CASE FinalAnswer
  <2>1. messages' \in Conversation'
    BY <1>6, <1>c DEF FinalAnswer, Conversation, Held
  <2>2. Others' /\ Placed'
    BY <1>6 DEF FinalAnswer, Others, Placed, Places, RunRow, Held, rowVars, ghosts
  <2> QED
    BY <1>6, <1>c, <2>1, <2>2 DEF FinalAnswer
<1>7. CASE EmptyAnswer
  <2>1. messages' \in Conversation'
    BY <1>7, <1>c DEF EmptyAnswer, Conversation, Held
  <2>2. Others' /\ Placed'
    <3>1. run.plan \in 1..MaxIterations
      BY <1>7 DEF EmptyAnswer, Placed, RunRow
    <3> QED
      BY <1>7, <3>1 DEF EmptyAnswer, ghosts, Others, Placed, Places
  <2> QED
    BY <1>7, <1>c, <2>1, <2>2 DEF EmptyAnswer
<1>8. CASE EndLoop
  <2>1. run' \in RunRow
    BY <1>8 DEF EndLoop, SetStatus, Requeue, RunRow, RunStatus
  <2>2. messages' \in Conversation'
    BY <1>8, <1>c DEF EndLoop, Conversation, Held
  <2>3. local' \in Held'
    BY <1>8, <1>0, <1>c DEF EndLoop, Leave, Held, Conversation
  <2>4. Others' /\ Placed'
    BY <1>8
       DEF EndLoop, SetStatus, Requeue, Leave, Others, Placed, Places, RunRow, Held, rowVars, ghosts
  <2> QED
    BY <1>8, <1>c, <2>1, <2>2, <2>3, <2>4 DEF EndLoop
<1>9. CASE StopCalls
  <2>1. local' \in Held'
    BY <1>9, <1>0, <1>c DEF StopCalls, Held, Conversation
  <2>2. Others' /\ Placed'
    BY <1>9 DEF StopCalls, Others, Placed, Places, RunRow, Held, rowVars, ghosts
  <2> QED
    BY <1>9, <1>c, <2>1, <2>2 DEF StopCalls, rowVars
<1>10. CASE Push
  <2>1. run' \in RunRow
    <3>1. run' = run \/ \E s \in {"queued", "failed"} : run' = [run EXCEPT !.status = s]
      <4>1. local.outcome \in {"none", "capped", "clock", "approval"}
        BY DEF Held
      <4> QED
        BY <1>10, <4>1 DEF Push, SetStatus, Requeue
    <3> QED
      BY <3>1 DEF RunRow, RunStatus
  <2>2. messages' \in Conversation'
    BY <1>10, <1>c DEF Push, WithTurn, Conversation, Held
  <2>3. local' \in Held'
    BY <1>10, <1>0, <1>c DEF Push, Leave, WithTurn, Held, Conversation
  <2>4. Others' /\ Placed'
    BY <1>10
       DEF Push, SetStatus, Requeue, Leave, WithTurn, Others, Placed, Places, RunRow, Held, rowVars, ghosts
  <2> QED
    BY <1>10, <1>c, <2>1, <2>2, <2>3, <2>4 DEF Push
<1>11. CASE ResumePlan
  <2>1. Others' /\ Placed'
    BY <1>11 DEF ResumePlan, Others, Placed, Places, RunRow, Held, rowVars, ghosts
  <2> QED
    BY <1>11, <1>c, <2>1 DEF ResumePlan, rowVars
<1>12. CASE StepsDone
  <2>1. Others' /\ Placed'
    BY <1>12 DEF StepsDone, Others, Placed, Places, RunRow, Held, rowVars, ghosts
  <2> QED
    BY <1>12, <1>c, <2>1 DEF StepsDone, rowVars
<1>13. CASE Succeed
  <2>1. run' \in RunRow
    BY <1>13 DEF Succeed, SetStatus, RunRow, RunStatus
  <2>2. local' \in Held'
    BY <1>13, <1>0, <1>c DEF Succeed, Leave, Held, Conversation
  <2>3. Others' /\ Placed'
    BY <1>13
       DEF Succeed, SetStatus, Leave, Others, Placed, Places, RunRow, Held, rowVars, ghosts
  <2> QED
    BY <1>13, <1>c, <2>1, <2>2, <2>3 DEF Succeed
<1>14. CASE RetrySteps
  <2>1. run' \in RunRow
    BY <1>14 DEF RetrySteps, RunRow, RunStatus
  <2>2. Others' /\ Placed'
    BY <1>14 DEF RetrySteps, Others, Placed, Places, RunRow, Held, rowVars, ghosts
  <2> QED
    BY <1>14, <1>c, <2>1, <2>2 DEF RetrySteps
<1>15. CASE Replan
  <2>1. run' \in RunRow
    <3>1. PICK s \in {"queued", "failed"} : run' = [run EXCEPT !.status = s, !.plan = 0]
      BY <1>15 DEF Replan
    <3>2. run' = [status |-> s, plan |-> 0, iteration |-> run.iteration, retry |-> run.retry]
      BY <3>1 DEF RunRow
    <3> QED
      BY <3>2 DEF RunRow, RunStatus
  <2>2. local' \in Held'
    BY <1>15, <1>0, <1>c DEF Replan, Leave, Held, Conversation
  <2>3. Others' /\ Placed'
    BY <1>15 DEF Replan, Leave, Others, Placed, Places, RunRow, Held, rowVars, ghosts
  <2> QED
    BY <1>15, <1>c, <2>1, <2>2, <2>3 DEF Replan
<1>16. CASE TimeOut
  <2>1. run' \in RunRow
    BY <1>16 DEF TimeOut, SetStatus, Requeue, RunRow, RunStatus
  <2>2. local' \in Held'
    BY <1>16, <1>0, <1>c DEF TimeOut, Leave, Held, Conversation
  <2>3. Others' /\ Placed'
    BY <1>16
       DEF TimeOut, SetStatus, Requeue, Leave, Others, Placed, Places, RunRow, Held, rowVars, ghosts
  <2> QED
    BY <1>16, <1>c, <2>1, <2>2, <2>3 DEF TimeOut
<1>17. CASE Throw
  <2>1. run' \in RunRow
    BY <1>17 DEF Throw, SetStatus, RunRow, RunStatus
  <2>2. local' \in Held'
    BY <1>17, <1>0, <1>c DEF Throw, Leave, Held, Conversation
  <2>3. Others' /\ Placed'
    BY <1>17 DEF Throw, SetStatus, Leave, Others, Placed, Places, RunRow, Held, rowVars, ghosts
  <2> QED
    BY <1>17, <1>c, <2>1, <2>2, <2>3 DEF Throw
<1>18. CASE RecoverStaleClaims
  <2>1. run' \in RunRow
    BY <1>18 DEF RecoverStaleClaims, SetStatus, RunRow, RunStatus
  <2>2. Others' /\ Placed'
    BY <1>18
       DEF RecoverStaleClaims, SetStatus, Others, Placed, Places, RunRow, Held, rowVars, ghosts
  <2> QED
    BY <1>18, <1>c, <2>1, <2>2 DEF RecoverStaleClaims
<1>19. CASE Crash
  <2>1. local' \in Held'
    BY <1>19, <1>0, <1>c DEF Crash, Leave, Held, Conversation
  <2>2. Others' /\ Placed'
    BY <1>19 DEF Crash, Leave, Others, Placed, Places, RunRow, Held, rowVars, ghosts
  <2> QED
    BY <1>19, <1>c, <2>1, <2>2 DEF Crash, rowVars
<1> QED
  BY <1>1, <1>2, <1>3, <1>4, <1>5, <1>6, <1>7, <1>8, <1>9, <1>10,
     <1>11, <1>12, <1>13, <1>14, <1>15, <1>16, <1>17, <1>18, <1>19

(* Numbers once given stay, and so do the types that speak of them. *)
LEMMA NumbersStay ==
  ASSUME DOMAIN steps \subseteq DOMAIN steps'
  PROVE  Conversation \subseteq Conversation' /\ Held \subseteq Held'
  BY DEF Conversation, Held

Requests == {"none", "pending", "approved", "rejected", "failed"}

(* A row stays a row when one of its fields is set. *)
LEMMA FieldSet ==
  ASSUME NEW row \in Row
  PROVE  /\ \A s \in StepStatus : [row EXCEPT !.status = s] \in Row
         /\ \A r \in Requests : [row EXCEPT !.request = r] \in Row
         /\ \A b \in BOOLEAN : [row EXCEPT !.acted = b] \in Row
  BY DEF Row, Requests

(* One row is replaced. *)
LEMMA RowReplaced ==
  ASSUME steps \in Seq(Row), NEW n \in DOMAIN steps, NEW row \in Row,
         steps' = [steps EXCEPT ![n] = row]
  PROVE  /\ steps' \in Seq(Row) /\ DOMAIN steps' = DOMAIN steps
         /\ steps'[n] = row
         /\ \A m \in DOMAIN steps \ {n} : steps'[m] = steps[m]
  OBVIOUS

(* A row stays a row when its status is set.                               *)
LEMMA StepSet ==
  ASSUME steps \in Seq(Row), NEW n \in DOMAIN steps, NEW s \in StepStatus, SetStep(n, s)
  PROVE  /\ steps' \in Seq(Row) /\ DOMAIN steps' = DOMAIN steps
         /\ steps'[n] = [steps[n] EXCEPT !.status = s]
         /\ \A m \in DOMAIN steps \ {n} : steps'[m] = steps[m]
<1>1. steps[n] \in Row
  OBVIOUS
<1>2. [steps[n] EXCEPT !.status = s] \in Row
  BY <1>1, FieldSet
<1>3. steps' = [steps EXCEPT ![n] = [steps[n] EXCEPT !.status = s]]
  BY DEF SetStep
<1> QED
  BY <1>2, <1>3, RowReplaced

(* A row stays a row when a pending request is put beside it.              *)
LEMMA RequestSet ==
  ASSUME steps \in Seq(Row), NEW n \in DOMAIN steps, NEW r \in Requests,
         steps' = [steps EXCEPT ![n].request = r]
  PROVE  /\ steps' \in Seq(Row) /\ DOMAIN steps' = DOMAIN steps
         /\ steps'[n] = [steps[n] EXCEPT !.request = r]
         /\ \A m \in DOMAIN steps \ {n} : steps'[m] = steps[m]
<1>1. steps[n] \in Row
  OBVIOUS
<1>2. [steps[n] EXCEPT !.request = r] \in Row
  BY <1>1, FieldSet
<1>3. steps' = [steps EXCEPT ![n] = [steps[n] EXCEPT !.request = r]]
  OBVIOUS
<1> QED
  BY <1>2, <1>3, RowReplaced

(* A row stays a row when its request is voided.                           *)
LEMMA RequestVoided ==
  ASSUME steps \in Seq(Row), NEW n \in DOMAIN steps, VoidStep(n)
  PROVE  /\ steps' \in Seq(Row) /\ DOMAIN steps' = DOMAIN steps
         /\ steps'[n] = [steps[n] EXCEPT !.status = "failed", !.request = "failed"]
         /\ \A m \in DOMAIN steps \ {n} : steps'[m] = steps[m]
<1>1. steps[n] \in Row
  OBVIOUS
<1>2. ASSUME NEW row \in Row
      PROVE  [row EXCEPT !.status = "failed", !.request = "failed"] \in Row
  BY DEF Row, StepStatus
<1>3. steps' = [steps EXCEPT ![n] =
                  [steps[n] EXCEPT !.status = "failed", !.request = "failed"]]
  BY DEF VoidStep
<1> QED
  BY <1>1, <1>2, <1>3, RowReplaced

(* A row stays a row when its effect has happened.                         *)
LEMMA ActedSet ==
  ASSUME steps \in Seq(Row), NEW n \in DOMAIN steps, NEW b \in BOOLEAN,
         steps' = [steps EXCEPT ![n].acted = b]
  PROVE  /\ steps' \in Seq(Row) /\ DOMAIN steps' = DOMAIN steps
         /\ steps'[n] = [steps[n] EXCEPT !.acted = b]
         /\ \A m \in DOMAIN steps \ {n} : steps'[m] = steps[m]
<1>1. steps[n] \in Row
  OBVIOUS
<1>2. [steps[n] EXCEPT !.acted = b] \in Row
  BY <1>1, FieldSet
<1>3. steps' = [steps EXCEPT ![n] = [steps[n] EXCEPT !.acted = b]]
  OBVIOUS
<1> QED
  BY <1>2, <1>3, RowReplaced

(* Any set of rows becomes pending. *)
LEMMA StepsReset ==
  ASSUME steps \in Seq(Row), NEW N,
         steps' = [n \in DOMAIN steps |->
           IF n \in N THEN [steps[n] EXCEPT !.status = "pending"] ELSE steps[n]]
  PROVE  /\ steps' \in Seq(Row) /\ DOMAIN steps' = DOMAIN steps
         /\ \A n \in DOMAIN steps :
              steps'[n] = steps[n] \/ steps'[n] = [steps[n] EXCEPT !.status = "pending"]
<1>1. ASSUME NEW n \in DOMAIN steps
      PROVE  steps[n] \in Row /\ [steps[n] EXCEPT !.status = "pending"] \in Row
  <2>1. steps[n] \in Row
    OBVIOUS
  <2> QED
    BY <2>1, FieldSet DEF StepStatus
<1>2. steps' \in [DOMAIN steps -> Row]
  BY <1>1
<1> QED
  BY <1>2, RowsReplaced

(* The result of a call whose step has a row. *)
LEMMA Heard ==
  ASSUME local \in Held', NEW n \in DOMAIN steps',
         local' = [local EXCEPT !.made = @ + 1, !.responses = @ \cup {n}]
  PROVE  local' \in Held'
<1>1. local.made + 1 \in Nat /\ local.responses \cup {n} \in SUBSET DOMAIN steps'
  BY DEF Held
<1>2. local' = [local EXCEPT !.made = local.made + 1, !.responses = local.responses \cup {n}]
  OBVIOUS
<1> DEFINE m == local.made + 1
           r == local.responses \cup {n}
<1> HIDE DEF m, r
<1>3. m \in Nat /\ r \in SUBSET DOMAIN steps'
  BY <1>1 DEF m, r
<1>4. local' = [local EXCEPT !.made = m, !.responses = r]
  BY <1>2 DEF m, r
<1> QED
  BY <1>3, <1>4 DEF Held

(* Steps that change the table. *)
LEMMA TypedTable ==
  ASSUME Typed,
         \/ RecordAnswer \/ (\E t \in Tools : CallRefused(t) \/ CallTool(t))
         \/ Suspend \/ AskFails \/ Act \/ Record
         \/ (\E n \in DOMAIN steps : Pick(n)) \/ Gate \/ Regate \/ Redo \/ ResetFailed
         \/ (\E n \in DOMAIN steps : Approve(n) \/ Refuse(n)) \/ Unblock
  PROVE  Typed'
<1> USE LoopAssumption DEF Typed
<1>0. Idle \in Held'
  BY DEF Held, Conversation, Idle, Empty
<1>p. pc \in {"asking", "acting", "gate", "regate", "redo"} => local.step \in DOMAIN steps
  BY DEF Placed, Held
<1>1. CASE RecordAnswer
  <2>1. steps' \in Seq(Row) /\ DOMAIN steps \subseteq DOMAIN steps'
    <3>1. [plan |-> run.plan, tool |-> "answer", status |-> "succeeded", request |-> "none",
           acted |-> FALSE] \in Row
      BY <1>1 DEF RecordAnswer, Row, StepStatus, Placed, RunRow
    <3> QED
      BY <1>1, <3>1, RowAdded DEF RecordAnswer, NewStep
  <2>2. Conversation \subseteq Conversation' /\ Held \subseteq Held'
    BY <2>1, NumbersStay
  <2>5. Others' /\ Placed'
    <3>1. run.plan \in 1..MaxIterations
      BY <1>1 DEF RecordAnswer, Placed, RunRow
    <3> QED
      BY <1>1, <2>1, <3>1 DEF RecordAnswer, ghosts, Others, Placed, Places
  <2> QED
    BY <1>1, <2>1, <2>2, <2>5 DEF RecordAnswer
<1>2. ASSUME NEW t \in Tools, CallRefused(t) PROVE Typed'
  <2>1. steps' \in Seq(Row) /\ DOMAIN steps \subseteq DOMAIN steps'
    <3>1. PICK s \in {"failed", "blocked"} : steps' = NewStep(t, s, "none")
      BY <1>2 DEF CallRefused
    <3>2. [plan |-> run.plan, tool |-> t, status |-> s, request |-> "none",
           acted |-> FALSE] \in Row
      BY <1>2, <3>1 DEF CallRefused, Row, StepStatus, Placed, RunRow
    <3> QED
      BY <3>1, <3>2, RowAdded DEF NewStep
  <2>2. Conversation \subseteq Conversation' /\ Held \subseteq Held'
    BY <2>1, NumbersStay
  <2>4. local' \in Held'
    <3>1. Len(steps) + 1 \in DOMAIN steps'
      BY <1>2 DEF CallRefused, NewStep
    <3>2. local \in Held' /\ local' = [local EXCEPT !.made = @ + 1,
                                        !.responses = @ \cup {Len(steps) + 1}]
      BY <1>2, <2>2 DEF CallRefused, Result
    <3> QED
      BY <3>1, <3>2, Heard
  <2>5. Others' /\ Placed'
    <3>1. Len(steps) + 1 \in DOMAIN steps'
      BY <1>2 DEF CallRefused, NewStep
    <3>2. Others'
      <4>1. rows' \in Nat
        BY <1>2 DEF CallRefused, Others
      <4> QED
        BY <1>2, <2>1, <3>1, <4>1 DEF CallRefused, Result, Others, Places
    <3>3. Placed'
      BY <1>2 DEF CallRefused, Result, Placed
    <3> QED
      BY <3>2, <3>3
  <2> QED
    BY <1>2, <2>1, <2>2, <2>4, <2>5 DEF CallRefused
<1>3. ASSUME NEW t \in Tools, CallTool(t) PROVE Typed'
  <2>1. steps' \in Seq(Row) /\ DOMAIN steps \subseteq DOMAIN steps'
    <3>1. PICK r \in {"pending", "none"} : steps' = NewStep(t, "running", r)
      BY <1>3 DEF CallTool
    <3>2. [plan |-> run.plan, tool |-> t, status |-> "running", request |-> r,
           acted |-> FALSE] \in Row
      BY <1>3, <3>1 DEF CallTool, Row, StepStatus, Placed, RunRow
    <3> QED
      BY <3>1, <3>2, RowAdded DEF NewStep
  <2>2. Conversation \subseteq Conversation' /\ Held \subseteq Held'
    BY <2>1, NumbersStay
  <2>4. local' \in Held'
    <3>1. Len(steps) + 1 \in DOMAIN steps'
      BY <1>3 DEF CallTool, NewStep
    <3>2. local \in Held' /\ local' = [local EXCEPT !.step = Len(steps) + 1]
      BY <1>3, <2>2 DEF CallTool
    <3> QED
      BY <3>1, <3>2 DEF Held
  <2>5. Others' /\ Placed'
    BY <1>3, <1>p, <2>1 DEF CallTool, Others, Placed, Places, RunRow, Held, ghosts
  <2> QED
    BY <1>3, <2>1, <2>2, <2>4, <2>5 DEF CallTool
<1>4. CASE Suspend
  <2>1. steps' \in Seq(Row) /\ DOMAIN steps \subseteq DOMAIN steps'
    BY <1>4, <1>p, StepSet DEF Suspend, StepStatus
  <2>2. Conversation \subseteq Conversation' /\ Held \subseteq Held'
    BY <2>1, NumbersStay
  <2>3. run' \in RunRow
    BY <1>4 DEF Suspend, SetStatus, RunRow, RunStatus
  <2>4. local' \in Held'
    <3>1. local \in Held' /\ local' = [local EXCEPT !.outcome = "approval"]
      BY <1>4, <2>2 DEF Suspend
    <3> QED
      BY <3>1 DEF Held
  <2>5. Others' /\ Placed'
    BY <1>4, <1>p, <2>1 DEF Suspend, SetStatus, Others, Placed, Places, RunRow, Held, ghosts
  <2> QED
    BY <1>4, <2>1, <2>2, <2>3, <2>4, <2>5 DEF Suspend
<1>5. CASE AskFails
  <2>1. steps' \in Seq(Row) /\ DOMAIN steps \subseteq DOMAIN steps'
    BY <1>5, <1>p, RequestVoided DEF AskFails
  <2>2. Conversation \subseteq Conversation' /\ Held \subseteq Held'
    BY <2>1, NumbersStay
  <2>4. local' \in Held'
    <3>1. local \in Held' /\ local' = [local EXCEPT !.outcome = "approval"]
      BY <1>5, <2>2 DEF AskFails
    <3> QED
      BY <3>1 DEF Held
  <2>5. Others' /\ Placed'
    BY <1>5, <1>p, <2>1 DEF AskFails, Others, Placed, Places, RunRow, Held, ghosts
  <2> QED
    BY <1>5, <2>1, <2>2, <2>4, <2>5 DEF AskFails
<1>6. CASE Act
  <2>1. steps' \in Seq(Row) /\ DOMAIN steps \subseteq DOMAIN steps'
    BY <1>6, <1>p, ActedSet DEF Act
  <2>2. Conversation \subseteq Conversation' /\ Held \subseteq Held'
    BY <2>1, NumbersStay
  <2>5. Others' /\ Placed'
    BY <1>6, <1>p, <2>1 DEF Act, Others, Placed, Places, RunRow, Held, ghosts
  <2> QED
    BY <1>6, <2>1, <2>2, <2>5 DEF Act
<1>7. CASE Record
  <2>1. steps' \in Seq(Row) /\ DOMAIN steps \subseteq DOMAIN steps'
    <3>1. PICK s \in {"succeeded", "failed"} : SetStep(local.step, s)
      BY <1>7 DEF Record
    <3> QED
      BY <1>7, <1>p, <3>1, StepSet DEF Record, StepStatus
  <2>2. Conversation \subseteq Conversation' /\ Held \subseteq Held'
    BY <2>1, NumbersStay
  <2>4. local' \in Held'
    <3>1. local \in Held' /\ local.step \in DOMAIN steps'
          /\ local' = [local EXCEPT !.made = @ + 1, !.responses = @ \cup {local.step}]
      BY <1>7, <1>p, <2>1, <2>2 DEF Record, Result
    <3> QED
      BY <3>1, Heard
  <2>5. Others' /\ Placed'
    BY <1>7, <1>p, <2>1 DEF Record, Result, Others, Placed, Places, RunRow, Held, ghosts
  <2> QED
    BY <1>7, <2>1, <2>2, <2>4, <2>5 DEF Record
<1>8. ASSUME NEW n \in DOMAIN steps, Pick(n) PROVE Typed'
  <2>1. steps' \in Seq(Row) /\ DOMAIN steps \subseteq DOMAIN steps'
    BY <1>8, StepSet DEF Pick, StepStatus
  <2>2. Conversation \subseteq Conversation' /\ Held \subseteq Held'
    BY <2>1, NumbersStay
  <2>4. local' \in Held'
    <3>1. local \in Held' /\ n \in DOMAIN steps'
      BY <2>1, <2>2
    <3>2. \/ local' = [local EXCEPT !.step = n]
          \/ local' = [local EXCEPT !.unblocked = FALSE]
      BY <1>8 DEF Pick
    <3> QED
      BY <3>1, <3>2 DEF Held
  <2>5. Others' /\ Placed'
    <3>1. n # 0
      OBVIOUS
    <3>2. pc' \in {"gate", "verify"} /\ (pc' = "gate" => local'.step = n)
      BY <1>8 DEF Pick, Held
    <3>3. rows' \in Nat
      BY <1>8 DEF Pick, Others
    <3> QED
      BY <1>8, <2>1, <3>1, <3>2, <3>3 DEF Pick, Others, Placed, Places, ghosts
  <2> QED
    BY <1>8, <2>1, <2>2, <2>4, <2>5 DEF Pick
<1>9. CASE Gate
  <2>1. steps' \in Seq(Row) /\ DOMAIN steps \subseteq DOMAIN steps'
    <3>1. CASE steps' = [steps EXCEPT ![local.step].acted = FALSE]
      BY <1>9, <1>p, <3>1, ActedSet DEF Gate
    <3>2. CASE steps' = [steps EXCEPT ![local.step].request = "pending"]
      BY <1>9, <1>p, <3>2, RequestSet DEF Gate, Requests
    <3>3. CASE SetStep(local.step, "blocked")
      BY <1>9, <1>p, <3>3, StepSet DEF Gate, StepStatus
    <3> QED
      BY <1>9, <3>1, <3>2, <3>3 DEF Gate
  <2>2. Conversation \subseteq Conversation' /\ Held \subseteq Held'
    BY <2>1, NumbersStay
  <2>3. run' \in RunRow
    <3>1. run' = run \/ run' = [run EXCEPT !.status = "blocked"]
      BY <1>9 DEF Gate, SetStatus
    <3> QED
      BY <3>1 DEF RunRow, RunStatus
  <2>4. local' \in Held'
    <3>1. local' = local \/ local' = Idle
      BY <1>9 DEF Gate, Leave
    <3> QED
      BY <1>0, <2>2, <3>1
  <2>5. Others' /\ Placed'
    BY <1>9, <1>p, <2>1 DEF Gate, SetStatus, Leave, Others, Placed, Places, RunRow, Held, ghosts
  <2> QED
    BY <1>9, <2>1, <2>2, <2>3, <2>4, <2>5 DEF Gate
<1>10. CASE Regate
  <2>1. steps' \in Seq(Row) /\ DOMAIN steps \subseteq DOMAIN steps'
    <3>1. CASE SetStep(local.step, "blocked")
      BY <1>10, <1>p, <3>1, StepSet DEF Regate, StepStatus
    <3>2. CASE VoidStep(local.step)
      BY <1>10, <1>p, <3>2, RequestVoided DEF Regate
    <3> QED
      BY <1>10, <3>1, <3>2 DEF Regate
  <2>2. Conversation \subseteq Conversation' /\ Held \subseteq Held'
    BY <2>1, NumbersStay
  <2>3. run' \in RunRow
    BY <1>10 DEF Regate, SetStatus, RunRow, RunStatus
  <2>4. local' \in Held'
    BY <1>0, <1>10 DEF Regate, Leave
  <2>5. Others' /\ Placed'
    BY <1>10, <1>p, <2>1
       DEF Regate, SetStatus, Leave, Others, Placed, Places, RunRow, Held, ghosts
  <2> QED
    BY <1>10, <2>1, <2>2, <2>3, <2>4, <2>5 DEF Regate
<1>11. CASE Redo
  <2>1. steps' \in Seq(Row) /\ DOMAIN steps \subseteq DOMAIN steps'
    BY <1>11, <1>p, StepSet DEF Redo, StepStatus
  <2>2. Conversation \subseteq Conversation' /\ Held \subseteq Held'
    BY <2>1, NumbersStay
  <2>4. local' \in Held'
    <3>1. \/ local' = [local EXCEPT !.step = 0]
          \/ local' = [local EXCEPT !.step = 0, !.unblocked = FALSE]
      BY <1>11 DEF Redo
    <3> QED
      BY <2>2, <3>1 DEF Held
  <2>5. Others' /\ Placed'
    BY <1>11, <1>p, <2>1 DEF Redo, Others, Placed, Places, RunRow, Held, ghosts
  <2> QED
    BY <1>11, <2>1, <2>2, <2>4, <2>5 DEF Redo
<1>12. CASE ResetFailed
  <2>1. steps' \in Seq(Row) /\ DOMAIN steps \subseteq DOMAIN steps'
    <3> DEFINE N == {n \in StepsOf(run.plan) : steps[n].status = "failed"}
    <3>1. steps' = [n \in DOMAIN steps |->
            IF n \in N THEN [steps[n] EXCEPT !.status = "pending"] ELSE steps[n]]
      BY <1>12 DEF ResetFailed
    <3> HIDE DEF N
    <3> QED
      BY <3>1, StepsReset
  <2>2. Conversation \subseteq Conversation' /\ Held \subseteq Held'
    BY <2>1, NumbersStay
  <2>3. run' \in RunRow
    <3>1. \E s \in {"queued", "failed"} : run' = [run EXCEPT !.status = s]
      BY <1>12 DEF ResetFailed, Requeue, SetStatus
    <3> QED
      BY <3>1 DEF RunRow, RunStatus
  <2>4. local' \in Held'
    BY <1>0, <1>12 DEF ResetFailed, Leave
  <2>5. Others' /\ Placed'
    BY <1>12, <1>p, <2>1
       DEF ResetFailed, Requeue, SetStatus, Leave, Others, Placed, Places, RunRow, Held, ghosts
  <2> QED
    BY <1>12, <2>1, <2>2, <2>3, <2>4, <2>5 DEF ResetFailed
<1>13. ASSUME NEW n \in DOMAIN steps, Approve(n) PROVE Typed'
  <2>1. steps' \in Seq(Row) /\ DOMAIN steps \subseteq DOMAIN steps'
    BY <1>13, RequestSet DEF Approve, Answer, Requests
  <2>2. Conversation \subseteq Conversation' /\ Held \subseteq Held'
    BY <2>1, NumbersStay
  <2>3. run' \in RunRow
    BY <1>13 DEF Approve, SetStatus, RunRow, RunStatus
  <2>5. Others' /\ Placed'
    BY <1>13, <1>p, <2>1
       DEF Approve, Answer, SetStatus, Others, Placed, Places, RunRow, Held, ghosts
  <2> QED
    BY <1>13, <2>1, <2>2, <2>3, <2>5 DEF Approve
<1>14. ASSUME NEW n \in DOMAIN steps, Refuse(n) PROVE Typed'
  <2>1. steps' \in Seq(Row) /\ DOMAIN steps \subseteq DOMAIN steps'
    BY <1>14, RequestSet DEF Refuse, Answer, Requests
  <2>2. Conversation \subseteq Conversation' /\ Held \subseteq Held'
    BY <2>1, NumbersStay
  <2>3. run' \in RunRow
    BY <1>14 DEF Refuse, SetStatus, RunRow, RunStatus
  <2>5. Others' /\ Placed'
    BY <1>14, <1>p, <2>1
       DEF Refuse, Answer, SetStatus, Others, Placed, Places, RunRow, Held, ghosts
  <2> QED
    BY <1>14, <2>1, <2>2, <2>3, <2>5 DEF Refuse
<1>15. CASE Unblock
  <2>1. steps' \in Seq(Row) /\ DOMAIN steps \subseteq DOMAIN steps'
    <3> DEFINE N == {n \in StepsOf(task) : steps[n].status = "blocked"}
    <3>1. steps' = [n \in DOMAIN steps |->
            IF n \in N THEN [steps[n] EXCEPT !.status = "pending"] ELSE steps[n]]
      BY <1>15 DEF Unblock
    <3> HIDE DEF N
    <3> QED
      BY <3>1, StepsReset
  <2>2. Conversation \subseteq Conversation' /\ Held \subseteq Held'
    BY <2>1, NumbersStay
  <2>5. Others' /\ Placed'
    BY <1>15, <1>p, <2>1 DEF Unblock, Others, Placed, Places, RunRow, Held, ghosts
  <2> QED
    BY <1>15, <2>1, <2>2, <2>5 DEF Unblock
<1> QED
  BY <1>1, <1>2, <1>3, <1>4, <1>5, <1>6, <1>7, <1>8, <1>9, <1>10, <1>11, <1>12, <1>13,
     <1>14, <1>15

(* Every step keeps the types.                                             *)
LEMMA TypedStep == Typed /\ [Next]_vars => Typed'
<1> SUFFICES ASSUME Typed, [Next]_vars PROVE Typed'
  OBVIOUS
<1>1. CASE UNCHANGED vars
  BY <1>1 DEF vars, rowVars, ghosts, Typed, RunRow, Conversation, Held, Others, Placed, Places
<1>2. CASE Work
  BY <1>2, TypedAside, TypedTable DEF Work, Claim, GiveUp, StartIteration, EnterLoop,
     AskModel, FinalAnswer, EmptyAnswer, EndLoop, StopCalls, Push, ResumePlan, StepsDone,
     Succeed, RetrySteps, Replan, TimeOut, Throw, rowVars
<1>3. CASE (\E n \in DOMAIN steps : Approve(n) \/ Refuse(n)) \/ Unblock
  BY <1>3, TypedTable
<1>4. CASE RecoverStaleClaims \/ Crash
  BY <1>4, TypedAside DEF RecoverStaleClaims, Crash, rowVars
<1> QED
  BY <1>1, <1>2, <1>3, <1>4 DEF Next

(* So every variable has its type, by variable.                            *)
LEMMA AlwaysTyped == Spec => []Typed
  BY TypedInit, TypedStep, PTL DEF Spec

(* Every variable keeps its type, whatever fails. *)
THEOREM LoopTyped == Spec => []TypeOK
  BY AlwaysTyped, TypedIsTypeOK, PTL

-----------------------------------------------------------------------------
(* The conversation                                                        *)

InTurn == {"call", "asking", "acting", "push"}

(* What the loop saw is in the persisted conversation, in the turn at hand *)
(* or lost with a worker; inside the loop the conversation in memory is    *)
(* ahead of the persisted one.                                             *)
Kept ==
  /\ UserTurnLast
  /\ messages.last = "none" => messages.heard = {}
  /\ observed \subseteq messages.heard \cup dropped \cup local.responses
  /\ pc \notin InTurn => local.responses = {}
  /\ pc \in InTurn \cup {"ask"} => messages.heard \subseteq local.contents.heard

(* At first there is no conversation, and nothing was heard.               *)
LEMMA KeptInit == Init => Kept
  BY DEF Init, Kept, UserTurnLast, InTurn, Idle, Empty

(* Inside a turn, the conversation and what was heard in it only grow. *)
LEMMA KeptInLoop ==
  ASSUME Typed, Kept,
         \/ EnterLoop \/ AskModel \/ FinalAnswer \/ EmptyAnswer \/ EndLoop \/ StopCalls
         \/ (\E t \in Tools : CallRefused(t) \/ CallTool(t))
         \/ Suspend \/ AskFails \/ Act \/ Record \/ Push
  PROVE  Kept'
<1> USE DEF Kept, UserTurnLast, InTurn, rowVars, ghosts
<1>t. local \in Held /\ messages \in Conversation
  BY DEF Typed
<1>1. CASE EnterLoop
  <2>1. /\ Reload(messages).last = "user" /\ messages.heard \subseteq Reload(messages).heard
    BY <1>t DEF Reload, Fresh, Conversation
  <2>2. local' = [local EXCEPT !.contents = Reload(messages), !.made = CallsMade]
    BY <1>1 DEF EnterLoop
  <2>3. local'.contents = Reload(messages) /\ local'.responses = local.responses
    BY <1>t, <2>2 DEF Held
  <2> QED
    BY <1>1, <2>1, <2>3 DEF EnterLoop
<1>2. CASE AskModel
  BY <1>t, <1>2 DEF AskModel, Held
<1>3. CASE FinalAnswer
  <2>1. messages'.last = "model" /\ messages'.heard = local.contents.heard
    BY <1>t, <1>3 DEF FinalAnswer, Held, Conversation
  <2> QED
    BY <1>3, <2>1 DEF FinalAnswer
<1>4. CASE EmptyAnswer
  BY <1>4 DEF EmptyAnswer
<1>5. CASE EndLoop
  BY <1>5 DEF EndLoop, Leave, Idle
<1>6. CASE StopCalls
  BY <1>t, <1>6 DEF StopCalls, Held
<1>7. ASSUME NEW t \in Tools, CallRefused(t) PROVE Kept'
  <2>1. local'.contents = local.contents
        /\ local'.responses = local.responses \cup {Len(steps) + 1}
    BY <1>t, <1>7 DEF CallRefused, Result, Held
  <2> QED
    BY <1>7, <2>1 DEF CallRefused, Result
<1>8. ASSUME NEW t \in Tools, CallTool(t) PROVE Kept'
  BY <1>t, <1>8 DEF CallTool, Held
<1>9. CASE Suspend \/ AskFails
  BY <1>t, <1>9 DEF Suspend, AskFails, Held
<1>10. CASE Act
  BY <1>10 DEF Act
<1>11. CASE Record
  <2>1. local'.contents = local.contents
        /\ local'.responses = local.responses \cup {local.step}
    BY <1>t, <1>11 DEF Record, Result, Held
  <2> QED
    BY <1>11, <2>1 DEF Record, Result
<1>12. CASE Push
  <2>1. messages'.last = "user"
        /\ messages'.heard = local.contents.heard \cup local.responses
    BY <1>12 DEF Push, WithTurn
  <2>2. \/ pc' = "ask" /\ local'.contents = WithTurn /\ local'.responses = {}
        \/ Leave
    BY <1>t, <1>12 DEF Push, Held
  <2> QED
    BY <1>12, <2>1, <2>2 DEF Push, WithTurn, Leave, Idle
<1> QED
  BY <1>1, <1>2, <1>3, <1>4, <1>5, <1>6, <1>7, <1>8, <1>9, <1>10, <1>11, <1>12

(* Outside the loop nothing has been heard that is not kept. *)
LEMMA KeptOutside ==
  ASSUME Typed, Kept,
         \/ Claim \/ GiveUp \/ StartIteration \/ RecordAnswer \/ ResumePlan
         \/ (\E n \in DOMAIN steps : Pick(n)) \/ Gate \/ Regate \/ Redo \/ StepsDone
         \/ Succeed \/ RetrySteps \/ ResetFailed \/ Replan \/ TimeOut
  PROVE  Kept'
<1>1. local \in Held
  BY DEF Typed
<1>2. UNCHANGED <<messages, observed, dropped>>
  BY DEF Claim, GiveUp, StartIteration, RecordAnswer, ResumePlan, Pick, Gate, Regate, Redo,
     StepsDone, Succeed, RetrySteps, ResetFailed, Replan, TimeOut, rowVars, ghosts
<1>3. pc \notin InTurn \cup {"ask"} /\ pc' \notin InTurn \cup {"ask"}
  BY DEF Claim, GiveUp, StartIteration, RecordAnswer, ResumePlan, Pick, Gate, Regate, Redo,
     StepsDone, Succeed, RetrySteps, ResetFailed, Replan, TimeOut, Leave, InTurn
<1>4. local'.responses \in {local.responses, {}}
  <2>1. CASE Claim \/ StartIteration \/ RecordAnswer \/ ResumePlan \/ StepsDone \/ RetrySteps
    BY <2>1 DEF Claim, StartIteration, RecordAnswer, ResumePlan, StepsDone, RetrySteps
  <2>2. CASE GiveUp \/ Regate \/ Succeed \/ ResetFailed \/ Replan \/ TimeOut
    BY <2>2 DEF GiveUp, Regate, Succeed, ResetFailed, Replan, TimeOut, Leave, Idle
  <2>3. CASE Gate
    BY <2>3 DEF Gate, Leave, Idle
  <2>4. CASE (\E n \in DOMAIN steps : Pick(n)) \/ Redo
    <3>1. \/ \E n \in DOMAIN steps : local' = [local EXCEPT !.step = n]
          \/ local' = [local EXCEPT !.unblocked = FALSE]
          \/ local' = [local EXCEPT !.step = 0]
          \/ local' = [local EXCEPT !.step = 0, !.unblocked = FALSE]
      BY <2>4 DEF Pick, Redo
    <3> QED
      BY <1>1, <3>1 DEF Held
  <2> QED
    BY <2>1, <2>2, <2>3, <2>4
<1> QED
  BY <1>2, <1>3, <1>4 DEF Kept, UserTurnLast, InTurn

(* Every step keeps what was heard in the conversation.                    *)
LEMMA KeptStep == Typed /\ Kept /\ [Next]_vars => Kept'
<1> SUFFICES ASSUME Typed, Kept, [Next]_vars PROVE Kept'
  OBVIOUS
<1>1. CASE UNCHANGED vars
  BY <1>1 DEF vars, rowVars, ghosts, Kept, UserTurnLast
<1>2. CASE Throw \/ Crash
  BY <1>2 DEF Throw, Crash, Leave, Idle, Kept, UserTurnLast, InTurn, rowVars
<1>3. CASE Work
  BY <1>2, <1>3, KeptInLoop, KeptOutside DEF Work
<1>4. CASE (\E n \in DOMAIN steps : Approve(n) \/ Refuse(n)) \/ Unblock \/ RecoverStaleClaims
  BY <1>4 DEF Approve, Refuse, Unblock, RecoverStaleClaims, Kept, UserTurnLast, ghosts
<1> QED
  BY <1>1, <1>2, <1>3, <1>4 DEF Next

(* So the conversation is always complete.                                 *)
LEMMA AlwaysKept == Spec => []Kept
  BY AlwaysTyped, KeptInit, KeptStep, PTL DEF Spec

(* Whatever ended the last invocation, the model is only asked with a user *)
(* turn last.                                                              *)
THEOREM AskedWithUserTurn == Spec => []UserTurnLast
<1>1. Kept => UserTurnLast
  BY DEF Kept
<1> QED
  BY <1>1, AlwaysKept, PTL

(* What the loop has seen is in the persisted conversation whenever no     *)
(* worker is active, but for the turns a crash or an error took.           *)
THEOREM NothingForgotten == Spec => []ConversationKept
<1>1. Kept => ConversationKept
  BY DEF Kept, ConversationKept, InTurn
<1> QED
  BY <1>1, AlwaysKept, PTL

-----------------------------------------------------------------------------
(* Authority                                                               *)

(* What does not change about a row when its status does. *)
Alike(n) ==
  /\ steps'[n].tool = steps[n].tool
  /\ steps'[n].request = steps[n].request
  /\ steps'[n].acted = steps[n].acted

(* A step that only sets one status leaves tools, requests and effects alone.*)
LEMMA StatusOnly ==
  ASSUME steps \in Seq(Row), NEW n \in DOMAIN steps, NEW s \in StepStatus, SetStep(n, s)
  PROVE  DOMAIN steps' = DOMAIN steps /\ \A m \in DOMAIN steps : Alike(m)
<1>1. steps[n] \in Row
  OBVIOUS
<1>2. /\ DOMAIN steps' = DOMAIN steps
      /\ steps'[n] = [steps[n] EXCEPT !.status = s]
      /\ \A m \in DOMAIN steps \ {n} : steps'[m] = steps[m]
  BY StepSet
<1>3. Alike(n)
  BY <1>1, <1>2 DEF Alike, Row
<1> QED
  BY <1>2, <1>3 DEF Alike

(* So does a reset of any set of rows to pending.                          *)
LEMMA ResetOnly ==
  ASSUME steps \in Seq(Row), NEW N,
         steps' = [n \in DOMAIN steps |->
           IF n \in N THEN [steps[n] EXCEPT !.status = "pending"] ELSE steps[n]]
  PROVE  DOMAIN steps' = DOMAIN steps /\ \A m \in DOMAIN steps : Alike(m)
<1>1. DOMAIN steps' = DOMAIN steps
      /\ \A m \in DOMAIN steps :
           steps'[m] = steps[m] \/ steps'[m] = [steps[m] EXCEPT !.status = "pending"]
  BY StepsReset
<1>2. ASSUME NEW m \in DOMAIN steps PROVE Alike(m)
  <2>1. steps[m] \in Row
    OBVIOUS
  <2> QED
    BY <1>1, <2>1 DEF Alike, Row
<1> QED
  BY <1>1, <1>2

(* A write that is executed was approved; so was one about to be, and what *)
(* is being asked for has not been done.                                   *)
Authorised ==
  /\ WritesAuthorised
  /\ pc = "acting" => steps[local.step].tool # "write"
  /\ pc = "redo" /\ steps[local.step].tool = "write" => steps[local.step].request = "approved"
  /\ pc \in {"asking", "regate"} => steps[local.step].request = "pending"

(* At first nothing was written.                                           *)
LEMMA AuthorisedInit == Init => Authorised
  BY DEF Init, Authorised, WritesAuthorised

(* Rows are added: nothing has been done for them. *)
LEMMA AuthorisedAdd ==
  ASSUME Typed, Authorised, RecordAnswer \/ (\E t \in Tools : CallRefused(t) \/ CallTool(t))
  PROVE  Authorised'
<1> USE DEF Typed
<1>1. ASSUME NEW t \in Tools \cup {"answer"}, NEW s \in StepStatus, NEW r \in Requests,
             steps' = NewStep(t, s, r), run.plan > 0
      PROVE  /\ WritesAuthorised'
             /\ steps'[Len(steps) + 1].tool = t /\ steps'[Len(steps) + 1].request = r
  <2>1. [plan |-> run.plan, tool |-> t, status |-> s, request |-> r, acted |-> FALSE] \in Row
    BY <1>1 DEF Row, RunRow, Requests
  <2>2. /\ DOMAIN steps' = DOMAIN steps \cup {Len(steps) + 1}
        /\ steps'[Len(steps) + 1] =
             [plan |-> run.plan, tool |-> t, status |-> s, request |-> r, acted |-> FALSE]
        /\ \A n \in DOMAIN steps : steps'[n] = steps[n]
    BY <1>1, <2>1, RowAdded DEF NewStep
  <2> QED
    BY <2>2 DEF Authorised, WritesAuthorised
<1>2. run.plan > 0
  BY DEF Placed, RecordAnswer, CallRefused, CallTool
<1>3. CASE RecordAnswer
  BY <1>1, <1>2, <1>3 DEF RecordAnswer, Authorised, StepStatus, Requests
<1>4. ASSUME NEW t \in Tools, CallRefused(t) PROVE Authorised'
  <2>1. PICK s \in {"failed", "blocked"} : steps' = NewStep(t, s, "none")
    BY <1>4 DEF CallRefused
  <2>2. WritesAuthorised'
    BY <1>1, <1>2, <2>1 DEF StepStatus, Requests
  <2> QED
    BY <1>4, <2>2 DEF CallRefused, Result, Authorised
<1>5. ASSUME NEW t \in Tools, CallTool(t) PROVE Authorised'
  <2>1. PICK r \in Requests : steps' = NewStep(t, "running", r) /\ (t = "write" => r = "pending")
    BY <1>5 DEF CallTool, Requests
  <2>2. /\ WritesAuthorised'
        /\ steps'[Len(steps) + 1].tool = t /\ steps'[Len(steps) + 1].request = r
    BY <1>1, <1>2, <2>1 DEF StepStatus
  <2>3. local'.step = Len(steps) + 1
    BY <1>5 DEF CallTool, Held
  <2> QED
    BY <1>5, <2>1, <2>2, <2>3 DEF CallTool, Authorised
<1> QED
  BY <1>3, <1>4, <1>5

(* The request of a write that was not done may change. *)
LEMMA NotDone ==
  ASSUME WritesAuthorised, NEW n \in DOMAIN steps,
         ~(steps[n].tool = "write" /\ steps[n].acted),
         DOMAIN steps' = DOMAIN steps,
         steps'[n].tool = steps[n].tool /\ steps'[n].acted = steps[n].acted,
         \A m \in DOMAIN steps \ {n} : steps'[m] = steps[m]
  PROVE  WritesAuthorised'
  BY DEF WritesAuthorised

(* Rows change, in their status, or in a way the gate allows. *)
LEMMA AuthorisedChange ==
  ASSUME Typed, Authorised,
         \/ Suspend \/ AskFails \/ Act \/ Record
         \/ (\E n \in DOMAIN steps : Pick(n)) \/ Gate \/ Regate \/ Redo \/ ResetFailed
         \/ (\E n \in DOMAIN steps : Approve(n) \/ Refuse(n)) \/ Unblock
  PROVE  Authorised'
<1> USE DEF Typed
<1>p. pc \in {"asking", "acting", "gate", "regate", "redo"} => local.step \in DOMAIN steps
  BY DEF Placed, Held
<1>r. \A n \in DOMAIN steps : steps[n] \in Row
  OBVIOUS
<1>0. ASSUME DOMAIN steps' = DOMAIN steps, \A m \in DOMAIN steps : Alike(m)
      PROVE  WritesAuthorised'
  BY <1>0 DEF Authorised, WritesAuthorised, Alike
<1>1. CASE Suspend
  <2>1. WritesAuthorised'
    BY <1>0, <1>1, <1>p, StatusOnly DEF Suspend, StepStatus
  <2> QED
    BY <1>1, <2>1 DEF Suspend, Authorised
<1>2. CASE AskFails
  <2>1. ~(steps[local.step].tool = "write" /\ steps[local.step].acted)
    BY <1>2, <1>p DEF AskFails, Authorised, WritesAuthorised
  <2>2. /\ DOMAIN steps' = DOMAIN steps
        /\ steps'[local.step] = [steps[local.step] EXCEPT !.status = "failed", !.request = "failed"]
        /\ \A m \in DOMAIN steps \ {local.step} : steps'[m] = steps[m]
    BY <1>2, <1>p, RequestVoided DEF AskFails
  <2>3. steps'[local.step].tool = steps[local.step].tool
        /\ steps'[local.step].acted = steps[local.step].acted
    BY <1>2, <1>p, <1>r, <2>2 DEF AskFails, Row
  <2>4. WritesAuthorised'
    BY <1>2, <1>p, <2>1, <2>2, <2>3, NotDone DEF AskFails, Authorised
  <2> QED
    BY <1>2, <2>4 DEF AskFails, Authorised
<1>3. CASE Act
  <2>1. /\ DOMAIN steps' = DOMAIN steps
        /\ steps'[local.step] = [steps[local.step] EXCEPT !.acted = TRUE]
        /\ \A m \in DOMAIN steps \ {local.step} : steps'[m] = steps[m]
    BY <1>3, <1>p, ActedSet DEF Act
  <2>2. steps'[local.step].tool = steps[local.step].tool
        /\ steps'[local.step].request = steps[local.step].request
    BY <1>3, <1>p, <1>r, <2>1 DEF Act, Row
  <2> QED
    BY <1>3, <1>p, <2>1, <2>2 DEF Act, Authorised, WritesAuthorised
<1>4. CASE Record
  <2>1. PICK s \in {"succeeded", "failed"} : SetStep(local.step, s)
    BY <1>4 DEF Record
  <2>2. WritesAuthorised'
    BY <1>0, <1>4, <1>p, <2>1, StatusOnly DEF Record, StepStatus
  <2> QED
    BY <1>4, <2>2 DEF Record, Result, Authorised
<1>5. ASSUME NEW n \in DOMAIN steps, Pick(n) PROVE Authorised'
  <2>1. WritesAuthorised'
    BY <1>0, <1>5, StatusOnly DEF Pick, StepStatus
  <2> QED
    BY <1>5, <2>1 DEF Pick, Authorised
<1>6. CASE Gate
  <2>1. CASE /\ steps' = [steps EXCEPT ![local.step].acted = FALSE] /\ pc' = "redo"
             /\ UNCHANGED local
             /\ steps[local.step].tool = "write" => Approved(local.step)
    <3>1. /\ DOMAIN steps' = DOMAIN steps
          /\ steps'[local.step] = [steps[local.step] EXCEPT !.acted = FALSE]
          /\ \A m \in DOMAIN steps \ {local.step} : steps'[m] = steps[m]
      BY <1>6, <1>p, <2>1, ActedSet DEF Gate
    <3>2. steps'[local.step].tool = steps[local.step].tool /\ ~steps'[local.step].acted
          /\ steps'[local.step].request = steps[local.step].request
      BY <1>6, <1>p, <1>r, <3>1 DEF Gate, Row
    <3> QED
      BY <2>1, <3>1, <3>2 DEF Authorised, WritesAuthorised, Approved
  <2>2. CASE /\ steps' = [steps EXCEPT ![local.step].request = "pending"] /\ pc' = "regate"
             /\ UNCHANGED local /\ steps[local.step].tool = "write" /\ ~Approved(local.step)
    <3>1. /\ DOMAIN steps' = DOMAIN steps
          /\ steps'[local.step] = [steps[local.step] EXCEPT !.request = "pending"]
          /\ \A m \in DOMAIN steps \ {local.step} : steps'[m] = steps[m]
      BY <1>6, <1>p, <2>2, RequestSet DEF Gate, Requests
    <3>2. steps'[local.step].acted = steps[local.step].acted
          /\ steps'[local.step].request = "pending"
      BY <1>6, <1>p, <1>r, <3>1 DEF Gate, Row
    <3>3. ~steps[local.step].acted
      BY <1>6, <1>p, <1>r, <2>2 DEF Gate, Row, Authorised, WritesAuthorised, Approved
    <3> QED
      BY <2>2, <3>1, <3>2, <3>3 DEF Authorised, WritesAuthorised
  <2>3. CASE SetStep(local.step, "blocked") /\ Leave
    <3>1. WritesAuthorised'
      BY <1>0, <1>6, <1>p, <2>3, StatusOnly DEF Gate, StepStatus
    <3> QED
      BY <2>3, <3>1 DEF Leave, Authorised
  <2> QED
    BY <1>6, <2>1, <2>2, <2>3 DEF Gate
<1>7. CASE Regate
  <2>1. CASE SetStep(local.step, "blocked")
    <3>1. WritesAuthorised'
      BY <1>0, <1>7, <1>p, <2>1, StatusOnly DEF Regate, StepStatus
    <3> QED
      BY <1>7, <3>1 DEF Regate, Leave, Authorised
  <2>2. CASE VoidStep(local.step)
    <3>1. ~(steps[local.step].tool = "write" /\ steps[local.step].acted)
      BY <1>7, <1>p DEF Regate, Authorised, WritesAuthorised
    <3>2. /\ DOMAIN steps' = DOMAIN steps
          /\ steps'[local.step] = [steps[local.step] EXCEPT !.status = "failed", !.request = "failed"]
          /\ \A m \in DOMAIN steps \ {local.step} : steps'[m] = steps[m]
      BY <1>7, <1>p, <2>2, RequestVoided DEF Regate
    <3>3. steps'[local.step].tool = steps[local.step].tool
          /\ steps'[local.step].acted = steps[local.step].acted
      BY <1>7, <1>p, <1>r, <3>2 DEF Regate, Row
    <3>4. WritesAuthorised'
      BY <1>7, <1>p, <3>1, <3>2, <3>3, NotDone DEF Regate, Authorised
    <3> QED
      BY <1>7, <3>4 DEF Regate, Leave, Authorised
  <2> QED
    BY <1>7, <2>1, <2>2 DEF Regate
<1>8. CASE Redo
  <2>1. PICK s \in {"succeeded", "failed"} : SetStep(local.step, s)
    BY <1>8 DEF Redo
  <2>2. WritesAuthorised'
    BY <1>0, <1>8, <1>p, <2>1, StatusOnly DEF Redo, StepStatus
  <2> QED
    BY <1>8, <2>2 DEF Redo, Authorised
<1>9. CASE ResetFailed
  <2> DEFINE N == {n \in StepsOf(run.plan) : steps[n].status = "failed"}
  <2>1. steps' = [n \in DOMAIN steps |->
          IF n \in N THEN [steps[n] EXCEPT !.status = "pending"] ELSE steps[n]]
    BY <1>9 DEF ResetFailed
  <2> HIDE DEF N
  <2>2. WritesAuthorised'
    BY <1>0, <2>1, ResetOnly
  <2> QED
    BY <1>9, <2>2 DEF ResetFailed, Leave, Authorised
<1>10. CASE Unblock
  <2> DEFINE N == {n \in StepsOf(task) : steps[n].status = "blocked"}
  <2>1. steps' = [n \in DOMAIN steps |->
          IF n \in N THEN [steps[n] EXCEPT !.status = "pending"] ELSE steps[n]]
    BY <1>10 DEF Unblock
  <2> HIDE DEF N
  <2>2. DOMAIN steps' = DOMAIN steps /\ \A m \in DOMAIN steps : Alike(m)
    BY <2>1, ResetOnly
  <2> QED
    BY <1>0, <1>10, <1>p, <2>2 DEF Unblock, Authorised, Alike
<1>11. ASSUME NEW n \in DOMAIN steps, Approve(n) \/ Refuse(n) PROVE Authorised'
  <2>1. PICK r \in {"approved", "rejected"} : steps' = [steps EXCEPT ![n].request = r]
    BY <1>11 DEF Approve, Refuse, Answer
  <2>2. /\ DOMAIN steps' = DOMAIN steps
        /\ steps'[n] = [steps[n] EXCEPT !.request = r]
        /\ \A m \in DOMAIN steps \ {n} : steps'[m] = steps[m]
    BY <2>1, RequestSet DEF Requests
  <2>3. steps'[n].tool = steps[n].tool /\ steps'[n].acted = steps[n].acted
    BY <1>r, <2>2 DEF Row
  <2>4. ~(steps[n].tool = "write" /\ steps[n].acted)
    BY <1>11 DEF Approve, Refuse, Answer, Authorised, WritesAuthorised
  <2>5. pc' = "idle"
    BY <1>11 DEF Approve, Refuse, Answer
  <2> QED
    BY <2>2, <2>3, <2>4, <2>5 DEF Authorised, WritesAuthorised
<1> QED
  BY <1>1, <1>2, <1>3, <1>4, <1>5, <1>6, <1>7, <1>8, <1>9, <1>10, <1>11

(* Every step keeps each write authorised.                                 *)
LEMMA AuthorisedStep == Typed /\ Authorised /\ [Next]_vars => Authorised'
<1> SUFFICES ASSUME Typed, Authorised, [Next]_vars PROVE Authorised'
  OBVIOUS
<1>1. CASE UNCHANGED vars
  BY <1>1 DEF vars, rowVars, Authorised, WritesAuthorised
<1>2. CASE Claim \/ GiveUp \/ StartIteration \/ EnterLoop \/ AskModel \/ FinalAnswer
           \/ EmptyAnswer \/ EndLoop \/ StopCalls \/ Push \/ ResumePlan \/ StepsDone
           \/ Succeed \/ RetrySteps \/ Replan \/ TimeOut \/ Throw
           \/ RecoverStaleClaims \/ Crash
  <2>1. UNCHANGED steps
    BY <1>2 DEF Claim, GiveUp, StartIteration, EnterLoop, AskModel, FinalAnswer, EmptyAnswer,
       EndLoop, StopCalls, Push, ResumePlan, StepsDone, Succeed, RetrySteps, Replan, TimeOut,
       Throw, RecoverStaleClaims, Crash, rowVars
  <2>2. pc' \notin {"asking", "acting", "regate", "redo"}
    <3>1. CASE Push
      <4>1. local.outcome \in {"none", "capped", "clock", "approval"}
        BY DEF Typed, Held
      <4> QED
        BY <3>1, <4>1 DEF Push, Leave
    <3> QED
      BY <1>2, <3>1 DEF Claim, GiveUp, StartIteration, EnterLoop, AskModel, FinalAnswer,
         EmptyAnswer, EndLoop, StopCalls, ResumePlan, StepsDone, Succeed, RetrySteps, Replan,
         TimeOut, Throw, RecoverStaleClaims, Crash, Leave
  <2> QED
    BY <2>1, <2>2 DEF Authorised, WritesAuthorised
<1> QED
  BY <1>1, <1>2, AuthorisedAdd, AuthorisedChange DEF Next, Work

(* Whichever invocation executes it, a write was approved by a human. *)
THEOREM LoopWritesAuthorised == Spec => []WritesAuthorised
<1>1. Authorised => WritesAuthorised
  BY DEF Authorised
<1> QED
  BY <1>1, AlwaysTyped, AuthorisedInit, AuthorisedStep, PTL DEF Spec

-----------------------------------------------------------------------------
(* The budget                                                              *)

(* The steps that made a tool call in the loop. *)
Calls == {n \in DOMAIN steps : steps[n].tool \notin {"unknown", "answer"}}

(* Every call has a row, the calls are within the cap, and the worker has  *)
(* counted all but the one at hand.                                        *)
Counted ==
  /\ Cardinality(Calls) <= rows
  /\ ToolBudget
  /\ pc \in {"ask", "call"} => Cardinality(Calls) <= local.made
  /\ pc \in {"asking", "acting"} => Cardinality(Calls) <= local.made + 1
  /\ pc = "push" /\ local.outcome = "none" => Cardinality(Calls) <= local.made

(* The calls of a plan are finite in number.                               *)
LEMMA CallsFinite ==
  ASSUME steps \in Seq(Row)
  PROVE  IsFiniteSet(Calls) /\ Cardinality(Calls) \in Nat
<1>1. IsFiniteSet(1..Len(steps))
  BY FS_Interval
<1>2. Calls \subseteq 1..Len(steps)
  BY DEF Calls
<1> QED
  BY <1>1, <1>2, FS_Subset, FS_CardinalityType

(* At first no call was made.                                              *)
LEMMA CountedInit == Init => Counted
<1> SUFFICES ASSUME Init PROVE Counted
  OBVIOUS
<1>1. Calls = {}
  BY DEF Init, Calls
<1>2. Cardinality(Calls) = 0
  BY <1>1, FS_EmptySet
<1> QED
  BY <1>2, LoopAssumption DEF Init, Counted, ToolBudget, Calls

(* A new row is one call more, or none. *)
LEMMA OneMore ==
  ASSUME Typed, NEW t \in Tools \cup {"answer"}, NEW s \in StepStatus, NEW r \in Requests,
         steps' = NewStep(t, s, r), run.plan > 0
  PROVE  Cardinality(Calls)' = Cardinality(Calls) + IF t \in {"unknown", "answer"} THEN 0 ELSE 1
<1> USE DEF Typed
<1>1. [plan |-> run.plan, tool |-> t, status |-> s, request |-> r, acted |-> FALSE] \in Row
  BY DEF Row, RunRow, Requests
<1>2. /\ DOMAIN steps' = DOMAIN steps \cup {Len(steps) + 1}
      /\ Len(steps) + 1 \notin DOMAIN steps
      /\ steps'[Len(steps) + 1].tool = t
      /\ \A n \in DOMAIN steps : steps'[n] = steps[n]
  BY <1>1, RowAdded DEF NewStep
<1>3. CASE t \in {"unknown", "answer"}
  <2>1. Calls' = Calls
    BY <1>2, <1>3 DEF Calls
  <2> QED
    BY <1>3, <2>1, CallsFinite
<1>4. CASE t \notin {"unknown", "answer"}
  <2>1. Calls' = Calls \cup {Len(steps) + 1} /\ Len(steps) + 1 \notin Calls
    BY <1>2, <1>4 DEF Calls
  <2> QED
    BY <1>4, <2>1, CallsFinite, FS_AddElement
<1> QED
  BY <1>3, <1>4

(* The same rows are the same calls. *)
LEMMA SameCalls ==
  ASSUME DOMAIN steps' = DOMAIN steps,
         \A n \in DOMAIN steps : steps'[n].tool = steps[n].tool
  PROVE  Calls' = Calls
  BY DEF Calls

(* Which rows are calls does not depend on their status, request or effect.*)
LEMMA CallsChange ==
  ASSUME Typed,
         \/ Suspend \/ AskFails \/ Act \/ Record
         \/ (\E n \in DOMAIN steps : Pick(n)) \/ Gate \/ Regate \/ Redo \/ ResetFailed
         \/ (\E n \in DOMAIN steps : Approve(n) \/ Refuse(n)) \/ Unblock
  PROVE  Calls' = Calls
<1> USE DEF Typed
<1>p. pc \in {"asking", "acting", "gate", "regate", "redo"} => local.step \in DOMAIN steps
  BY DEF Placed, Held
<1>1. ASSUME NEW n \in DOMAIN steps, NEW s \in StepStatus, SetStep(n, s) PROVE Calls' = Calls
  BY <1>1, StatusOnly, SameCalls DEF Alike
<1>2. ASSUME NEW n \in DOMAIN steps, VoidStep(n) PROVE Calls' = Calls
  <2>1. steps[n] \in Row
    OBVIOUS
  <2>2. /\ DOMAIN steps' = DOMAIN steps
        /\ steps'[n] = [steps[n] EXCEPT !.status = "failed", !.request = "failed"]
        /\ \A m \in DOMAIN steps \ {n} : steps'[m] = steps[m]
    BY <1>2, RequestVoided
  <2>3. steps'[n].tool = steps[n].tool
    BY <2>1, <2>2 DEF Row
  <2> QED
    BY <2>2, <2>3, SameCalls
<1>3. ASSUME NEW n \in DOMAIN steps, NEW r \in Requests,
             steps' = [steps EXCEPT ![n].request = r]
      PROVE  Calls' = Calls
  <2>1. steps[n] \in Row
    OBVIOUS
  <2>2. /\ DOMAIN steps' = DOMAIN steps
        /\ steps'[n] = [steps[n] EXCEPT !.request = r]
        /\ \A m \in DOMAIN steps \ {n} : steps'[m] = steps[m]
    BY <1>3, RequestSet
  <2>3. steps'[n].tool = steps[n].tool
    BY <2>1, <2>2 DEF Row
  <2> QED
    BY <2>2, <2>3, SameCalls
<1>4. ASSUME NEW n \in DOMAIN steps, NEW b \in BOOLEAN,
             steps' = [steps EXCEPT ![n].acted = b]
      PROVE  Calls' = Calls
  <2>1. steps[n] \in Row
    OBVIOUS
  <2>2. /\ DOMAIN steps' = DOMAIN steps
        /\ steps'[n] = [steps[n] EXCEPT !.acted = b]
        /\ \A m \in DOMAIN steps \ {n} : steps'[m] = steps[m]
    BY <1>4, ActedSet
  <2>3. steps'[n].tool = steps[n].tool
    BY <2>1, <2>2 DEF Row
  <2> QED
    BY <2>2, <2>3, SameCalls
<1>5. ASSUME NEW N, steps' = [n \in DOMAIN steps |->
               IF n \in N THEN [steps[n] EXCEPT !.status = "pending"] ELSE steps[n]]
      PROVE  Calls' = Calls
  BY <1>5, ResetOnly, SameCalls DEF Alike
<1>6. CASE Suspend \/ AskFails \/ Act
  BY <1>1, <1>2, <1>4, <1>6, <1>p DEF Suspend, AskFails, Act, StepStatus
<1>7. CASE Record
  <2>1. \E s \in StepStatus : SetStep(local.step, s)
    BY <1>7 DEF Record, StepStatus
  <2> QED
    BY <1>1, <1>7, <1>p, <2>1 DEF Record
<1>8. ASSUME NEW n \in DOMAIN steps, Pick(n) PROVE Calls' = Calls
  BY <1>1, <1>8 DEF Pick, StepStatus
<1>9. CASE Gate
  BY <1>1, <1>3, <1>4, <1>9, <1>p DEF Gate, StepStatus, Requests
<1>10. CASE Regate \/ Redo
  BY <1>1, <1>2, <1>10, <1>p DEF Regate, Redo, StepStatus
<1>11. CASE ResetFailed
  <2> DEFINE N == {n \in StepsOf(run.plan) : steps[n].status = "failed"}
  <2>1. steps' = [n \in DOMAIN steps |->
          IF n \in N THEN [steps[n] EXCEPT !.status = "pending"] ELSE steps[n]]
    BY <1>11 DEF ResetFailed
  <2> HIDE DEF N
  <2> QED
    BY <1>5, <2>1
<1>12. CASE Unblock
  <2> DEFINE N == {n \in StepsOf(task) : steps[n].status = "blocked"}
  <2>1. steps' = [n \in DOMAIN steps |->
          IF n \in N THEN [steps[n] EXCEPT !.status = "pending"] ELSE steps[n]]
    BY <1>12 DEF Unblock
  <2> HIDE DEF N
  <2> QED
    BY <1>5, <2>1
<1>13. ASSUME NEW n \in DOMAIN steps, Approve(n) \/ Refuse(n) PROVE Calls' = Calls
  BY <1>3, <1>13 DEF Approve, Refuse, Answer, Requests
<1> QED
  BY <1>6, <1>7, <1>8, <1>9, <1>10, <1>11, <1>12, <1>13

(* Every step keeps the count within the cap.                              *)
LEMMA CountedStep == Typed /\ Counted /\ [Next]_vars => Counted'
<1> SUFFICES ASSUME Typed, Counted, [Next]_vars PROVE Counted'
  OBVIOUS
<1> DEFINE card == Cardinality(Calls)
<1>b. ToolBudget <=> card <= MaxToolCalls
  BY DEF ToolBudget, Calls
<1>b2. ToolBudget' <=> card' <= MaxToolCalls
  BY DEF ToolBudget, Calls
<1>t. /\ card \in Nat /\ rows \in Nat /\ local \in Held /\ MaxToolCalls \in Nat
      /\ run \in RunRow
  BY CallsFinite, LoopAssumption DEF Typed, Others
<1>m. local.made \in Nat /\ local.outcome \in {"none", "capped", "clock", "approval"}
  BY <1>t DEF Held
<1>a. Calls' = Calls => card' = card
  OBVIOUS
<1> HIDE DEF card
<1> DEFINE Inv(c, r) == /\ c <= r /\ c <= MaxToolCalls
                        /\ pc' \in {"ask", "call"} => c <= local'.made
                        /\ pc' \in {"asking", "acting"} => c <= local'.made + 1
                        /\ pc' = "push" /\ local'.outcome = "none" => c <= local'.made
<1>c. Counted' <=> Inv(card', rows')
  BY <1>b2 DEF Counted, card
<1>d. /\ card <= rows /\ card <= MaxToolCalls
      /\ pc \in {"ask", "call"} => card <= local.made
      /\ pc \in {"asking", "acting"} => card <= local.made + 1
      /\ pc = "push" /\ local.outcome = "none" => card <= local.made
  BY <1>b DEF Counted, card
<1>1. CASE UNCHANGED vars
  <2>1. Calls' = Calls
    BY <1>1 DEF vars, rowVars, Calls
  <2> QED
    BY <1>1, <1>a, <1>c, <1>d, <2>1 DEF vars, rowVars
<1>2. CASE RecordAnswer
  <2>1. card' = card
    <3>1. run.plan > 0 /\ steps' = NewStep("answer", "succeeded", "none")
      BY <1>2 DEF RecordAnswer, Typed, Placed
    <3> QED
      BY <1>t, <3>1, OneMore DEF StepStatus, Requests, card
  <2> QED
    BY <1>2, <1>c, <1>d, <2>1 DEF RecordAnswer
<1>3. ASSUME NEW t \in Tools, CallRefused(t) PROVE Counted'
  <2>1. PICK s \in {"failed", "blocked"} : steps' = NewStep(t, s, "none")
    BY <1>3 DEF CallRefused
  <2>2. card' = card + IF t = "unknown" THEN 0 ELSE 1
    <3>1. run.plan > 0
      BY <1>3 DEF CallRefused, Typed, Placed
    <3> QED
      BY <1>3, <2>1, <3>1, OneMore DEF CallRefused, StepStatus, Requests, card
  <2>3. /\ pc = "call" /\ local.made < MaxToolCalls
        /\ rows' = IF t = "unknown" THEN rows ELSE rows + 1
        /\ pc' \in {"call", "push"}
    BY <1>3 DEF CallRefused, Result
  <2>4. local'.made = local.made + 1
    BY <1>3, <1>t DEF CallRefused, Result, Held
  <2> QED
    BY <1>c, <1>d, <1>m, <1>t, <2>2, <2>3, <2>4
<1>4. ASSUME NEW t \in Tools, CallTool(t) PROVE Counted'
  <2>1. PICK r \in {"pending", "none"} : steps' = NewStep(t, "running", r)
    BY <1>4 DEF CallTool
  <2>2. card' = card + 1
    <3>1. run.plan > 0
      BY <1>4 DEF CallTool, Typed, Placed
    <3> QED
      BY <1>4, <2>1, <3>1, OneMore DEF CallTool, StepStatus, Requests, card
  <2>3. /\ pc = "call" /\ local.made < MaxToolCalls
        /\ rows' = rows + 1
        /\ pc' \in {"asking", "acting"}
    BY <1>4 DEF CallTool
  <2>4. local'.made = local.made
    BY <1>4, <1>t DEF CallTool, Held
  <2> QED
    BY <1>c, <1>d, <1>m, <1>t, <2>2, <2>3, <2>4
<1>5. CASE Suspend \/ AskFails
  <2>1. card' = card
    BY <1>5, <1>a, CallsChange
  <2>2. pc' = "push" /\ rows' = rows /\ local'.outcome = "approval"
    BY <1>5, <1>t DEF Suspend, AskFails, Held
  <2> QED
    BY <1>c, <1>d, <2>1, <2>2
<1>6. CASE Act
  <2>1. card' = card
    BY <1>6, <1>a, CallsChange
  <2> QED
    BY <1>6, <1>c, <1>d, <2>1 DEF Act
<1>7. CASE Record
  <2>1. card' = card
    BY <1>7, <1>a, CallsChange
  <2>2. pc = "acting" /\ pc' \in {"call", "push"} /\ rows' = rows
    BY <1>7 DEF Record, Result
  <2>3. local'.made = local.made + 1
    BY <1>7, <1>t DEF Record, Result, Held
  <2> QED
    BY <1>c, <1>d, <1>m, <1>t, <2>1, <2>2, <2>3
<1>8. CASE (\E n \in DOMAIN steps : Pick(n)) \/ Gate \/ Regate \/ Redo \/ ResetFailed
           \/ (\E n \in DOMAIN steps : Approve(n) \/ Refuse(n)) \/ Unblock
  <2>1. card' = card
    BY <1>8, <1>a, CallsChange
  <2>2. rows' \in {rows, rows + 1}
    BY <1>8 DEF Pick, Gate, Regate, Redo, ResetFailed, Approve, Refuse, Unblock
  <2>3. CASE UNCHANGED <<pc, local>>
    BY <1>c, <1>d, <1>t, <2>1, <2>2, <2>3
  <2>4. CASE pc' \notin {"ask", "call", "asking", "acting", "push"}
    BY <1>c, <1>d, <1>t, <2>1, <2>2, <2>4
  <2> QED
    BY <1>8, <2>3, <2>4
       DEF Pick, Gate, Regate, Redo, ResetFailed, Approve, Refuse, Unblock, Leave
<1>9. CASE Claim \/ GiveUp \/ StartIteration \/ EnterLoop \/ AskModel \/ FinalAnswer
           \/ EmptyAnswer \/ EndLoop \/ StopCalls \/ Push \/ ResumePlan \/ StepsDone
           \/ Succeed \/ RetrySteps \/ Replan \/ TimeOut \/ Throw
           \/ RecoverStaleClaims \/ Crash
  <2>1. UNCHANGED <<steps, rows>>
    BY <1>9 DEF Claim, GiveUp, StartIteration, EnterLoop, AskModel, FinalAnswer, EmptyAnswer,
       EndLoop, StopCalls, Push, ResumePlan, StepsDone, Succeed, RetrySteps, Replan, TimeOut,
       Throw, RecoverStaleClaims, Crash, rowVars
  <2>2. card' = card
    BY <1>a, <2>1 DEF Calls
  <2>3. CASE EnterLoop
    <3>1. pc' = "ask" /\ local'.made = rows
      BY <1>t, <2>3 DEF EnterLoop, CallsMade, Held
    <3> QED
      BY <1>c, <1>d, <2>1, <2>2, <3>1
  <2>4. CASE AskModel
    <3>1. pc = "ask" /\ pc' = "call" /\ local'.made = local.made
      BY <1>t, <2>4 DEF AskModel, Held
    <3> QED
      BY <1>c, <1>d, <2>1, <2>2, <3>1
  <2>5. CASE StopCalls
    <3>1. pc' = "push" /\ local'.outcome # "none"
      BY <1>t, <2>5 DEF StopCalls, Held
    <3> QED
      BY <1>c, <1>d, <2>1, <2>2, <3>1
  <2>6. CASE Push
    <3>1. \/ pc = "push" /\ local.outcome = "none" /\ pc' = "ask" /\ local'.made = local.made
          \/ pc' = "idle"
      BY <1>m, <1>t, <2>6 DEF Push, Leave, Held
    <3> QED
      BY <1>c, <1>d, <2>1, <2>2, <3>1
  <2>7. CASE RecoverStaleClaims
    BY <1>c, <1>d, <2>1, <2>2, <2>7 DEF RecoverStaleClaims
  <2>8. CASE pc' \notin {"ask", "call", "asking", "acting", "push"}
    BY <1>c, <1>d, <2>1, <2>2, <2>8
  <2> QED
    BY <1>9, <2>3, <2>4, <2>5, <2>6, <2>7, <2>8 DEF Claim, GiveUp, StartIteration, FinalAnswer,
       EmptyAnswer, EndLoop, ResumePlan, StepsDone, Succeed, RetrySteps, Replan, TimeOut, Throw,
       Crash, Leave
<1> QED
  BY <1>1, <1>2, <1>3, <1>4, <1>5, <1>6, <1>7, <1>8, <1>9 DEF Next, Work

(* The loop's tool calls stay within the cap, however often the run is     *)
(* yielded, crashed, retried or replanned.                                 *)
THEOREM LoopWithinBudget == Spec => []ToolBudget
<1>1. Counted => ToolBudget
  BY DEF Counted
<1> QED
  BY <1>1, AlwaysTyped, CountedInit, CountedStep, PTL DEF Spec
=============================================================================
