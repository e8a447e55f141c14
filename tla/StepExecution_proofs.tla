------------------------ MODULE StepExecution_proofs ------------------------
(***************************************************************************)
(* Proofs about StepExecution, for any number of workers, plans, approvals *)
(* and retries. The authority of every write, and the refinement of the    *)
(* ledger, with every fault the module allows: early answers, stray        *)
(* requests, overlapping workers, crashes. That done steps stay done and   *)
(* that a run succeeds with its whole plan, where one worker at a time     *)
(* owns the run: the other faults break both.                              *)
(***************************************************************************)
EXTENDS StepExecution, FiniteSetTheorems, TLAPS

(* Where a worker has no plan yet, or has not read its steps. *)
Before == {"idle", "enqueue", "capped", "resume", "plan", "draft", "drafted", "askedPlan"}
(* Where it executes a step. *)
InStep == {"perform", "gate", "write", "record", "askedStep", "audit", "after", "blocking"}

(* A worker's snapshot, its current step and its plan belong together. *)
Located ==
  \A w \in Workers :
    /\ pc[w] \in Before => local[w].planApproval = None /\ local[w].todo = {}
    /\ \A s \in local[w].todo : s.plan = local[w].plan
    /\ pc[w] \in InStep => local[w].step \in StepIds /\ local[w].step.plan = local[w].plan

(* Requests are answered once, by a human, about what they named. *)
Answered ==
  \A a \in Approvals :
    /\ approval[a].status = "approved" => a \in granted
    /\ a \in granted => approval[a].status \notin {"unused", "pending"}
    /\ approval[a].status = "unused" <=> approval[a].scope = None

(* The authority a worker holds. *)
HeldBy(w) ==
  /\ local[w].planApproval # None =>
       /\ local[w].planApproval \in granted
       /\ local[w].plan \in Plans
       /\ approval[local[w].planApproval].scope = local[w].plan
  /\ pc[w] = "gate" =>
       IF local[w].planApproval # None THEN local[w].authority = local[w].planApproval
       ELSE \/ local[w].authority = None
            \/ /\ local[w].authority \in granted
               /\ approval[local[w].authority].scope = local[w].step
  /\ pc[w] = "write" =>
       /\ local[w].authority \in granted
       /\ approval[local[w].authority].scope \in {local[w].step, local[w].plan}
  /\ pc[w] \in {"askedPlan", "askedStep"} =>
       local[w].authority \in Approvals /\ approval[local[w].authority].status # "unused"

Held == \A w \in Workers : HeldBy(w)

OfPlan(a) == approval[a].scope \in Plans

(* The approval of a plan is consumed before it is used, hence by one      *)
(* worker, for one write.                                                  *)
Consumed ==
  /\ \A n \in DOMAIN writes : OfPlan(writes[n].authority) => approval[writes[n].authority].consumed
  /\ \A w \in Workers : pc[w] = "write" /\ OfPlan(local[w].authority) =>
       /\ approval[local[w].authority].consumed
       /\ \A n \in DOMAIN writes : writes[n].authority # local[w].authority
       /\ \A v \in Workers : pc[v] = "write" /\ local[v].authority = local[w].authority => v = w

ExecInv ==
  TypeOK /\ Located /\ Answered /\ Held /\ Consumed /\ WritesAuthorised /\ PlanApprovalSingleUse

-----------------------------------------------------------------------------
(* What Ask does, row by row: one unused request names its object and is   *)
(* pending, and the worker holds it.                                       *)
LEMMA AskEffect ==
  ASSUME TypeOK, NEW w \in Workers, NEW what \in Plans \cup StepIds, Ask(w, what)
  PROVE  \E a \in Approvals :
           /\ approval[a].status = "unused"
           /\ approval' \in [Approvals -> ApprovalRow]
           /\ approval'[a].status = "pending" /\ approval'[a].scope = what
           /\ approval'[a].consumed = approval[a].consumed
           /\ \A b \in Approvals \ {a} : approval'[b] = approval[b]
           /\ local' \in [Workers -> LocalRow]
           /\ local'[w].authority = a
           /\ local'[w].plan = IF what \in Plans THEN what ELSE local[w].plan
           /\ local'[w].planApproval = local[w].planApproval
           /\ local'[w].todo = local[w].todo /\ local'[w].step = local[w].step
           /\ \A v \in Workers \ {w} : local'[v] = local[v]
<1>1. PICK a \in Approvals :
        /\ approval[a].status = "unused"
        /\ approval' = [approval EXCEPT ![a].status = "pending", ![a].scope = what]
        /\ local' = [local EXCEPT ![w].authority = a,
                                  ![w].plan = IF what \in Plans THEN what ELSE @]
  BY DEF Ask
<1>2. /\ [approval[a] EXCEPT !.status = "pending", !.scope = what] \in ApprovalRow
      /\ approval' = [approval EXCEPT ![a] =
                        [approval[a] EXCEPT !.status = "pending", !.scope = what]]
  BY <1>1 DEF TypeOK, ApprovalRow
<1>3. DEFINE plan == IF what \in Plans THEN what ELSE local[w].plan
             row == [local[w] EXCEPT !.authority = a, !.plan = plan]
<1>4. local[w] \in LocalRow
  BY DEF TypeOK
<1>5. row \in LocalRow
  BY <1>4 DEF LocalRow
<1>6. local' = [local EXCEPT ![w] = row]
  BY <1>1
<1>7. /\ row.authority = a /\ row.plan = plan
      /\ row.planApproval = local[w].planApproval
      /\ row.todo = local[w].todo /\ row.step = local[w].step
  BY <1>4 DEF LocalRow
<1> HIDE DEF row
<1>8. local' \in [Workers -> LocalRow] /\ local'[w] = row
      /\ \A v \in Workers \ {w} : local'[v] = local[v]
  BY <1>5, <1>6 DEF TypeOK
<1>9. /\ approval' \in [Approvals -> ApprovalRow]
      /\ approval'[a] = [approval[a] EXCEPT !.status = "pending", !.scope = what]
      /\ \A b \in Approvals \ {a} : approval'[b] = approval[b]
  BY <1>2 DEF TypeOK
<1>10. /\ approval'[a].status = "pending" /\ approval'[a].scope = what
       /\ approval'[a].consumed = approval[a].consumed
  BY <1>9 DEF TypeOK, ApprovalRow
<1> QED
  BY <1>1, <1>7, <1>8, <1>9, <1>10

(* The status of the run may become any other.                             *)
LEMMA StatusTyped ==
  ASSUME TypeOK, NEW s \in {"queued", "running", "awaiting_approval", "blocked",
                            "succeeded", "failed", "cancelled"}, SetStatus(s)
  PROVE  run' \in RunRow
  BY DEF TypeOK, SetStatus, RunRow

(* Counters grow within Nat. *)
LEMMA CountersTyped ==
  ASSUME TypeOK
  PROVE  /\ [run EXCEPT !.iteration = @ + 1] \in RunRow
         /\ [run EXCEPT !.retry = @ + 1] \in RunRow
  BY DEF TypeOK, RunRow

(* The fields of a worker's memory, of an approval and of a task are       *)
(* replaced one at a time.                                                 *)
LEMMA LocalTyped ==
  ASSUME TypeOK, NEW w \in Workers, NEW row \in LocalRow
  PROVE  [local EXCEPT ![w] = row] \in [Workers -> LocalRow]
  BY DEF TypeOK

(* Each field of a worker's memory may be replaced. *)
LEMMA FieldTyped ==
  ASSUME TypeOK, NEW w \in Workers
  PROVE  /\ \A a \in Approvals \cup {None} : [local[w] EXCEPT !.planApproval = a] \in LocalRow
         /\ \A p \in Plans \cup {None} : [local[w] EXCEPT !.plan = p] \in LocalRow
         /\ \A T \in SUBSET StepIds : [local[w] EXCEPT !.todo = T] \in LocalRow
         /\ [local[w] EXCEPT !.unblocked = FALSE] \in LocalRow
<1>1. local[w] \in LocalRow
  BY DEF TypeOK
<1>2. \A a \in Approvals \cup {None} : [local[w] EXCEPT !.planApproval = a] \in LocalRow
  BY <1>1 DEF LocalRow
<1>3. \A p \in Plans \cup {None} : [local[w] EXCEPT !.plan = p] \in LocalRow
  BY <1>1 DEF LocalRow
<1>4. \A T \in SUBSET StepIds : [local[w] EXCEPT !.todo = T] \in LocalRow
  BY <1>1 DEF LocalRow
<1>5. [local[w] EXCEPT !.unblocked = FALSE] \in LocalRow
  BY <1>1 DEF LocalRow
<1> QED
  BY <1>2, <1>3, <1>4, <1>5

(* An approval may change its status, or be consumed. *)
LEMMA ApprovalTyped ==
  ASSUME TypeOK, NEW a \in Approvals
  PROVE  /\ \A s \in {"approved", "rejected", "expired", "failed"} :
              [approval EXCEPT ![a].status = s] \in [Approvals -> ApprovalRow]
         /\ [approval EXCEPT ![a].consumed = TRUE] \in [Approvals -> ApprovalRow]
<1>1. approval[a] \in ApprovalRow
  BY DEF TypeOK
<1>2. \A s \in {"approved", "rejected", "expired", "failed"} :
         [approval[a] EXCEPT !.status = s] \in ApprovalRow
  BY <1>1 DEF ApprovalRow
<1>3. [approval[a] EXCEPT !.consumed = TRUE] \in ApprovalRow
  BY <1>1 DEF ApprovalRow
<1> QED
  BY <1>2, <1>3 DEF TypeOK

(* A resolver's task may be changed. *)
LEMMA TaskTyped ==
  ASSUME TypeOK, NEW a \in Approvals, NEW t \in {"none", "resume", "unblock", "cancel"}
  PROVE  [task EXCEPT ![a].todo = t] \in [Approvals -> TaskRow]
<1>1. [task[a] EXCEPT !.todo = t] \in TaskRow
  BY DEF TypeOK, TaskRow
<1> QED
  BY <1>1 DEF TypeOK

(* Every variable keeps its type, whatever fails or races.                 *)
LEMMA TypeStep == ExecInv /\ [Next]_vars => TypeOK'
<1> SUFFICES ASSUME ExecInv, [Next]_vars PROVE TypeOK'
  OBVIOUS
<1>exec. TypeOK /\ Located /\ Held
  BY DEF ExecInv
<1> USE <1>exec
<1> USE ExecutionAssumption, ScopeAssumption
      DEF TypeOK, RunRow, StepStatus, ApprovalRow, TaskRow, LocalRow, UnchangedRows,
          UnchangedGhosts, InLoop, InStep, Located, Held, HeldBy
<1>1. CASE UNCHANGED vars
  BY <1>1 DEF vars
<1>2. ASSUME NEW w \in Workers, Work(w) PROVE TypeOK'
  <2>1. CASE Claim(w)
    <3>1. run' \in RunRow
      BY <2>1, StatusTyped DEF Claim
    <3>2. local' \in [Workers -> LocalRow] /\ pc' \in [Workers -> InLoop \cup {"idle", "enqueue"}]
      BY <2>1 DEF Claim, Goto
    <3> QED
      BY <2>1, <3>1, <3>2 DEF Claim
  <2>2. CASE GiveUp(w)
    BY <2>2 DEF GiveUp, SetStatus, Leave, Goto, Idle
  <2>3. CASE ResumePlan(w)
    <3> HIDE DEF LocalRow, ApprovalRow, TaskRow, RunRow
    <3>1. PICK a \in Approvals \cup {None} : local' = [local EXCEPT ![w].planApproval = a]
      BY <2>3 DEF ResumePlan, Usable
    <3>2. local' \in [Workers -> LocalRow]
      <4>1. [local[w] EXCEPT !.planApproval = a] \in LocalRow
        BY FieldTyped
      <4> QED
        BY <3>1, <4>1, LocalTyped
    <3> QED
      BY <2>3, <3>2 DEF ResumePlan, Goto
  <2>4. CASE StartIteration(w)
    <3> HIDE DEF LocalRow, ApprovalRow, TaskRow, RunRow
    <3> QED
      BY <2>4, CountersTyped DEF StartIteration, Goto
  <2>5. CASE Draft(w)
    <3> HIDE DEF LocalRow, ApprovalRow, TaskRow, RunRow
    <3>1. PICK p \in Plans, d \in Drafts :
            /\ draft' = [draft EXCEPT ![p] = d]
            /\ IF NeedsApproval(d)
                 THEN Ask(w, p) /\ Goto(w, "askedPlan")
                 ELSE /\ local' = [local EXCEPT ![w].plan = p]
                      /\ Goto(w, "drafted")
                      /\ UNCHANGED approval
      BY <2>5 DEF Draft
    <3>2. approval' \in [Approvals -> ApprovalRow] /\ local' \in [Workers -> LocalRow]
      <4>1. CASE Ask(w, p)
        BY <4>1, AskEffect
      <4>2. CASE local' = [local EXCEPT ![w].plan = p] /\ UNCHANGED approval
        <5>1. [local[w] EXCEPT !.plan = p] \in LocalRow
          BY FieldTyped
        <5> QED
          BY <4>2, <5>1, LocalTyped
      <4> QED
        BY <3>1, <4>1, <4>2
    <3>3. draft' \in [Plans -> Drafts \cup {<<>>}]
          /\ pc' \in [Workers -> InLoop \cup {"idle", "enqueue"}]
      BY <3>1 DEF Goto
    <3> QED
      BY <2>5, <3>2, <3>3 DEF Draft
  <2>6. CASE AwaitApproval(w)
    BY <2>6 DEF AwaitApproval, Leave, Goto, Idle
  <2>7. CASE Adopt(w)
    BY <2>7 DEF Adopt, Goto
  <2>8. CASE AskFails(w)
    <3> HIDE DEF LocalRow, ApprovalRow, TaskRow, RunRow
    <3>1. run' \in RunRow
      BY <2>8, StatusTyped DEF AskFails
    <3>2. approval' \in [Approvals -> ApprovalRow]
      BY <2>8, ApprovalTyped DEF AskFails
    <3>3. step' \in [StepIds -> StepStatus]
      BY <2>8 DEF AskFails
    <3>4. Idle \in LocalRow
      BY DEF Idle, LocalRow
    <3> QED
      BY <2>8, <3>1, <3>2, <3>3, <3>4, LocalTyped DEF AskFails, Leave, Goto
  <2>9. CASE Hydrate(w)
    <3> HIDE DEF LocalRow, ApprovalRow, TaskRow, RunRow
    <3>1. [local[w] EXCEPT !.todo = Pending(local[w].plan, step)] \in LocalRow
      BY FieldTyped DEF Pending
    <3>2. local' \in [Workers -> LocalRow]
      BY <2>9, <3>1, LocalTyped DEF Hydrate
    <3> QED
      BY <2>9, <3>2 DEF Hydrate, Goto
  <2>10. CASE CreateStep(w)
    <3> HIDE DEF LocalRow, ApprovalRow, TaskRow, RunRow
    <3>1. step' \in [StepIds -> StepStatus]
      BY <2>10 DEF CreateStep
    <3>2. [local[w] EXCEPT !.todo = Pending(local[w].plan, step')] \in LocalRow
      BY FieldTyped DEF Pending
    <3>3. local' \in {local, [local EXCEPT ![w].todo = Pending(local[w].plan, step')]}
      BY <2>10 DEF CreateStep
    <3>4. local' \in [Workers -> LocalRow]
      BY <3>2, <3>3, LocalTyped
    <3>5. pc' \in [Workers -> InLoop \cup {"idle", "enqueue"}]
      BY <2>10 DEF CreateStep, Goto
    <3> QED
      BY <2>10, <3>1, <3>4, <3>5 DEF CreateStep
  <2>11. CASE Pick(w)
    BY <2>11 DEF Pick, StepApproved, Goto
  <2>12. CASE Perform(w)
    BY <2>12 DEF Perform, Goto
  <2>13. CASE Gate(w)
    <3> HIDE DEF LocalRow, ApprovalRow, TaskRow, RunRow
    <3>1. step' \in [StepIds -> StepStatus] /\ UNCHANGED <<run, draft, task, granted, writes>>
      BY <2>13 DEF Gate
    <3>2. CASE Ask(w, local[w].step) /\ Goto(w, "askedStep")
      BY <2>13, <3>1, <3>2, AskEffect DEF Gate, Goto
    <3>3. CASE Goto(w, "write") /\ UNCHANGED local
      <4>1. \/ approval' = approval
            \/ /\ local[w].authority \in Approvals
               /\ approval' = [approval EXCEPT ![local[w].authority].consumed = TRUE]
        BY <2>13, <3>3 DEF Gate, Goto
      <4>2. approval' \in [Approvals -> ApprovalRow]
        <5>1. CASE approval' = approval
          BY <5>1
        <5>2. CASE approval' = [approval EXCEPT ![local[w].authority].consumed = TRUE]
                   /\ local[w].authority \in Approvals
          BY <5>2, ApprovalTyped
        <5> QED
          BY <4>1, <5>1, <5>2
      <4> QED
        BY <3>1, <3>3, <4>2 DEF Goto
    <3> QED
      BY <2>13, <3>2, <3>3 DEF Gate
  <2>14. CASE Write(w)
    BY <2>14 DEF Write, Goto
  <2>15. CASE Record(w)
    BY <2>15 DEF Record, Goto
  <2>16. CASE Audit(w)
    BY <2>16 DEF Audit, Goto
  <2>17. CASE BlockStep(w)
    BY <2>17 DEF BlockStep, Goto
  <2>18. CASE AfterStep(w)
    <3> HIDE DEF LocalRow, ApprovalRow, TaskRow, RunRow
    <3>1. run' \in RunRow
      BY <2>18, StatusTyped DEF AfterStep
    <3>2. [local[w] EXCEPT !.unblocked = FALSE] \in LocalRow
      BY FieldTyped
    <3>3. local' \in [Workers -> LocalRow]
      <4>1. CASE local' = local
        BY <4>1
      <4>2. CASE local' = [local EXCEPT ![w].unblocked = FALSE]
        BY <3>2, <4>2, LocalTyped
      <4> QED
        BY <2>18, <4>1, <4>2 DEF AfterStep
    <3>4. pc' \in [Workers -> InLoop \cup {"idle", "enqueue"}]
      BY <2>18 DEF AfterStep, Goto
    <3> QED
      BY <2>18, <3>1, <3>3, <3>4 DEF AfterStep
  <2>19. CASE FinalizeBlocked(w)
    BY <2>19 DEF FinalizeBlocked, SetStatus, Goto
  <2>20. CASE StepsDone(w)
    BY <2>20 DEF StepsDone, Goto
  <2>21. CASE Succeed(w)
    BY <2>21 DEF Succeed, SetStatus, Goto
  <2>22. CASE Close(w)
    <3>1. run' \in RunRow
      BY <2>22, StatusTyped DEF Close
    <3>2. local' \in [Workers -> LocalRow] /\ pc' \in [Workers -> InLoop \cup {"idle", "enqueue"}]
      BY <2>22 DEF Close, Leave, Goto, Idle
    <3> QED
      BY <2>22, <3>1, <3>2 DEF Close
  <2>23. CASE RetrySteps(w)
    <3> HIDE DEF LocalRow, ApprovalRow, TaskRow, RunRow
    <3> QED
      BY <2>23, CountersTyped DEF RetrySteps, Goto
  <2>24. CASE ResetFailed(w)
    BY <2>24 DEF ResetFailed, SetStatus, Leave, Goto, Idle
  <2>25. CASE Replan(w)
    BY <2>25 DEF Replan, Leave, Goto, Idle
  <2>26. CASE TimeOut(w)
    BY <2>26 DEF TimeOut, SetStatus, Leave, Goto, Idle
  <2>27. CASE Throw(w)
    BY <2>27 DEF Throw, SetStatus, Leave, Goto, Idle
  <2>28. CASE Enqueue(w)
    <3>1. run' \in RunRow
      BY <2>28, StatusTyped DEF Enqueue
    <3>2. local' \in [Workers -> LocalRow] /\ pc' \in [Workers -> InLoop \cup {"idle", "enqueue"}]
      BY <2>28 DEF Enqueue, Goto
    <3> QED
      BY <2>28, <3>1, <3>2 DEF Enqueue
  <2>29. CASE Crash(w)
    BY <2>29 DEF Crash, Leave, Goto, Idle
  <2> QED
    BY <1>2, <2>1, <2>2, <2>3, <2>4, <2>5, <2>6, <2>7, <2>8, <2>9, <2>10, <2>11, <2>12, <2>13,
       <2>14, <2>15, <2>16, <2>17, <2>18, <2>19, <2>20, <2>21, <2>22, <2>23, <2>24, <2>25, <2>26,
       <2>27, <2>28, <2>29 DEF Work
<1>3. ASSUME NEW a \in Approvals, Resolver(a) PROVE TypeOK'
  <2>1. CASE Approve(a)
    <3> HIDE DEF LocalRow, ApprovalRow, TaskRow, RunRow
    <3> QED
      BY <2>1, ApprovalTyped, TaskTyped DEF Approve, Resolve
  <2>2. CASE Refuse(a)
    <3> HIDE DEF LocalRow, ApprovalRow, TaskRow, RunRow
    <3>1. PICK reply \in {"rejected", "expired"} : Resolve(a, reply, "cancel")
      BY <2>2 DEF Refuse
    <3> QED
      BY <2>2, <3>1, ApprovalTyped, TaskTyped DEF Refuse, Resolve
  <2>3. CASE Resume(a)
    BY <2>3 DEF Resume, SetStatus
  <2>4. CASE Unblock(a)
    BY <2>4 DEF Unblock
  <2>5. CASE CancelRefused(a)
    <3>1. run' \in RunRow
      BY <2>5, StatusTyped DEF CancelRefused
    <3>2. task' \in [Approvals -> TaskRow]
      BY <2>5 DEF CancelRefused
    <3> QED
      BY <2>5, <3>1, <3>2 DEF CancelRefused
  <2> QED
    BY <1>3, <2>1, <2>2, <2>3, <2>4, <2>5 DEF Resolver
<1>4. CASE Cancel \/ RecoverStaleClaims
  <2>1. run' \in RunRow
    BY <1>4, StatusTyped DEF Cancel, RecoverStaleClaims
  <2> QED
    BY <1>4, <2>1 DEF Cancel, RecoverStaleClaims
<1> HIDE DEF TypeOK
<1> QED
  BY <1>1, <1>2, <1>3, <1>4 DEF Next

(* Memory and place of a worker agree. *)
LEMMA LocatedStep == ExecInv /\ [Next]_vars => Located'
<1> SUFFICES ASSUME ExecInv, [Next]_vars PROVE Located'
  OBVIOUS
<1>exec. TypeOK /\ Located
  BY TypeStep DEF ExecInv
<1> USE <1>exec
<1> USE ExecutionAssumption, ScopeAssumption
      DEF TypeOK, LocalRow, StepStatus, UnchangedRows, UnchangedGhosts, Located, InLoop, InStep,
          Before
<1>1. CASE UNCHANGED vars
  BY <1>1 DEF vars
<1>2. ASSUME NEW w \in Workers, Work(w) PROVE Located'
  <2>1. CASE Claim(w)
    BY <2>1 DEF Claim, SetStatus, Goto
  <2>2. CASE GiveUp(w)
    BY <2>2 DEF GiveUp, SetStatus, Leave, Goto, Idle
  <2>3. CASE ResumePlan(w)
    BY <2>3 DEF ResumePlan, Usable, Goto
  <2>4. CASE StartIteration(w)
    BY <2>4 DEF StartIteration, Goto
  <2>5. CASE Draft(w)
    <3>1. PICK p \in Plans, d \in Drafts :
            IF NeedsApproval(d)
              THEN Ask(w, p) /\ Goto(w, "askedPlan")
              ELSE local' = [local EXCEPT ![w].plan = p] /\ Goto(w, "drafted")
      BY <2>5 DEF Draft
    <3>2. CASE Ask(w, p) /\ Goto(w, "askedPlan")
      BY <2>5, <3>2, AskEffect DEF Draft, Goto
    <3>3. CASE local' = [local EXCEPT ![w].plan = p] /\ Goto(w, "drafted")
      BY <2>5, <3>3 DEF Draft, Goto
    <3> QED
      BY <3>1, <3>2, <3>3
  <2>6. CASE AwaitApproval(w)
    BY <2>6 DEF AwaitApproval, Leave, Goto, Idle
  <2>7. CASE Adopt(w)
    BY <2>7 DEF Adopt, Goto
  <2>8. CASE AskFails(w)
    BY <2>8 DEF AskFails, SetStatus, Leave, Goto, Idle
  <2>9. CASE Hydrate(w)
    BY <2>9 DEF Hydrate, Pending, Goto
  <2>10. CASE CreateStep(w)
    <3>1. \/ UNCHANGED <<pc, local>>
          \/ /\ pc' = [pc EXCEPT ![w] = "pick"]
             /\ local' = [local EXCEPT ![w].todo = Pending(local[w].plan, step')]
      BY <2>10 DEF CreateStep, Goto
    <3>2. \A s \in Pending(local[w].plan, step') : s \in StepIds /\ s.plan = local[w].plan
      BY DEF Pending
    <3>3. UNCHANGED <<approval, granted, writes>> /\ pc[w] = "create"
      BY <2>10 DEF CreateStep
    <3> QED
      BY <3>1, <3>2, <3>3
  <2>11. CASE Pick(w)
    BY <2>11 DEF Pick, StepApproved, Goto
  <2>12. CASE Perform(w)
    BY <2>12 DEF Perform, Goto
  <2>13. CASE Gate(w)
    <3>1. CASE Ask(w, local[w].step) /\ Goto(w, "askedStep")
      BY <2>13, <3>1, AskEffect DEF Gate, Goto
    <3>2. CASE Goto(w, "write") /\ UNCHANGED local
      BY <2>13, <3>2 DEF Gate, Goto
    <3> QED
      BY <2>13, <3>1, <3>2 DEF Gate
  <2>14. CASE Write(w)
    BY <2>14 DEF Write, Goto
  <2>15. CASE Record(w)
    BY <2>15 DEF Record, Goto
  <2>16. CASE Audit(w)
    BY <2>16 DEF Audit, Goto
  <2>17. CASE BlockStep(w)
    BY <2>17 DEF BlockStep, Goto
  <2>18. CASE AfterStep(w)
    <3>1. /\ local'[w].plan = local[w].plan /\ local'[w].todo = local[w].todo
          /\ local'[w].planApproval = local[w].planApproval
          /\ local'[w].step = local[w].step /\ local'[w].authority = local[w].authority
          /\ \A v \in Workers \ {w} : local'[v] = local[v] /\ pc'[v] = pc[v]
      BY <2>18 DEF AfterStep, Goto
    <3>2. pc'[w] \in {"blocking", "verify", "pick"} /\ pc[w] = "after"
      BY <2>18 DEF AfterStep, Goto
    <3>3. UNCHANGED <<approval, granted>>
      BY <2>18 DEF AfterStep
    <3> QED
      BY <3>1, <3>2, <3>3
  <2>19. CASE FinalizeBlocked(w)
    BY <2>19 DEF FinalizeBlocked, SetStatus, Goto
  <2>20. CASE StepsDone(w)
    BY <2>20 DEF StepsDone, Goto
  <2>21. CASE Succeed(w)
    BY <2>21 DEF Succeed, SetStatus, Goto
  <2>22. CASE Close(w)
    BY <2>22 DEF Close, SetStatus, Leave, Goto, Idle
  <2>23. CASE RetrySteps(w)
    BY <2>23 DEF RetrySteps, Goto
  <2>24. CASE ResetFailed(w)
    BY <2>24 DEF ResetFailed, SetStatus, Leave, Goto, Idle
  <2>25. CASE Replan(w)
    BY <2>25 DEF Replan, Leave, Goto, Idle
  <2>26. CASE TimeOut(w)
    BY <2>26 DEF TimeOut, SetStatus, Leave, Goto, Idle
  <2>27. CASE Throw(w)
    BY <2>27 DEF Throw, SetStatus, Leave, Goto, Idle
  <2>28. CASE Enqueue(w)
    BY <2>28 DEF Enqueue, SetStatus, Goto
  <2>29. CASE Crash(w)
    BY <2>29 DEF Crash, Leave, Goto, Idle
  <2> QED
    BY <1>2, <2>1, <2>2, <2>3, <2>4, <2>5, <2>6, <2>7, <2>8, <2>9, <2>10, <2>11, <2>12, <2>13,
       <2>14, <2>15, <2>16, <2>17, <2>18, <2>19, <2>20, <2>21, <2>22, <2>23, <2>24, <2>25, <2>26,
       <2>27, <2>28, <2>29 DEF Work
<1>3. ASSUME NEW a \in Approvals, Resolver(a) PROVE Located'
  <2>1. CASE Approve(a)
    BY <2>1 DEF Approve, Resolve
  <2>2. CASE Refuse(a)
    BY <2>2 DEF Refuse, Resolve
  <2>3. CASE Resume(a)
    BY <2>3 DEF Resume, SetStatus
  <2>4. CASE Unblock(a)
    BY <2>4 DEF Unblock
  <2>5. CASE CancelRefused(a)
    BY <2>5 DEF CancelRefused, SetStatus
  <2> QED
    BY <1>3, <2>1, <2>2, <2>3, <2>4, <2>5 DEF Resolver
<1>4. CASE Cancel \/ RecoverStaleClaims
  BY <1>4 DEF Cancel, RecoverStaleClaims, SetStatus
<1> HIDE DEF Located
<1> QED
  BY <1>1, <1>2, <1>3, <1>4 DEF Next

(* Whatever authority a worker holds was granted, for its plan or its step. *)
LEMMA HeldStep == ExecInv /\ [Next]_vars => Held'
<1> SUFFICES ASSUME ExecInv, [Next]_vars PROVE Held'
  OBVIOUS
<1>exec. TypeOK /\ Located /\ Answered /\ Held
  BY TypeStep DEF ExecInv
<1> USE <1>exec
<1> USE ExecutionAssumption, ScopeAssumption
      DEF TypeOK, LocalRow, ApprovalRow, UnchangedRows, UnchangedGhosts, Located, Answered,
          Held, HeldBy, InStep, Before
<1>1. CASE UNCHANGED vars
  BY <1>1 DEF vars
<1>2. ASSUME NEW w \in Workers, Work(w) PROVE Held'
  <2>1. CASE Claim(w)
    BY <2>1 DEF Claim, SetStatus, Goto
  <2>2. CASE GiveUp(w)
    BY <2>2 DEF GiveUp, SetStatus, Leave, Goto, Idle
  <2>3. CASE ResumePlan(w)
    BY <2>3 DEF ResumePlan, Usable, Goto
  <2>4. CASE StartIteration(w)
    BY <2>4 DEF StartIteration, Goto
  <2>5. CASE Draft(w)
    <3>1. PICK p \in Plans, d \in Drafts :
            IF NeedsApproval(d)
              THEN Ask(w, p) /\ Goto(w, "askedPlan")
              ELSE /\ local' = [local EXCEPT ![w].plan = p]
                   /\ Goto(w, "drafted")
                   /\ UNCHANGED approval
      BY <2>5 DEF Draft
    <3>2. CASE Ask(w, p) /\ Goto(w, "askedPlan")
      \* the request asked is not one anybody holds
      <4>1. PICK a \in Approvals :
              /\ approval[a].status = "unused"
              /\ approval'[a].status = "pending" /\ local'[w].authority = a
              /\ local'[w].planApproval = local[w].planApproval
              /\ \A b \in Approvals \ {a} : approval'[b] = approval[b]
              /\ \A v \in Workers \ {w} : local'[v] = local[v]
        BY <3>2, AskEffect
      <4>2. local[w].planApproval = None /\ a \notin granted /\ granted' = granted
        BY <2>5, <4>1 DEF Draft
      <4>3. pc' = [pc EXCEPT ![w] = "askedPlan"]
        BY <3>2 DEF Goto
      <4>4. HeldBy(w)'
        BY <4>1, <4>2, <4>3
      <4>5. ASSUME NEW v \in Workers \ {w} PROVE HeldBy(v)'
        <5>1. HeldBy(v) /\ local'[v] = local[v] /\ pc'[v] = pc[v]
          BY <4>1, <4>3
        <5>2. \A b \in Approvals : approval[b].status # "unused" => approval'[b] = approval[b]
          BY <4>1
        <5>3. \A b \in granted : b \in Approvals /\ approval'[b] = approval[b]
          BY <4>1, <4>2
        <5> HIDE DEF TypeOK, Answered, Located, Held
        <5> QED
          BY <4>2, <5>1, <5>2, <5>3
      <4> QED
        BY <4>4, <4>5
    <3>3. CASE local' = [local EXCEPT ![w].plan = p] /\ Goto(w, "drafted") /\ UNCHANGED approval
      BY <2>5, <3>3 DEF Draft, Goto
    <3> QED
      BY <3>1, <3>2, <3>3
  <2>6. CASE AwaitApproval(w)
    BY <2>6 DEF AwaitApproval, Leave, Goto, Idle
  <2>7. CASE Adopt(w)
    BY <2>7 DEF Adopt, Goto
  <2>8. CASE AskFails(w)
    BY <2>8 DEF AskFails, SetStatus, Leave, Goto, Idle
  <2>9. CASE Hydrate(w)
    BY <2>9 DEF Hydrate, Pending, Goto
  <2>10. CASE CreateStep(w)
    <3>1. \/ UNCHANGED <<pc, local>>
          \/ /\ pc' = [pc EXCEPT ![w] = "pick"]
             /\ local' = [local EXCEPT ![w].todo = Pending(local[w].plan, step')]
      BY <2>10 DEF CreateStep, Goto
    <3>2. \A s \in Pending(local[w].plan, step') : s \in StepIds /\ s.plan = local[w].plan
      BY DEF Pending
    <3>3. UNCHANGED <<approval, granted, writes>> /\ pc[w] = "create"
      BY <2>10 DEF CreateStep
    <3> QED
      BY <3>1, <3>2, <3>3
  <2>11. CASE Pick(w)
    BY <2>11 DEF Pick, StepApproved, Goto
  <2>12. CASE Perform(w)
    BY <2>12 DEF Perform, Goto
  <2>13. CASE Gate(w)
    <3>1. CASE Ask(w, local[w].step) /\ Goto(w, "askedStep")
      <4>1. PICK a \in Approvals :
              /\ approval[a].status = "unused"
              /\ approval'[a].status = "pending" /\ local'[w].authority = a
              /\ local'[w].plan = local[w].plan
              /\ local'[w].planApproval = local[w].planApproval
              /\ \A b \in Approvals \ {a} : approval'[b] = approval[b]
              /\ \A v \in Workers \ {w} : local'[v] = local[v]
        BY <2>13, <3>1, AskEffect DEF Gate
      <4>2. a \notin granted /\ granted' = granted
        BY <2>13, <4>1 DEF Gate
      <4>3. pc' = [pc EXCEPT ![w] = "askedStep"]
        BY <3>1 DEF Goto
      <4>4. HeldBy(w)'
        BY <4>1, <4>2, <4>3
      <4>5. ASSUME NEW v \in Workers \ {w} PROVE HeldBy(v)'
        <5>1. HeldBy(v) /\ local'[v] = local[v] /\ pc'[v] = pc[v]
          BY <4>1, <4>3
        <5>2. \A b \in Approvals : approval[b].status # "unused" => approval'[b] = approval[b]
          BY <4>1
        <5>3. \A b \in granted : b \in Approvals /\ approval'[b] = approval[b]
          BY <4>1, <4>2
        <5> HIDE DEF TypeOK, Answered, Located, Held
        <5> QED
          BY <4>2, <5>1, <5>2, <5>3
      <4> QED
        BY <4>4, <4>5
    <3>2. CASE Goto(w, "write") /\ UNCHANGED local
      \* a request is consumed at most: its scope stays
      <4>1. \A a \in Approvals : /\ approval'[a].scope = approval[a].scope
                                 /\ approval'[a].status = approval[a].status
        <5>1. approval' \in {approval, [approval EXCEPT ![local[w].authority].consumed = TRUE]}
          BY <2>13, <3>2 DEF Gate, Goto
        <5> QED
          BY <5>1
      <4>2. pc' = [pc EXCEPT ![w] = "write"] /\ granted' = granted
        BY <2>13, <3>2 DEF Gate, Goto
      <4>3. /\ local[w].authority \in granted
            /\ approval[local[w].authority].scope \in {local[w].step, local[w].plan}
        BY <2>13, <3>2 DEF Gate, Goto
      <4> QED
        BY <3>2, <4>1, <4>2, <4>3
    <3> QED
      BY <2>13, <3>1, <3>2 DEF Gate
  <2>14. CASE Write(w)
    BY <2>14 DEF Write, Goto
  <2>15. CASE Record(w)
    BY <2>15 DEF Record, Goto
  <2>16. CASE Audit(w)
    BY <2>16 DEF Audit, Goto
  <2>17. CASE BlockStep(w)
    BY <2>17 DEF BlockStep, Goto
  <2>18. CASE AfterStep(w)
    <3>1. /\ local'[w].plan = local[w].plan /\ local'[w].todo = local[w].todo
          /\ local'[w].planApproval = local[w].planApproval
          /\ local'[w].step = local[w].step /\ local'[w].authority = local[w].authority
          /\ \A v \in Workers \ {w} : local'[v] = local[v] /\ pc'[v] = pc[v]
      BY <2>18 DEF AfterStep, Goto
    <3>2. pc'[w] \in {"blocking", "verify", "pick"} /\ pc[w] = "after"
      BY <2>18 DEF AfterStep, Goto
    <3>3. UNCHANGED <<approval, granted>>
      BY <2>18 DEF AfterStep
    <3> QED
      BY <3>1, <3>2, <3>3
  <2>19. CASE FinalizeBlocked(w)
    BY <2>19 DEF FinalizeBlocked, SetStatus, Goto
  <2>20. CASE StepsDone(w)
    BY <2>20 DEF StepsDone, Goto
  <2>21. CASE Succeed(w)
    BY <2>21 DEF Succeed, SetStatus, Goto
  <2>22. CASE Close(w)
    BY <2>22 DEF Close, SetStatus, Leave, Goto, Idle
  <2>23. CASE RetrySteps(w)
    BY <2>23 DEF RetrySteps, Goto
  <2>24. CASE ResetFailed(w)
    BY <2>24 DEF ResetFailed, SetStatus, Leave, Goto, Idle
  <2>25. CASE Replan(w)
    BY <2>25 DEF Replan, Leave, Goto, Idle
  <2>26. CASE TimeOut(w)
    BY <2>26 DEF TimeOut, SetStatus, Leave, Goto, Idle
  <2>27. CASE Throw(w)
    BY <2>27 DEF Throw, SetStatus, Leave, Goto, Idle
  <2>28. CASE Enqueue(w)
    BY <2>28 DEF Enqueue, SetStatus, Goto
  <2>29. CASE Crash(w)
    BY <2>29 DEF Crash, Leave, Goto, Idle
  <2> QED
    BY <1>2, <2>1, <2>2, <2>3, <2>4, <2>5, <2>6, <2>7, <2>8, <2>9, <2>10, <2>11, <2>12, <2>13,
       <2>14, <2>15, <2>16, <2>17, <2>18, <2>19, <2>20, <2>21, <2>22, <2>23, <2>24, <2>25, <2>26,
       <2>27, <2>28, <2>29 DEF Work
<1>3. ASSUME NEW a \in Approvals, Resolver(a) PROVE Held'
  <2>1. CASE Approve(a)
    BY <2>1 DEF Approve, Resolve
  <2>2. CASE Refuse(a)
    BY <2>2 DEF Refuse, Resolve
  <2>3. CASE Resume(a)
    BY <2>3 DEF Resume, SetStatus
  <2>4. CASE Unblock(a)
    BY <2>4 DEF Unblock
  <2>5. CASE CancelRefused(a)
    BY <2>5 DEF CancelRefused, SetStatus
  <2> QED
    BY <1>3, <2>1, <2>2, <2>3, <2>4, <2>5 DEF Resolver
<1>4. CASE Cancel \/ RecoverStaleClaims
  BY <1>4 DEF Cancel, RecoverStaleClaims, SetStatus
<1> HIDE DEF Held
<1> QED
  BY <1>1, <1>2, <1>3, <1>4 DEF Next

-----------------------------------------------------------------------------
(* Six actions touch approvals, grants or writes, or bring a worker to the *)
(* point of writing; the others do nothing the remaining invariants see.   *)
Silent ==
  /\ UNCHANGED <<approval, granted, writes>>
  /\ \A v \in Workers : pc'[v] = "write" => pc[v] = "write" /\ local'[v] = local[v]

Speaks(w) == Draft(w) \/ AskFails(w) \/ Gate(w) \/ Write(w)

(* Every other step leaves requests, grants and writes alone. *)
LEMMA SilentStep ==
  ASSUME TypeOK, [Next]_vars
  PROVE  \/ Silent
         \/ \E w \in Workers : Speaks(w)
         \/ \E a \in Approvals : Approve(a) \/ Refuse(a)
<1> USE DEF TypeOK, Silent, UnchangedRows, UnchangedGhosts, Goto
<1>1. CASE UNCHANGED vars
  BY <1>1 DEF vars
<1>2. ASSUME NEW w \in Workers, Work(w), ~Speaks(w) PROVE Silent
  <2>1. CASE \/ Claim(w) \/ GiveUp(w) \/ ResumePlan(w)
             \/ StartIteration(w) \/ AwaitApproval(w) \/ Adopt(w)
    BY <2>1 DEF Claim, GiveUp, ResumePlan, StartIteration, AwaitApproval, Adopt, Leave
  <2>2. CASE Hydrate(w) \/ CreateStep(w) \/ Pick(w) \/ Perform(w) \/ Record(w) \/ Audit(w)
    BY <2>2 DEF Hydrate, CreateStep, Pick, Perform, Record, Audit
  <2>3. CASE BlockStep(w) \/ AfterStep(w) \/ FinalizeBlocked(w) \/ StepsDone(w) \/ Succeed(w)
    BY <2>3 DEF BlockStep, AfterStep, FinalizeBlocked, StepsDone, Succeed
  <2>4. CASE Close(w) \/ RetrySteps(w) \/ ResetFailed(w) \/ Replan(w) \/ TimeOut(w)
    BY <2>4 DEF Close, RetrySteps, ResetFailed, Replan, TimeOut, Leave
  <2>5. CASE Throw(w) \/ Enqueue(w) \/ Crash(w)
    BY <2>5 DEF Throw, Enqueue, Crash, Leave
  <2> QED
    BY <1>2, <2>1, <2>2, <2>3, <2>4, <2>5 DEF Work, Speaks
<1>3. ASSUME NEW a \in Approvals, Resume(a) \/ Unblock(a) \/ CancelRefused(a) PROVE Silent
  BY <1>3 DEF Resume, Unblock, CancelRefused
<1>4. CASE Cancel \/ RecoverStaleClaims
  BY <1>4 DEF Cancel, RecoverStaleClaims
<1> HIDE DEF Silent
<1> QED
  BY <1>1, <1>2, <1>3, <1>4 DEF Next, Resolver

(* What a drafting worker and the gate do to requests, grants and writes.  *)
LEMMA AskedOne ==
  ASSUME TypeOK, Located, NEW w \in Workers, Draft(w) \/ Gate(w)
  PROVE  /\ UNCHANGED <<granted, writes>>
         /\ \A a \in Approvals :
              /\ approval[a].consumed => approval'[a].consumed
              /\ \/ /\ approval'[a].scope = approval[a].scope
                    /\ approval'[a].status = approval[a].status
                 \/ /\ approval[a].status = "unused" /\ approval'[a].status = "pending"
                    /\ approval'[a].scope \in Plans \cup StepIds
<1> DEFINE Kept(a) ==
      /\ approval[a].consumed => approval'[a].consumed
      /\ \/ /\ approval'[a].scope = approval[a].scope
            /\ approval'[a].status = approval[a].status
         \/ /\ approval[a].status = "unused" /\ approval'[a].status = "pending"
            /\ approval'[a].scope \in Plans \cup StepIds
<1>1. UNCHANGED <<granted, writes>>
  BY DEF Draft, Gate, UnchangedGhosts
<1>2. ASSUME NEW what \in Plans \cup StepIds, Ask(w, what) PROVE \A a \in Approvals : Kept(a)
  BY <1>2, AskEffect
<1>3. UNCHANGED approval => \A a \in Approvals : Kept(a)
  OBVIOUS
<1>4. ASSUME approval' = [approval EXCEPT ![local[w].authority].consumed = TRUE]
      PROVE  \A a \in Approvals : Kept(a)
  <2>1. ASSUME NEW a \in Approvals
        PROVE  /\ approval'[a].scope = approval[a].scope
               /\ approval'[a].status = approval[a].status
               /\ approval[a].consumed => approval'[a].consumed
    <3>1. approval[a] \in ApprovalRow
      BY DEF TypeOK
    <3>2. CASE a = local[w].authority
      <4>1. approval'[a] = [approval[a] EXCEPT !.consumed = TRUE]
        BY <1>4, <3>2 DEF TypeOK
      <4> QED
        BY <3>1, <4>1 DEF ApprovalRow
    <3>3. CASE a # local[w].authority
      BY <1>4, <3>3 DEF TypeOK
    <3> QED
      BY <3>2, <3>3
  <2> QED
    BY <2>1
<1> HIDE DEF Kept
<1>5. CASE Draft(w)
  <2>1. (\E p \in Plans : Ask(w, p)) \/ UNCHANGED approval
    BY <1>5 DEF Draft
  <2> QED
    BY <1>1, <1>2, <1>3, <2>1 DEF Kept
<1>6. CASE Gate(w)
  <2>1. local[w].step \in StepIds
    BY <1>6 DEF Gate, Located, InStep
  <2>2. \/ Ask(w, local[w].step) \/ UNCHANGED approval
        \/ approval' = [approval EXCEPT ![local[w].authority].consumed = TRUE]
    BY <1>6 DEF Gate
  <2>3. \A a \in Approvals : Kept(a)
    BY <1>2, <1>3, <1>4, <2>1, <2>2
  <2> QED
    BY <1>1, <2>3 DEF Kept
<1> QED
  BY <1>5, <1>6

(* An error after a request was posted voids it, and nothing else.         *)
LEMMA AskFailsEffect ==
  ASSUME TypeOK, Held, NEW w \in Workers, AskFails(w)
  PROVE  /\ UNCHANGED <<granted, writes>>
         /\ \A a \in Approvals :
              /\ approval'[a].scope = approval[a].scope
              /\ approval'[a].consumed = approval[a].consumed
              /\ \/ approval'[a].status = approval[a].status
                 \/ approval[a].status # "unused" /\ approval'[a].status = "failed"
<1>1. local[w].authority \in Approvals /\ approval[local[w].authority].status # "unused"
  BY DEF AskFails, Held, HeldBy
<1>2. approval' = [approval EXCEPT ![local[w].authority].status = "failed"]
  BY DEF AskFails
<1> QED
  BY <1>1, <1>2 DEF TypeOK, ApprovalRow, AskFails, UnchangedGhosts

(* An answer changes the status of one pending request. *)
LEMMA ReplyEffect ==
  ASSUME TypeOK, NEW a \in Approvals, Approve(a) \/ Refuse(a)
  PROVE  /\ UNCHANGED <<writes, pc, local>>
         /\ approval[a].status = "pending"
         /\ \A b \in Approvals :
              /\ approval'[b].scope = approval[b].scope
              /\ approval'[b].consumed = approval[b].consumed
         /\ \A b \in Approvals \ {a} : approval'[b].status = approval[b].status
         /\ \/ granted' = granted \cup {a} /\ approval'[a].status = "approved"
            \/ granted' = granted /\ approval'[a].status \in {"rejected", "expired"}
<1>1. CASE Approve(a)
  BY <1>1 DEF Approve, Resolve, TypeOK, ApprovalRow
<1>2. CASE Refuse(a)
  BY <1>2 DEF Refuse, Resolve, TypeOK, ApprovalRow
<1> QED
  BY <1>1, <1>2

(* Grants name approved requests, and unused requests name nothing. *)
LEMMA AnsweredStep == ExecInv /\ [Next]_vars => Answered'
<1> SUFFICES ASSUME ExecInv, [Next]_vars PROVE Answered'
  OBVIOUS
<1> USE DEF ExecInv
<1>1. CASE Silent
  BY <1>1 DEF Silent, Answered
<1>2. ASSUME NEW w \in Workers, Draft(w) \/ Gate(w) PROVE Answered'
  <2>1. None \notin Plans \cup StepIds
    BY ExecutionAssumption, ScopeAssumption
  <2> QED
    BY <1>2, <2>1, AskedOne DEF Answered
<1>3. ASSUME NEW w \in Workers, AskFails(w) PROVE Answered'
  BY <1>3, AskFailsEffect DEF Answered
<1>4. ASSUME NEW w \in Workers, Write(w) PROVE Answered'
  BY <1>4 DEF Write, UnchangedRows, Answered
<1>5. ASSUME NEW a \in Approvals, Approve(a) \/ Refuse(a) PROVE Answered'
  BY <1>5, ReplyEffect DEF Answered, TypeOK
<1> QED
  BY <1>1, <1>2, <1>3, <1>4, <1>5, SilentStep DEF Speaks

(* What was granted stays granted, for what it named; what is consumed     *)
(* stays consumed.                                                         *)
LEMMA GrantedStable ==
  ASSUME ExecInv, [Next]_vars, NEW a \in granted
  PROVE  /\ a \in granted' /\ approval'[a].scope = approval[a].scope
         /\ approval[a].consumed => approval'[a].consumed
<1> DEFINE Goal == /\ a \in granted' /\ approval'[a].scope = approval[a].scope
                   /\ approval[a].consumed => approval'[a].consumed
<1> USE DEF ExecInv
<1>0. a \in Approvals /\ approval[a].status # "unused"
  BY DEF TypeOK, Answered
<1>1. ASSUME Silent PROVE Goal
  BY <1>1 DEF Silent
<1>2. ASSUME NEW w \in Workers, Draft(w) \/ Gate(w) PROVE Goal
  BY <1>0, <1>2, AskedOne
<1>3. ASSUME NEW w \in Workers, AskFails(w) PROVE Goal
  BY <1>0, <1>3, AskFailsEffect
<1>4. ASSUME NEW w \in Workers, Write(w) PROVE Goal
  BY <1>4 DEF Write, UnchangedRows
<1>5. ASSUME NEW b \in Approvals, Approve(b) \/ Refuse(b) PROVE Goal
  BY <1>0, <1>5, ReplyEffect
<1> HIDE DEF Goal, ExecInv
<1>6. TypeOK
  BY DEF ExecInv
<1>7. \/ Silent
      \/ \E w \in Workers : Speaks(w)
      \/ \E b \in Approvals : Approve(b) \/ Refuse(b)
  BY <1>6, SilentStep
<1>8. ASSUME NEW w \in Workers, Speaks(w) PROVE Goal
  BY <1>2, <1>3, <1>4, <1>8 DEF Speaks
<1>9. Goal
  BY <1>1, <1>5, <1>7, <1>8
<1> QED
  BY <1>9 DEF Goal

(* A write is appended by Write, and by nothing else.                      *)
LEMMA WritesGrow ==
  ASSUME ExecInv, [Next]_vars
  PROVE  \/ writes' = writes
         \/ \E w \in Workers : Write(w)
<1> USE DEF ExecInv
<1>1. ASSUME NEW w \in Workers, Speaks(w), ~Write(w) PROVE writes' = writes
  BY <1>1, AskedOne, AskFailsEffect DEF Speaks
<1>2. ASSUME NEW a \in Approvals, Approve(a) \/ Refuse(a) PROVE writes' = writes
  BY <1>2, ReplyEffect
<1>3. CASE Silent
  BY <1>3 DEF Silent
<1> QED
  BY <1>1, <1>2, <1>3, SilentStep

(* The write appended: its authority was granted for its step or its plan. *)
LEMMA WriteEffect ==
  ASSUME ExecInv, NEW w \in Workers, Write(w)
  PROVE  /\ UNCHANGED <<approval, granted, local>> /\ pc' = [pc EXCEPT ![w] = "record"]
         /\ Len(writes') = Len(writes) + 1
         /\ DOMAIN writes' = DOMAIN writes \cup {Len(writes')}
         /\ \A n \in DOMAIN writes : writes'[n] = writes[n] /\ n # Len(writes')
         /\ writes'[Len(writes')].step = local[w].step
         /\ writes'[Len(writes')].authority = local[w].authority
         /\ local[w].step.plan = local[w].plan
         /\ local[w].authority \in granted
         /\ approval[local[w].authority].scope \in {local[w].step, local[w].plan}
         /\ pc[w] = "write"
<1>1. /\ pc[w] = "write" /\ UNCHANGED <<approval, granted, local>>
      /\ pc' = [pc EXCEPT ![w] = "record"]
      /\ writes' = Append(writes, [step |-> local[w].step, authority |-> local[w].authority])
  BY DEF Write, Goto, UnchangedRows
<1>2. /\ local[w].step \in StepIds /\ local[w].step.plan = local[w].plan
      /\ local[w].authority \in granted
      /\ approval[local[w].authority].scope \in {local[w].step, local[w].plan}
  BY <1>1 DEF ExecInv, Located, Held, HeldBy, InStep
<1>3. writes \in Seq([step : StepIds, authority : Approvals])
  BY DEF ExecInv, TypeOK
<1>4. /\ Len(writes') = Len(writes) + 1
      /\ DOMAIN writes' = DOMAIN writes \cup {Len(writes')}
      /\ \A n \in DOMAIN writes : writes'[n] = writes[n] /\ n # Len(writes')
      /\ writes'[Len(writes')] = [step |-> local[w].step, authority |-> local[w].authority]
  BY <1>1, <1>3
<1> QED
  BY <1>1, <1>2, <1>4

(* A write carries the authority its worker holds. *)
LEMMA WritesStep == ExecInv /\ [Next]_vars => WritesAuthorised'
<1> SUFFICES ASSUME ExecInv, [Next]_vars PROVE WritesAuthorised'
  OBVIOUS
<1>1. ASSUME NEW n \in DOMAIN writes
      PROVE  /\ writes[n].authority \in granted'
             /\ approval'[writes[n].authority].scope \in {writes[n].step, writes[n].step.plan}
  <2>1. /\ writes[n].authority \in granted
        /\ approval[writes[n].authority].scope \in {writes[n].step, writes[n].step.plan}
    BY DEF ExecInv, WritesAuthorised
  <2> QED
    BY <2>1, GrantedStable
<1>2. CASE writes' = writes
  BY <1>1, <1>2 DEF WritesAuthorised
<1>3. ASSUME NEW w \in Workers, Write(w) PROVE WritesAuthorised'
  BY <1>1, <1>3, WriteEffect DEF WritesAuthorised
<1> QED
  BY <1>2, <1>3, WritesGrow

(* A second write under the plan's approval would be made by a worker that *)
(* consumed an approval which was consumed.                                *)
LEMMA SingleUseStep == ExecInv /\ [Next]_vars => PlanApprovalSingleUse'
<1> SUFFICES ASSUME ExecInv, [Next]_vars PROVE PlanApprovalSingleUse'
  OBVIOUS
<1>1. ASSUME NEW n \in DOMAIN writes
      PROVE  approval'[writes[n].authority].scope = approval[writes[n].authority].scope
  <2>1. writes[n].authority \in granted
    BY DEF ExecInv, WritesAuthorised
  <2> QED
    BY <2>1, GrantedStable
<1>2. CASE writes' = writes
  BY <1>1, <1>2 DEF ExecInv, PlanApprovalSingleUse
<1>3. ASSUME NEW w \in Workers, Write(w) PROVE PlanApprovalSingleUse'
  <2>1. OfPlan(local[w].authority) =>
          \A n \in DOMAIN writes : writes[n].authority # local[w].authority
    BY <1>3, WriteEffect DEF ExecInv, Consumed
  <2> QED
    BY <1>1, <1>3, <2>1, WriteEffect DEF ExecInv, PlanApprovalSingleUse, OfPlan
<1> QED
  BY <1>2, <1>3, WritesGrow

(* The gate lets a worker write under a plan's approval only by consuming  *)
(* it, and a consumed approval stays so.                                   *)
LEMMA GateEffect ==
  ASSUME ExecInv, NEW w \in Workers, Gate(w)
  PROVE  /\ pc[w] = "gate" /\ \A v \in Workers \ {w} : pc'[v] = pc[v] /\ local'[v] = local[v]
         /\ writes' = writes /\ granted' = granted
         /\ \/ pc'[w] = "askedStep"
            \/ /\ pc'[w] = "write" /\ local'[w] = local[w]
               /\ local[w].authority \in granted
               /\ \/ approval[local[w].authority].scope = local[w].step
                  \/ /\ ~approval[local[w].authority].consumed
                     /\ approval'[local[w].authority].consumed
<1>1. pc[w] = "gate" /\ writes' = writes /\ granted' = granted
  BY DEF Gate, UnchangedGhosts
<1>2. HeldBy(w) /\ local[w].step \in StepIds
  BY <1>1 DEF ExecInv, Held, Located, InStep
<1>3. CASE Ask(w, local[w].step) /\ Goto(w, "askedStep")
  <2>1. \A v \in Workers \ {w} : local'[v] = local[v]
    BY <1>2, <1>3, AskEffect DEF ExecInv
  <2> QED
    BY <1>1, <1>3, <2>1 DEF Goto, ExecInv, TypeOK
<1>4. CASE Goto(w, "write") /\ UNCHANGED <<local, approval>>
           /\ local[w].planApproval = None /\ local[w].authority # None
  BY <1>1, <1>2, <1>4 DEF Goto, HeldBy, ExecInv, TypeOK
<1>5. CASE /\ Goto(w, "write") /\ UNCHANGED local
           /\ local[w].planApproval # None
           /\ ~approval[local[w].authority].consumed
           /\ approval' = [approval EXCEPT ![local[w].authority].consumed = TRUE]
  <2>1. local[w].authority \in granted /\ local[w].authority \in Approvals
    BY <1>1, <1>2, <1>5 DEF HeldBy, ExecInv, TypeOK
  <2>2. approval'[local[w].authority].consumed
    BY <1>5, <2>1 DEF ExecInv, TypeOK, ApprovalRow
  <2> QED
    BY <1>1, <1>5, <2>1, <2>2 DEF Goto, ExecInv, TypeOK
<1> QED
  BY <1>3, <1>4, <1>5 DEF Gate

(* The approval of a plan a worker writes under is consumed, and its own. *)
LEMMA ConsumedStep == ExecInv /\ [Next]_vars => Consumed'
<1> SUFFICES ASSUME ExecInv, [Next]_vars PROVE Consumed'
  OBVIOUS
<1> DEFINE Alone(w) ==
      OfPlan(local[w].authority) =>
        /\ approval[local[w].authority].consumed
        /\ \A n \in DOMAIN writes : writes[n].authority # local[w].authority
        /\ \A v \in Workers : pc[v] = "write" /\ local[v].authority = local[w].authority => v = w
<1>1. \A a \in granted : approval'[a].scope = approval[a].scope
                         /\ (approval[a].consumed => approval'[a].consumed)
  BY GrantedStable
<1>2. \A n \in DOMAIN writes : writes[n].authority \in granted
  BY DEF ExecInv, WritesAuthorised
<1>3. \A w \in Workers : pc[w] = "write" => local[w].authority \in granted /\ Alone(w)
  BY DEF ExecInv, Held, HeldBy, Consumed
<1>4. \A n \in DOMAIN writes :
        OfPlan(writes[n].authority) => approval[writes[n].authority].consumed
  BY DEF ExecInv, Consumed
\* nobody new comes to the point of writing
<1>5. ASSUME writes' = writes,
             \A v \in Workers : pc'[v] = "write" => pc[v] = "write" /\ local'[v] = local[v]
      PROVE  Consumed'
  BY <1>1, <1>2, <1>3, <1>4, <1>5 DEF Consumed, OfPlan
<1>6. CASE Silent
  BY <1>5, <1>6 DEF Silent
<1>7. ASSUME NEW w \in Workers, Draft(w) PROVE Consumed'
  <2>1. \A v \in Workers \ {w} : pc'[v] = pc[v] /\ local'[v] = local[v]
    <3>1. PICK p \in Plans : \/ Ask(w, p) /\ Goto(w, "askedPlan")
                             \/ /\ local' = [local EXCEPT ![w].plan = p]
                                /\ Goto(w, "drafted")
      BY <1>7 DEF Draft
    <3> QED
      BY <3>1, AskEffect DEF Goto, ExecInv, TypeOK
  <2>2. pc'[w] # "write" /\ writes' = writes
    BY <1>7 DEF Draft, Goto, UnchangedGhosts, ExecInv, TypeOK
  <2> QED
    BY <1>5, <2>1, <2>2
<1>8. ASSUME NEW w \in Workers, AskFails(w) PROVE Consumed'
  <2>1. writes' = writes
        /\ \A v \in Workers : pc'[v] = "write" => pc[v] = "write" /\ local'[v] = local[v]
    BY <1>8 DEF AskFails, Leave, Goto, UnchangedGhosts, ExecInv, TypeOK
  <2> QED
    BY <1>5, <2>1
<1>9. ASSUME NEW a \in Approvals, Approve(a) \/ Refuse(a) PROVE Consumed'
  BY <1>5, <1>9, ReplyEffect DEF ExecInv
<1>10. ASSUME NEW w \in Workers, Gate(w) PROVE Consumed'
  <2>1. CASE pc'[w] = "askedStep"
    BY <1>5, <1>10, <2>1, GateEffect
  <2>2. CASE pc'[w] = "write" /\ approval[local[w].authority].scope = local[w].step
    <3>1. ~OfPlan(local[w].authority)
      BY <1>10, <2>2, ScopeAssumption DEF OfPlan, Gate, ExecInv, Located, InStep
    <3> QED
      BY <1>1, <1>2, <1>3, <1>4, <1>10, <2>2, <3>1, GateEffect DEF Consumed, OfPlan
  <2>3. CASE /\ pc'[w] = "write"
             /\ ~approval[local[w].authority].consumed
             /\ approval'[local[w].authority].consumed
    <3>1. local[w].authority \in granted /\ local'[w] = local[w]
      BY <1>10, <2>3, GateEffect
    <3>2. OfPlan(local[w].authority) =>
            /\ \A n \in DOMAIN writes : writes[n].authority # local[w].authority
            /\ \A v \in Workers : pc[v] = "write" => local[v].authority # local[w].authority
      BY <1>3, <1>4, <2>3
    <3> QED
      BY <1>1, <1>2, <1>3, <1>4, <1>10, <2>3, <3>1, <3>2, GateEffect DEF Consumed, OfPlan
  <2> QED
    BY <1>10, <2>1, <2>2, <2>3, GateEffect
<1>11. ASSUME NEW w \in Workers, Write(w) PROVE Consumed'
  <2>1. /\ \A v \in Workers : pc'[v] = "write" => v # w /\ pc[v] = "write" /\ local'[v] = local[v]
        /\ pc[w] = "write"
    BY <1>11, WriteEffect DEF ExecInv, TypeOK
  <2>2. \A v \in Workers : pc'[v] = "write" /\ OfPlan(local[v].authority) =>
          local[v].authority # local[w].authority
    BY <1>3, <2>1
  <2> QED
    BY <1>1, <1>2, <1>3, <1>4, <1>11, <2>1, <2>2, WriteEffect DEF Consumed, OfPlan
<1> QED
  BY <1>6, <1>7, <1>8, <1>9, <1>10, <1>11, SilentStep DEF Speaks, ExecInv

-----------------------------------------------------------------------------
(* Nothing is held or written initially. *)
LEMMA ExecInit == Init => ExecInv
<1> SUFFICES ASSUME Init PROVE ExecInv
  OBVIOUS
<1>1. TypeOK
  <2>1. Idle \in LocalRow
    BY DEF Idle, LocalRow
  <2>2. run \in RunRow /\ writes \in Seq([step : StepIds, authority : Approvals])
    BY DEF Init, RunRow
  <2>3. approval \in [Approvals -> ApprovalRow] /\ task \in [Approvals -> TaskRow]
    BY DEF Init, ApprovalRow, TaskRow
  <2> QED
    BY <2>1, <2>2, <2>3 DEF Init, TypeOK, StepStatus
<1>2. Located /\ Held
  BY DEF Init, Located, Held, HeldBy, Idle, Before, InStep
<1>3. Answered
  BY DEF Init, Answered
<1>4. Consumed /\ WritesAuthorised /\ PlanApprovalSingleUse
  BY DEF Init, Consumed, WritesAuthorised, PlanApprovalSingleUse
<1> QED
  BY <1>1, <1>2, <1>3, <1>4 DEF ExecInv

(* The invariant in every reachable state. *)
LEMMA ExecInvariant == Spec => []ExecInv
<1>1. ExecInv /\ [Next]_vars => ExecInv'
  BY TypeStep, LocatedStep, AnsweredStep, HeldStep, ConsumedStep, WritesStep, SingleUseStep
     DEF ExecInv
<1> QED
  BY ExecInit, <1>1, PTL DEF Spec

(* Every variable keeps its type, whatever fails or races. *)
THEOREM ExecutionTyped == Spec => []TypeOK
<1>1. ExecInv => TypeOK
  BY DEF ExecInv
<1> QED
  BY <1>1, ExecInvariant, PTL

(* No write without a human's approval of its step or of its plan.         *)
THEOREM EveryWriteAuthorised == Spec => []WritesAuthorised
<1>1. ExecInv => WritesAuthorised
  BY DEF ExecInv
<1> QED
  BY <1>1, ExecInvariant, PTL

(* One write for each approved plan, among any number of racing workers.   *)
THEOREM PlanApprovalUsedOnce == Spec => []PlanApprovalSingleUse
<1>1. ExecInv => PlanApprovalSingleUse
  BY DEF ExecInv
<1> QED
  BY <1>1, ExecInvariant, PTL

-----------------------------------------------------------------------------
(* The execution implements the ledger.                                    *)

(* No request, no answer, no write. *)
LEMMA LedgerInit == Init => Ledger!Init
  BY DEF Init, Ledger!Init, answerOf, scopeOf

(* A request made by a worker is a request of the ledger. *)
LEMMA LedgerAsk ==
  ASSUME ExecInv, NEW w \in Workers, NEW what \in Plans \cup StepIds, Ask(w, what),
         UNCHANGED <<granted, writes>>
  PROVE  Ledger!Next
<1>1. PICK a \in Approvals :
        /\ approval[a].status = "unused"
        /\ approval'[a].status = "pending" /\ approval'[a].scope = what
        /\ \A b \in Approvals \ {a} : approval'[b] = approval[b]
  BY AskEffect DEF ExecInv
<1>2. a \notin granted
  BY <1>1 DEF ExecInv, Answered
<1>3. answerOf[a] = "unused" /\ answerOf' = [answerOf EXCEPT ![a] = "pending"]
  BY <1>1, <1>2 DEF answerOf
<1>4. scopeOf' = [scopeOf EXCEPT ![a] = what]
  BY <1>1 DEF scopeOf
<1>5. Ledger!Ask(a, what)
  BY <1>3, <1>4 DEF Ledger!Ask
<1> QED
  BY <1>5 DEF Ledger!Next

(* Every step is a step of the ledger or leaves it alone. *)
LEMMA LedgerStep ==
  ASSUME ExecInv, [Next]_vars
  PROVE  [Ledger!Next]_<<answerOf, scopeOf, writes>>
<1> DEFINE Goal == [Ledger!Next]_<<answerOf, scopeOf, writes>>
<1>typed. TypeOK /\ Located /\ Answered /\ Held /\ Consumed
  BY DEF ExecInv
<1>1. ASSUME UNCHANGED <<approval, granted, writes>> PROVE Goal
  BY <1>1 DEF answerOf, scopeOf
<1>2. ASSUME NEW w \in Workers, Draft(w) PROVE Goal
  <2>1. UNCHANGED <<granted, writes>>
    BY <1>2 DEF Draft, UnchangedGhosts
  <2>2. (\E p \in Plans : Ask(w, p)) \/ UNCHANGED approval
    BY <1>2 DEF Draft
  <2> QED
    BY <1>1, <2>1, <2>2, LedgerAsk
<1>3. ASSUME NEW w \in Workers, Gate(w) PROVE Goal
  <2>1. UNCHANGED <<granted, writes>> /\ local[w].step \in StepIds
    BY <1>3, <1>typed DEF Gate, UnchangedGhosts, Located, InStep
  <2>2. CASE Ask(w, local[w].step)
    BY <2>1, <2>2, LedgerAsk
  \* the ledger does not see a consumption, it sees the write
  <2>3. CASE approval' = [approval EXCEPT ![local[w].authority].consumed = TRUE]
    <3>1. \A a \in Approvals : /\ approval'[a].status = approval[a].status
                               /\ approval'[a].scope = approval[a].scope
      BY <2>3, <1>typed DEF TypeOK, ApprovalRow
    <3>2. answerOf' = answerOf /\ scopeOf' = scopeOf
      BY <2>1, <3>1 DEF answerOf, scopeOf
    <3> QED
      BY <2>1, <3>2
  <2> QED
    BY <1>1, <1>3, <2>1, <2>2, <2>3 DEF Gate
<1>4. ASSUME NEW w \in Workers, AskFails(w) PROVE Goal
  <2> DEFINE a == local[w].authority
  <2>1. /\ a \in Approvals /\ approval[a].status # "unused"
        /\ approval' = [approval EXCEPT ![a].status = "failed"]
        /\ UNCHANGED <<granted, writes>>
    BY <1>4, <1>typed DEF AskFails, Held, HeldBy, UnchangedGhosts
  <2> HIDE DEF a
  <2>2. /\ approval'[a].status = "failed" /\ approval'[a].scope = approval[a].scope
        /\ \A b \in Approvals \ {a} : approval'[b] = approval[b]
    BY <2>1, <1>typed DEF TypeOK, ApprovalRow
  <2>3. scopeOf' = scopeOf
    BY <2>1, <2>2 DEF scopeOf
  <2>4. CASE approval[a].status = "pending"
    <3>1. a \notin granted
      BY <2>1, <2>4, <1>typed DEF Answered
    <3>2. answerOf[a] = "pending" /\ answerOf' = [answerOf EXCEPT ![a] = "refused"]
      BY <2>1, <2>2, <2>4, <3>1 DEF answerOf
    <3>3. Ledger!Answer(a, "refused")
      BY <2>1, <2>3, <3>2 DEF Ledger!Answer
    <3> QED
      BY <2>1, <3>3 DEF Ledger!Next
  <2>5. CASE approval[a].status # "pending"
    <3>1. answerOf' = answerOf
      BY <2>1, <2>2, <2>5 DEF answerOf
    <3> QED
      BY <2>1, <2>3, <3>1
  <2> QED
    BY <2>4, <2>5
<1>5. ASSUME NEW w \in Workers, Write(w) PROVE Goal
  <2> DEFINE a == local[w].authority
             s == local[w].step
  <2>1. /\ writes' = Append(writes, [step |-> s, authority |-> a])
        /\ s \in StepIds /\ a \in granted /\ a \in Approvals
        /\ approval[a].scope \in {s, s.plan}
        /\ UNCHANGED <<approval, granted>>
    BY <1>5, <1>typed DEF Write, UnchangedRows, Located, Held, HeldBy, InStep, TypeOK
  <2>2. approval[a].scope \in Plans => \A n \in DOMAIN writes : writes[n].authority # a
    BY <1>5, <1>typed DEF Write, Consumed, OfPlan
  <2> HIDE DEF a, s
  <2>3. answerOf[a] = "granted" /\ scopeOf[a] = approval[a].scope
        /\ answerOf' = answerOf /\ scopeOf' = scopeOf
    BY <2>1 DEF answerOf, scopeOf
  <2>4. Ledger!Write(s, a)
    BY <2>1, <2>2, <2>3 DEF Ledger!Write, Ledger!Covers, Ledger!Spent
  <2> QED
    BY <2>1, <2>4 DEF Ledger!Next
<1>6. ASSUME NEW a \in Approvals, Approve(a) \/ Refuse(a) PROVE Goal
  <2>1. /\ UNCHANGED writes /\ approval[a].status = "pending" /\ a \notin granted
        /\ \A b \in Approvals : approval'[b].scope = approval[b].scope
        /\ \A b \in Approvals \ {a} : approval'[b].status = approval[b].status
        /\ \/ granted' = granted \cup {a}
           \/ granted' = granted /\ approval'[a].status \in {"rejected", "expired"}
    BY <1>6, <1>typed, ReplyEffect DEF Answered
  <2>2. scopeOf' = scopeOf /\ answerOf[a] = "pending"
    BY <2>1 DEF scopeOf, answerOf
  <2>3. \E reply \in {"granted", "refused"} : answerOf' = [answerOf EXCEPT ![a] = reply]
    <3>1. CASE granted' = granted \cup {a}
      <4>1. answerOf' = [answerOf EXCEPT ![a] = "granted"]
        BY <2>1, <3>1 DEF answerOf
      <4> QED
        BY <4>1
    <3>2. CASE granted' = granted /\ approval'[a].status \in {"rejected", "expired"}
      <4>1. answerOf' = [answerOf EXCEPT ![a] = "refused"]
        BY <2>1, <3>2 DEF answerOf
      <4> QED
        BY <4>1
    <3> QED
      BY <2>1, <3>1, <3>2
  <2>4. \E reply \in {"granted", "refused"} : Ledger!Answer(a, reply)
    BY <2>1, <2>2, <2>3 DEF Ledger!Answer
  <2> QED
    BY <2>4 DEF Ledger!Next
<1>7. ASSUME NEW w \in Workers, Speaks(w) PROVE Goal
  BY <1>2, <1>3, <1>4, <1>5, <1>7 DEF Speaks
<1>8. Silent => UNCHANGED <<approval, granted, writes>>
  BY DEF Silent
<1> HIDE DEF Goal
<1>9. Goal
  BY <1>1, <1>6, <1>7, <1>8, <1>typed, SilentStep
<1> QED
  BY <1>9 DEF Goal

(* Every run of the execution, faults included, is a run of the ledger.    *)
THEOREM ImplementsLedger == Spec => LedgerSpec
<1>1. ExecInv /\ [Next]_vars => [Ledger!Next]_<<answerOf, scopeOf, writes>>
  BY LedgerStep
<1> QED
  BY LedgerInit, <1>1, ExecInvariant, PTL DEF Spec, LedgerSpec, Ledger!Spec

-----------------------------------------------------------------------------
(* One worker at a time: leases outlast their workers, nobody dies, no     *)
(* request overtakes a resumption, and nobody answers a request before the *)
(* worker that made it has suspended the run.                              *)
Ordinary == ~EarlyApproval /\ ~StrayRequests /\ ~Overlap /\ ~Crashes

Looping(w) == pc[w] \in InLoop

(* Where a worker is on its way to suspend the run. *)
Asking == {"askedPlan", "askedStep", "after", "blocking", "closing"}

(* Where it works on the plan the run's row names. *)
OnPlan == InLoop \ {"capped", "plan", "draft", "drafted", "askedPlan"}

(* One worker owns the run, which is not queued meanwhile, and leaves it   *)
(* at rest.                                                                *)
Serial ==
  /\ \A v, w \in Workers : Looping(v) /\ Looping(w) => v = w
  /\ \A w \in Workers : Looping(w) => run.status # "queued"
  /\ \A w \in Workers : pc[w] = "closing" => run.status # "running"

(* The request the run waits for: pending, or answered with the answer not *)
(* yet acted upon.                                                         *)
Open(a) == approval[a].status = "pending" \/ task[a].todo # "none"

(* There is at most one, its worker is suspending the run or gone, and     *)
(* nothing moves before the resumption is complete.                        *)
Waiting ==
  /\ \A a \in Approvals : approval[a].status \in {"unused", "pending"} => task[a].todo = "none"
  /\ \A a, b \in Approvals : Open(a) /\ Open(b) => a = b
  /\ \A a \in Approvals, w \in Workers : Open(a) /\ Looping(w) =>
       /\ approval[a].status = "pending" /\ local[w].authority = a
       /\ pc[w] \in Asking
       /\ pc[w] = "after" => step[local[w].step] = "blocked"
  /\ \A a \in Approvals : Open(a) =>
       /\ run.status # "succeeded"
       /\ (\A w \in Workers : ~Looping(w)) =>
            /\ run.status # "running"
            /\ run.status = "queued" => task[a].todo = "unblock"

(* The worker's plan is the run's; a plan laid out exists. *)
OwnPlan ==
  /\ \A w \in Workers : pc[w] \in OnPlan => local[w].plan = run.plan /\ run.plan # None
  /\ \A w \in Workers : pc[w] \in {"drafted", "askedPlan"} =>
       /\ local[w].plan \in Plans
       /\ draft[local[w].plan] # <<>> /\ StepsOf(local[w].plan) = {}
  /\ run.plan # None => draft[run.plan] # <<>>
  /\ \A s \in StepIds : step[s] # "absent" => draft[s.plan] # <<>>

(* The rows the worker goes by say what it believes. *)
Current ==
  \A w \in Workers :
    /\ \A s \in local[w].todo : step[s] = "pending"
    /\ pc[w] \in InStep \ {"audit", "after", "blocking"} => step[local[w].step] = "running"
    /\ pc[w] = "audit" => step[local[w].step] = "succeeded"

(* A plan whose steps have been laid out has a row for each. *)
LaidOut(p) == \A k \in DOMAIN draft[p] : \E s \in StepsOf(p) : s.index = k
Row(p, k, w) == [plan |-> p, index |-> k, by |-> w]

(* Laying out a plan is all or nothing, unless it fails the run for good.  *)
Layout ==
  /\ \A w \in Workers : pc[w] = "create" =>
       \E n \in 0..(Len(draft[run.plan]) - 1) :
         StepsOf(run.plan) = {Row(run.plan, k, w) : k \in 1..n}
  /\ run.plan # None =>
       \/ StepsOf(run.plan) = {}
       \/ LaidOut(run.plan)
       \/ \E w \in Workers : pc[w] = "create"
       \/ /\ run.status = "failed"
          /\ \A w \in Workers : ~Looping(w)
          /\ \A a \in Approvals : ~Open(a)
  /\ \A w \in Workers :
       pc[w] \in OnPlan \ {"resume", "hydrate", "create"} =>
         LaidOut(run.plan)

(* Nobody touches what a run that succeeded rests on. *)
Finished ==
  run.status = "succeeded" =>
    /\ \A w \in Workers : Looping(w) => pc[w] = "closing"
    /\ PlanCompleted

OrdinaryInv == Serial /\ Waiting /\ OwnPlan /\ Current /\ Layout /\ Finished

(* What every step of a worker leaves alone. *)
LEMMA WorkerFrame ==
  ASSUME ExecInv, Ordinary, NEW w \in Workers, Work(w)
  PROVE  /\ task' = task
         /\ \A v \in Workers \ {w} : pc'[v] = pc[v] /\ local'[v] = local[v]
         /\ Looping(w) \/ Claim(w) \/ Enqueue(w)
         /\ pc[w] \in {"idle", "enqueue"} \/ Looping(w)
<1>exec. TypeOK /\ Located
  BY DEF ExecInv
<1>1. task' = task
  BY DEF Work, UnchangedGhosts, Claim, GiveUp, ResumePlan, StartIteration, Draft, AwaitApproval,
         Adopt, AskFails, Hydrate, CreateStep, Pick, Perform, Gate, Write, Record, Audit, BlockStep,
         AfterStep, FinalizeBlocked, StepsDone, Succeed, Close, RetrySteps, ResetFailed, Replan,
         TimeOut, Throw, Enqueue, Crash
<1>2. \A v \in Workers \ {w} : pc'[v] = pc[v] /\ local'[v] = local[v]
  <2>1. CASE Draft(w)
    <3>1. PICK p \in Plans : \/ Ask(w, p) /\ Goto(w, "askedPlan")
                             \/ /\ local' = [local EXCEPT ![w].plan = p]
                                /\ Goto(w, "drafted")
      BY <2>1 DEF Draft
    <3> QED
      BY <3>1, <1>exec, AskEffect DEF Goto, TypeOK
  <2>2. CASE Gate(w)
    BY <2>2, GateEffect
  <2>3. CASE ~Draft(w) /\ ~Gate(w)
    BY <1>exec, <2>3
       DEF TypeOK, Work, Goto, Leave, Claim, GiveUp, ResumePlan, StartIteration, AwaitApproval,
           Adopt, AskFails, Hydrate, CreateStep, Pick, Perform, Write, Record, Audit, BlockStep,
           AfterStep, FinalizeBlocked, StepsDone, Succeed, Close, RetrySteps, ResetFailed, Replan,
           TimeOut, Throw, Enqueue, Crash
  <2> QED
    BY <2>1, <2>2, <2>3
<1>3. Looping(w) \/ Claim(w) \/ Enqueue(w)
  BY DEF Ordinary, Looping, InLoop, Work, GiveUp, ResumePlan, StartIteration, Draft, AwaitApproval,
         Adopt, AskFails, Hydrate, CreateStep, Pick, Perform, Gate, Write, Record, Audit, BlockStep,
         AfterStep, FinalizeBlocked, StepsDone, Succeed, Close, RetrySteps, ResetFailed, Replan,
         TimeOut, Throw, Crash
<1>4. pc[w] \in {"idle", "enqueue"} \/ Looping(w)
  BY <1>exec DEF TypeOK, Looping
<1> QED
  BY <1>1, <1>2, <1>3, <1>4

(* What a worker's step makes of the run's status. *)
LEMMA WorkerStatus ==
  ASSUME ExecInv, Ordinary, Serial, NEW w \in Workers, Work(w)
  PROVE  /\ Looping(w)' => run'.status # "queued"
         /\ pc'[w] = "closing" => run'.status # "running"
         /\ Looping(w)' => Looping(w) \/ Claim(w)
         /\ ~Looping(w)' =>
              run'.status # "running" \/ (run'.status = run.status /\ ~Looping(w))
<1>exec. TypeOK
  BY DEF ExecInv
<1>1. CASE Claim(w)
  BY <1>1, <1>exec DEF Claim, Goto, SetStatus, TypeOK, RunRow, InLoop, Looping
<1>2. CASE Enqueue(w)
  BY <1>2, <1>exec DEF Enqueue, Goto, SetStatus, TypeOK, RunRow, InLoop, Looping
<1>3. CASE Looping(w) /\ (AwaitApproval(w) \/ GiveUp(w) \/ AskFails(w) \/ Close(w) \/ ResetFailed(w)
                          \/ Replan(w) \/ TimeOut(w) \/ Throw(w))
  BY <1>3, <1>exec
     DEF AwaitApproval, GiveUp, AskFails, Close, ResetFailed, Replan, TimeOut, Throw, Leave, Goto,
         SetStatus, TypeOK, RunRow, InLoop, Looping, Serial
<1>4. CASE Looping(w) /\ (AfterStep(w) \/ FinalizeBlocked(w) \/ Succeed(w) \/ Adopt(w)
                          \/ RetrySteps(w) \/ StartIteration(w))
  BY <1>4, <1>exec
     DEF AfterStep, FinalizeBlocked, Succeed, Adopt, RetrySteps, StartIteration, Goto,
         SetStatus, TypeOK, RunRow, InLoop, Looping, Serial
<1>5. CASE Looping(w) /\ (ResumePlan(w) \/ Draft(w) \/ Hydrate(w) \/ CreateStep(w) \/ Pick(w)
                          \/ Perform(w) \/ Gate(w) \/ Write(w) \/ Record(w) \/ Audit(w)
                          \/ BlockStep(w) \/ StepsDone(w))
  BY <1>5, <1>exec
     DEF ResumePlan, Draft, Hydrate, CreateStep, Pick, Perform, Gate, Write, Record, Audit,
         BlockStep, StepsDone, Goto, TypeOK, InLoop, Looping, Serial
<1> QED
  BY <1>1, <1>2, <1>3, <1>4, <1>5, WorkerFrame DEF Work, Ordinary, Crash

(* At most one worker owns the run. *)
LEMMA SerialStep ==
  ASSUME ExecInv, Ordinary, Serial, Waiting, [Next]_vars
  PROVE  Serial'
<1>exec. TypeOK
  BY DEF ExecInv
<1>1. CASE UNCHANGED vars
  BY <1>1 DEF vars, Serial, Looping
<1>2. ASSUME NEW w \in Workers, Work(w) PROVE Serial'
  <2>1. \A v \in Workers \ {w} : Looping(v)' = Looping(v) /\ pc'[v] = pc[v]
    BY <1>2, WorkerFrame DEF Looping
  <2>2. ASSUME Looping(w)', NEW v \in Workers \ {w}, Looping(v) PROVE FALSE
    BY <1>2, <2>2, WorkerStatus DEF Serial, Claim
  <2>3. ASSUME NEW v \in Workers \ {w}, Looping(v), ~Looping(w)'
        PROVE  run'.status = run.status \/ run'.status = "failed"
    <3>1. ~Looping(w)
      BY <2>3 DEF Serial
    <3>2. Enqueue(w)
      BY <1>2, <2>3, <3>1, WorkerFrame DEF Claim, Serial
    <3> QED
      BY <3>2, <1>exec DEF Enqueue, SetStatus, TypeOK, RunRow
  <2> QED
    BY <1>2, <2>1, <2>2, <2>3, WorkerStatus DEF Serial, Looping, InLoop
<1>3. ASSUME NEW a \in Approvals, Resolver(a) PROVE Serial'
  <2>1. pc' = pc
    BY <1>3 DEF Resolver, Approve, Refuse, Resolve, Resume, Unblock, CancelRefused
  <2>2. CASE Resume(a)
    <3>1. \A w \in Workers : ~Looping(w)
      BY <2>2, <1>exec DEF Resume, Waiting, Open
    <3> QED
      BY <2>1, <3>1 DEF Serial, Looping, InLoop
  <2>3. CASE run'.status \in {run.status, "cancelled"}
    BY <2>1, <2>3 DEF Serial, Looping
  <2> QED
    BY <1>3, <2>2, <2>3, <1>exec DEF Resolver, Approve, Refuse, Resolve, Unblock, CancelRefused,
       SetStatus, TypeOK, RunRow
<1>4. CASE Cancel
  BY <1>4, <1>exec DEF Cancel, SetStatus, TypeOK, RunRow, Serial, Looping
<1>5. CASE RecoverStaleClaims
  BY <1>5, <1>exec DEF RecoverStaleClaims, Ordinary, SetStatus, TypeOK, RunRow, Serial, Looping,
     InLoop
<1> QED
  BY <1>1, <1>2, <1>3, <1>4, <1>5 DEF Next

(* A worker that asks has no other request open, and then waits for this.  *)
LEMMA WaitingAsk ==
  ASSUME ExecInv, Ordinary, Serial, Waiting, Finished, Serial',
         NEW w \in Workers, NEW what \in Plans \cup StepIds, Ask(w, what),
         pc[w] \in {"draft", "gate"}, pc'[w] \in {"askedPlan", "askedStep"},
         \A v \in Workers \ {w} : pc'[v] = pc[v], UNCHANGED <<run, task>>
  PROVE  Waiting'
<1>1. PICK a \in Approvals :
        /\ approval[a].status = "unused"
        /\ approval'[a].status = "pending"
        /\ \A b \in Approvals \ {a} : approval'[b] = approval[b]
        /\ local'[w].authority = a
  BY AskEffect DEF ExecInv
<1>2. \A b \in Approvals : ~Open(b)
  BY DEF Waiting, Looping, InLoop, Asking
<1>3. \A b \in Approvals : Open(b)' <=> b = a
  BY <1>1, <1>2 DEF Open, Waiting
<1>4. \A v \in Workers : Looping(v)' <=> v = w
  BY DEF Serial, Looping, InLoop
<1>5. run.status # "succeeded"
  BY DEF Finished, Looping, InLoop
<1> QED
  BY <1>1, <1>2, <1>3, <1>4, <1>5 DEF Waiting, Open, Asking

(* Where no request is made, answered or voided, the open one stays open.  *)
LEMMA WaitingSame ==
  ASSUME TypeOK, Waiting, task' = task,
         \A a \in Approvals : approval'[a].status = approval[a].status,
         \A a \in Approvals : Open(a) =>
           /\ \A w \in Workers : Looping(w)' =>
                /\ Looping(w) /\ local'[w].authority = local[w].authority
                /\ pc'[w] \in Asking
                /\ pc'[w] = "after" => step'[local'[w].step] = "blocked"
           /\ run'.status # "succeeded"
           /\ \/ run'.status = run.status /\ \A w \in Workers : Looping(w)' = Looping(w)
              \/ run'.status \notin {"queued", "running"}
              \/ \E w \in Workers : Looping(w)'
  PROVE  Waiting'
<1>1. \A a \in Approvals : Open(a)' = Open(a)
  BY DEF Open
<1> QED
  BY <1>1 DEF Waiting

(* One step of a worker that makes, answers or voids no request. *)
LEMMA WaitingWork ==
  ASSUME ExecInv, Ordinary, Serial, Waiting, NEW w \in Workers, Work(w),
         ~Draft(w), ~Gate(w), ~AskFails(w)
  PROVE  Waiting'
<1>exec. TypeOK
  BY DEF ExecInv
<1>1. approval' = approval
  BY DEF Work, UnchangedRows, Claim, GiveUp, ResumePlan, StartIteration, AwaitApproval,
         Adopt, Hydrate, CreateStep, Pick, Perform, Write, Record, Audit, BlockStep,
         AfterStep, FinalizeBlocked, StepsDone, Succeed, Close, RetrySteps, ResetFailed, Replan,
         TimeOut, Throw, Enqueue, Crash
<1>2. /\ task' = task
      /\ \A v \in Workers \ {w} : pc'[v] = pc[v] /\ local'[v] = local[v]
  BY WorkerFrame
<1> DEFINE Kept(a) ==
      /\ \A v \in Workers : Looping(v)' =>
           /\ Looping(v) /\ local'[v].authority = local[v].authority
           /\ pc'[v] \in Asking
           /\ pc'[v] = "after" => step'[local'[v].step] = "blocked"
      /\ run'.status # "succeeded"
      /\ \/ run'.status = run.status /\ \A v \in Workers : Looping(v)' = Looping(v)
         \/ run'.status \notin {"queued", "running"}
         \/ \E v \in Workers : Looping(v)'
<1>3. ASSUME NEW a \in Approvals, Open(a) PROVE Kept(a)
  <2>1. CASE Claim(w)
    BY <1>3, <2>1 DEF Claim, Serial, Waiting, Ordinary, Open
  <2>2. CASE Enqueue(w)
    <3>1. step' = step /\ run'.status \in {run.status, "failed"} /\ local'[w] = local[w]
          /\ ~Looping(w) /\ ~Looping(w)'
      BY <2>2, <1>exec DEF Enqueue, UnchangedRows, SetStatus, Goto, TypeOK, RunRow, Looping, InLoop
    <3> QED
      BY <1>2, <1>3, <3>1 DEF Waiting, Looping
  <2>3. CASE Looping(w)
    <3>1. /\ pc[w] \in Asking /\ local[w].authority = a
          /\ pc[w] = "after" => step[local[w].step] = "blocked"
          /\ run.status # "succeeded"
      BY <1>3, <2>3 DEF Waiting
    <3>2. AwaitApproval(w) \/ BlockStep(w) \/ AfterStep(w) \/ FinalizeBlocked(w) \/ Close(w)
            \/ Throw(w)
      BY <3>1, <2>3 DEF Asking, Ordinary, Work, Claim, GiveUp, ResumePlan, StartIteration, Adopt,
         Hydrate, CreateStep, Pick, Perform, Write, Record, Audit, StepsDone, Succeed, RetrySteps,
         ResetFailed, Replan, TimeOut, Crash, Enqueue, Looping, InLoop
    <3>3. \A v \in Workers : Looping(v)' => v = w
      BY <1>2, <2>3 DEF Serial, Looping
    <3>4. CASE AwaitApproval(w) \/ Close(w) \/ Throw(w)
      <4>1. ~Looping(w)' /\ run'.status \notin {"queued", "running", "succeeded"}
        BY <2>3, <3>1, <3>4, <1>exec DEF AwaitApproval, Close, Throw, Leave, Goto, SetStatus,
           TypeOK, RunRow, Looping, InLoop, Serial
      <4> QED
        BY <3>3, <4>1
    <3>5. CASE BlockStep(w)
      <4>1. local[w].step \in StepIds
        BY <3>5 DEF BlockStep, ExecInv, Located, InStep
      <4>2. run' = run /\ pc'[w] = "after" /\ local'[w] = local[w]
            /\ step'[local[w].step] = "blocked"
        BY <3>5, <4>1, <1>exec DEF BlockStep, Goto, TypeOK
      <4> QED
        BY <2>3, <3>1, <3>3, <4>2 DEF Looping, InLoop, Asking
    <3>6. CASE AfterStep(w) \/ FinalizeBlocked(w)
      <4>1. /\ run'.status = "blocked" /\ pc'[w] \in {"blocking", "closing"}
            /\ local'[w] = local[w]
        BY <3>1, <3>6, <1>exec DEF AfterStep, FinalizeBlocked, Goto, SetStatus, TypeOK, RunRow
      <4> QED
        BY <2>3, <3>3, <4>1 DEF Looping, InLoop, Asking
    <3> QED
      BY <3>2, <3>4, <3>5, <3>6
  <2> QED
    BY <2>1, <2>2, <2>3, WorkerFrame
<1> QED
  BY <1>1, <1>2, <1>3, <1>exec, WaitingSame

(* The open request is the only one, and nothing moves past it. *)
LEMMA WaitingStep ==
  ASSUME ExecInv, Ordinary, Serial, Waiting, Finished, Serial', [Next]_vars
  PROVE  Waiting'
<1>exec. TypeOK /\ Located /\ Held
  BY DEF ExecInv
<1>1. CASE UNCHANGED vars
  BY <1>1 DEF vars, Waiting, Open, Looping
<1>2. ASSUME NEW w \in Workers, Work(w) PROVE Waiting'
  <2>1. CASE Draft(w)
    <3>1. PICK p \in Plans : \/ Ask(w, p) /\ Goto(w, "askedPlan")
                             \/ Goto(w, "drafted") /\ UNCHANGED approval
      BY <2>1 DEF Draft
    <3>2. /\ pc[w] = "draft" /\ UNCHANGED <<run, task>>
          /\ \A v \in Workers \ {w} : pc'[v] = pc[v]
      BY <1>2, <2>1, WorkerFrame DEF Draft
    <3>3. CASE Ask(w, p) /\ Goto(w, "askedPlan")
      <4>1. pc'[w] = "askedPlan"
        BY <3>3, <1>exec DEF Goto, TypeOK
      <4> QED
        BY <3>2, <3>3, <4>1, WaitingAsk
    <3>4. CASE Goto(w, "drafted") /\ UNCHANGED approval
      <4>1. \A a \in Approvals : ~Open(a)
        BY <3>2 DEF Waiting, Looping, InLoop, Asking
      <4> QED
        BY <3>2, <3>4, <4>1, <1>exec, WaitingSame
    <3> QED
      BY <3>1, <3>3, <3>4
  <2>2. CASE Gate(w)
    <3>1. /\ pc[w] = "gate" /\ UNCHANGED <<run, task>> /\ local[w].step \in StepIds
          /\ \A v \in Workers \ {w} : pc'[v] = pc[v]
      BY <1>2, <2>2, <1>exec, WorkerFrame DEF Gate, Located, InStep
    <3>2. CASE Ask(w, local[w].step) /\ Goto(w, "askedStep")
      <4>1. pc'[w] = "askedStep"
        BY <3>2, <1>exec DEF Goto, TypeOK
      <4> QED
        BY <3>1, <3>2, <4>1, WaitingAsk
    <3>3. CASE \/ UNCHANGED approval
               \/ approval' = [approval EXCEPT ![local[w].authority].consumed = TRUE]
      <4>1. \A a \in Approvals : ~Open(a)
        BY <3>1 DEF Waiting, Looping, InLoop, Asking
      <4>2. \A a \in Approvals : approval'[a].status = approval[a].status
        <5>1. CASE UNCHANGED approval
          BY <5>1
        <5>2. CASE approval' = [approval EXCEPT ![local[w].authority].consumed = TRUE]
          BY <5>2, <1>exec DEF TypeOK, ApprovalRow
        <5> QED
          BY <3>3, <5>1, <5>2
      <4> QED
        BY <3>1, <4>1, <4>2, <1>exec, WaitingSame
    <3> QED
      BY <2>2, <3>2, <3>3 DEF Gate
  <2>3. CASE AskFails(w)
    <3> DEFINE a == local[w].authority
    <3>1. /\ Looping(w) /\ a \in Approvals /\ task' = task
          /\ approval' = [approval EXCEPT ![a].status = "failed"]
          /\ run' = [run EXCEPT !.status = "failed"]
          /\ approval[a].status # "unused"
      BY <2>3, <1>exec DEF AskFails, SetStatus, UnchangedGhosts, Held, HeldBy, Looping, InLoop
    <3> HIDE DEF a
    <3>2. \A b \in Approvals : Open(b) => b = a /\ approval[b].status = "pending"
                                          /\ task[b].todo = "none"
      BY <3>1 DEF Waiting, a
    <3>3. approval'[a].status = "failed"
          /\ \A b \in Approvals \ {a} : approval'[b].status = approval[b].status
      BY <3>1, <1>exec DEF TypeOK, ApprovalRow
    <3>4. \A b \in Approvals : ~Open(b)'
      BY <3>1, <3>2, <3>3 DEF Open
    <3> QED
      BY <3>1, <3>3, <3>4 DEF Waiting, Open
  <2>4. CASE ~Draft(w) /\ ~Gate(w) /\ ~AskFails(w)
    BY <1>2, <2>4, WaitingWork
  <2> QED
    BY <2>1, <2>2, <2>3, <2>4
<1>3. ASSUME NEW a \in Approvals, Approve(a) \/ Refuse(a) PROVE Waiting'
  <2>1. PICK reply \in {"approved", "rejected", "expired"}, next \in {"resume", "cancel"} :
          Resolve(a, reply, next)
    BY <1>3 DEF Approve, Refuse
  <2>2. Open(a) /\ \A w \in Workers : ~Looping(w)
    BY <2>1 DEF Resolve, Open, Waiting, Ordinary, Suspending, Asking
  <2>3. /\ \A b \in Approvals \ {a} : approval'[b] = approval[b] /\ task'[b] = task[b]
        /\ approval'[a].status = reply /\ task'[a].todo = next
        /\ UNCHANGED <<run, pc, local, step>>
    BY <2>1, <1>exec DEF Resolve, TypeOK, ApprovalRow, TaskRow
  <2>4. \A b \in Approvals : Open(b)' = Open(b)
    BY <2>2, <2>3 DEF Open
  <2>5. \A w \in Workers : ~Looping(w)'
    BY <2>2, <2>3 DEF Looping
  <2>6. run.status \notin {"queued", "running"}
    BY <2>1, <2>2 DEF Waiting, Resolve
  <2> QED
    BY <2>2, <2>3, <2>4, <2>5, <2>6 DEF Waiting
<1>4. ASSUME NEW a \in Approvals, Resume(a) PROVE Waiting'
  <2>1. Open(a) /\ \A w \in Workers : ~Looping(w)
    BY <1>4 DEF Resume, Open, Waiting
  <2>2. /\ task'[a].todo = "unblock" /\ \A b \in Approvals \ {a} : task'[b] = task[b]
        /\ run'.status = "queued" /\ UNCHANGED <<approval, pc, local, step>>
    BY <1>4, <1>exec DEF Resume, UnchangedRows, SetStatus, TypeOK, TaskRow, RunRow
  <2>3. \A b \in Approvals : Open(b)' => b = a
    BY <2>1, <2>2 DEF Open, Waiting
  <2>4. \A w \in Workers : ~Looping(w)'
    BY <2>1, <2>2 DEF Looping
  <2>5. approval[a].status \notin {"unused", "pending"}
    BY <1>4 DEF Resume, Waiting
  <2> QED
    BY <2>2, <2>3, <2>4, <2>5 DEF Waiting
<1>5. ASSUME NEW a \in Approvals, Unblock(a) \/ CancelRefused(a) PROVE Waiting'
  <2>1. Open(a) /\ approval[a].status # "pending"
    BY <1>5 DEF Unblock, CancelRefused, Open, Waiting
  <2>2. /\ task'[a].todo = "none" /\ \A b \in Approvals \ {a} : task'[b] = task[b]
        /\ approval' = approval
    BY <1>5, <1>exec DEF Unblock, CancelRefused, UnchangedRows, TypeOK, TaskRow
  <2>3. \A b \in Approvals : ~Open(b)'
    BY <2>1, <2>2 DEF Open, Waiting
  <2> QED
    BY <2>2, <2>3 DEF Waiting
<1>6. CASE Cancel
  <2>1. /\ run'.status = "cancelled" /\ UNCHANGED <<task, approval, pc, local, step>>
    BY <1>6, <1>exec DEF Cancel, UnchangedRows, UnchangedGhosts, SetStatus, TypeOK, RunRow
  <2> QED
    BY <2>1 DEF Waiting, Open, Looping
<1>7. CASE RecoverStaleClaims
  <2>1. \A a \in Approvals : ~Open(a)
    BY <1>7 DEF RecoverStaleClaims, Ordinary, Waiting, Looping, InLoop
  <2>2. UNCHANGED <<task, approval>>
    BY <1>7 DEF RecoverStaleClaims, UnchangedRows, UnchangedGhosts
  <2> QED
    BY <2>1, <2>2 DEF Waiting, Open
<1> QED
  BY <1>1, <1>2, <1>3, <1>4, <1>5, <1>6, <1>7 DEF Next, Resolver

(* A worker that is not in the loop goes by nothing. *)
LEMMA CurrentAlone ==
  ASSUME ExecInv, ExecInv', Serial', NEW w \in Workers, Looping(w)',
         \A s \in local'[w].todo : step'[s] = "pending",
         pc'[w] \in InStep \ {"audit", "after", "blocking"} => step'[local'[w].step] = "running",
         pc'[w] = "audit" => step'[local'[w].step] = "succeeded"
  PROVE  Current'
  BY DEF Current, Serial, Looping, ExecInv, Located, TypeOK, InLoop, InStep, Before

LEMMA CurrentNobody ==
  ASSUME ExecInv, ExecInv', \A w \in Workers : ~Looping(w)'
  PROVE  Current'
  BY DEF Current, Looping, ExecInv, Located, TypeOK, InLoop, InStep, Before

(* What a worker goes by is true: nobody else touches the rows. *)
LEMMA CurrentStep ==
  ASSUME ExecInv, ExecInv', Ordinary, Serial, Serial', Waiting, Current, [Next]_vars
  PROVE  Current'
<1>exec. TypeOK /\ Located
  BY DEF ExecInv
<1>1. CASE UNCHANGED <<pc, local, step>>
  BY <1>1 DEF Current
<1>2. ASSUME NEW w \in Workers, Work(w) PROVE Current'
  <2>frame. \A v \in Workers \ {w} : pc'[v] = pc[v] /\ local'[v] = local[v]
    BY <1>2, WorkerFrame
  <2> DEFINE OfW == /\ \A s \in local'[w].todo : step'[s] = "pending"
                    /\ pc'[w] \in InStep \ {"audit", "after", "blocking"} =>
                         step'[local'[w].step] = "running"
                    /\ pc'[w] = "audit" => step'[local'[w].step] = "succeeded"
  <2>now. /\ \A s \in local[w].todo : s \in StepIds /\ step[s] = "pending"
          /\ pc[w] \in InStep => local[w].step \in StepIds
          /\ pc[w] \in InStep \ {"audit", "after", "blocking"} => step[local[w].step] = "running"
          /\ pc[w] = "audit" => step[local[w].step] = "succeeded"
          /\ pc[w] \in Before => local[w].todo = {}
    BY <1>exec DEF Current, TypeOK, LocalRow, Located
  <2>1. CASE ~Looping(w)'
    <3>1. CASE \E v \in Workers : Looping(v)'
      <4>1. PICK v \in Workers : Looping(v)'
        BY <3>1
      <4>2. v # w /\ Looping(v) /\ pc'[v] = pc[v] /\ local'[v] = local[v]
        BY <2>1, <2>frame, <4>1 DEF Looping
      <4>3. step' = step
        <5>1. Enqueue(w) \/ Claim(w)
          BY <1>2, <4>2, WorkerFrame DEF Serial
        <5> QED
          BY <5>1 DEF Enqueue, Claim, UnchangedRows
      <4> QED
        BY <4>1, <4>2, <4>3, CurrentAlone DEF Current
    <3> QED
      BY <3>1, CurrentNobody
  <2>2. CASE Looping(w)'
    <3> SUFFICES OfW
      BY <2>2, CurrentAlone
    <3>1. CASE Claim(w) \/ ResumePlan(w) \/ StartIteration(w) \/ Adopt(w)
      <4>1. pc[w] \in Before /\ local'[w].todo = local[w].todo /\ pc'[w] \notin InStep
        BY <3>1, <1>exec
           DEF Claim, ResumePlan, StartIteration, Adopt, Goto, TypeOK, LocalRow, Before, InStep
      <4> QED
        BY <2>now, <4>1 DEF InStep
    <3>2. CASE Draft(w)
      <4>1. PICK p \in Plans : \/ Ask(w, p) /\ Goto(w, "askedPlan")
                               \/ local' = [local EXCEPT ![w].plan = p] /\ Goto(w, "drafted")
        BY <3>2 DEF Draft
      <4>2. local'[w].todo = local[w].todo
        BY <4>1, <1>exec, AskEffect DEF TypeOK, LocalRow
      <4>3. pc[w] \in Before /\ pc'[w] \notin InStep
        BY <3>2, <4>1, <1>exec DEF Draft, Goto, TypeOK, Before, InStep
      <4> QED
        BY <2>now, <4>2, <4>3 DEF InStep
    <3>3. CASE Hydrate(w) \/ CreateStep(w)
      <4>1. \/ /\ local' = local /\ pc'[w] = "create"
               /\ \A s \in StepIds : step[s] = "pending" => step'[s] = "pending"
            \/ local'[w].todo = Pending(local[w].plan, step') /\ pc'[w] = "pick"
        <5>1. CASE Hydrate(w)
          BY <5>1, <1>exec DEF Hydrate, Pending, Goto, UnchangedRows, TypeOK, LocalRow
        <5>2. CASE CreateStep(w)
          BY <5>2, <1>exec DEF CreateStep, Goto, TypeOK, LocalRow
        <5> QED
          BY <3>3, <5>1, <5>2
      <4> QED
        BY <2>now, <4>1 DEF Pending, InStep
    <3>4. CASE Pick(w)
      <4>1. PICK s \in local[w].todo :
              /\ step' = [step EXCEPT ![s] = "running"]
              /\ local'[w].step = s /\ local'[w].todo = local[w].todo \ {s}
              /\ pc'[w] \in {"gate", "perform"}
        BY <3>4, <1>exec DEF Pick, Goto, TypeOK, LocalRow
      <4> QED
        BY <2>now, <4>1, <1>exec DEF TypeOK, InStep
    <3>5. CASE Perform(w) \/ Record(w) \/ Audit(w) \/ BlockStep(w)
      <4>1. /\ local' = local /\ pc[w] \in InStep
            /\ step' \in {step, [step EXCEPT ![local[w].step] = step'[local[w].step]]}
            /\ \/ pc'[w] = "audit" /\ step'[local[w].step] = "succeeded"
               \/ pc'[w] = "after"
            /\ step[local[w].step] # "pending"
        BY <2>now, <3>5, <1>exec
           DEF Perform, Record, Audit, BlockStep, Goto, TypeOK, InStep
      <4> QED
        BY <2>now, <4>1, <1>exec DEF TypeOK, InStep
    <3>6. CASE Gate(w)
      <4>1. /\ pc[w] = "gate" /\ local[w].step \in StepIds
            /\ step' = [step EXCEPT ![local[w].step] = "running"]
            /\ pc'[w] \in {"write", "askedStep"}
        BY <2>now, <3>6, <1>exec DEF Gate, Goto, TypeOK, InStep
      <4>2. local'[w].todo = local[w].todo /\ local'[w].step = local[w].step
        <5>1. CASE Ask(w, local[w].step)
          BY <4>1, <5>1, <1>exec, AskEffect
        <5> QED
          BY <3>6, <5>1 DEF Gate
      <4> QED
        BY <2>now, <4>1, <4>2, <1>exec DEF TypeOK, InStep
    <3>7. CASE Write(w) \/ AfterStep(w) \/ FinalizeBlocked(w) \/ StepsDone(w) \/ Succeed(w)
                 \/ RetrySteps(w)
      <4>1. /\ step' = step
            /\ local'[w].todo = local[w].todo /\ local'[w].step = local[w].step
            /\ pc'[w] \in InStep \ {"after", "blocking"} =>
                 pc[w] \in InStep \ {"audit", "after", "blocking"} /\ pc'[w] # "audit"
        BY <3>7, <1>exec DEF Write, AfterStep, FinalizeBlocked, StepsDone, Succeed, RetrySteps,
           UnchangedRows, Goto, TypeOK, LocalRow, InStep
      <4> QED
        BY <2>now, <4>1 DEF InStep
    <3>8. \/ Claim(w) \/ ResumePlan(w) \/ StartIteration(w) \/ Adopt(w)
          \/ Draft(w) \/ Hydrate(w) \/ CreateStep(w) \/ Pick(w)
          \/ Perform(w) \/ Record(w) \/ Audit(w) \/ BlockStep(w) \/ Gate(w)
          \/ Write(w) \/ AfterStep(w) \/ FinalizeBlocked(w) \/ StepsDone(w) \/ Succeed(w)
          \/ RetrySteps(w)
      BY <1>2, <2>2, <1>exec
         DEF Work, TypeOK, Looping, InLoop, GiveUp, AwaitApproval, AskFails, Close, ResetFailed,
             Replan, TimeOut, Throw, Enqueue, Crash, Leave, Goto
    <3> QED
      BY <3>1, <3>2, <3>3, <3>4, <3>5, <3>6, <3>7, <3>8
  <2> QED
    BY <2>1, <2>2
<1>3. ASSUME NEW a \in Approvals, Resolver(a) PROVE Current'
  <2>1. CASE Unblock(a)
    <3>1. \A w \in Workers : ~Looping(w)
      BY <2>1 DEF Unblock, Waiting, Open
    <3>2. \A w \in Workers : ~Looping(w)'
      BY <2>1, <3>1 DEF Unblock, Looping
    <3> QED
      BY <3>2, CurrentNobody
  <2> QED
    BY <1>1, <1>3, <2>1 DEF Resolver, Approve, Refuse, Resolve, Resume, CancelRefused, UnchangedRows
<1>4. CASE Cancel \/ RecoverStaleClaims
  BY <1>1, <1>4 DEF Cancel, RecoverStaleClaims, UnchangedRows
<1> QED
  BY <1>1, <1>2, <1>3, <1>4 DEF Next, vars

(* Rows 1 to n of one worker's layout are n rows. *)
LEMMA RowCount ==
  ASSUME NEW p, NEW w, NEW n \in Nat
  PROVE  Cardinality({Row(p, k, w) : k \in 1..n}) = n
<1> DEFINE S == {Row(p, k, w) : k \in 1..n}
           f == [k \in 1..n |-> Row(p, k, w)]
<1>1. \A j, k \in 1..n : Row(p, j, w) = Row(p, k, w) => j = k
  BY DEF Row
<1>2. f \in [1..n -> S]
  OBVIOUS
<1>3. f \in Injection(1..n, S)
  BY <1>1, <1>2 DEF Injection, IsInjective
<1>4. f \in Surjection(1..n, S)
  BY <1>2 DEF Surjection
<1>5. ExistsBijection(1..n, S)
  BY <1>3, <1>4 DEF ExistsBijection, Bijection
<1> QED
  BY <1>5, FS_CountingElements

(* A plan once drafted stays as it is. *)
LEMMA DraftKept ==
  ASSUME ExecInv, [Next]_vars
  PROVE  \A p \in Plans : draft[p] # <<>> => draft'[p] = draft[p]
<1>1. CASE \E w \in Workers : Draft(w)
  BY <1>1 DEF Draft, ExecInv, TypeOK
<1>2. CASE UNCHANGED draft
  BY <1>2
<1> QED
  BY <1>1, <1>2
     DEF vars, UnchangedRows, Next, Work, Claim, GiveUp, ResumePlan, StartIteration, AwaitApproval,
         Adopt, AskFails, Hydrate, CreateStep, Pick, Perform, Gate, Write, Record, Audit, BlockStep,
         AfterStep, FinalizeBlocked, StepsDone, Succeed, Close, RetrySteps, ResetFailed, Replan,
         TimeOut, Throw, Enqueue, Crash, Resolver, Approve, Refuse, Resolve, Resume, Unblock,
         CancelRefused, Cancel, RecoverStaleClaims

(* Rows appear only where a plan is laid out. *)
LEMMA RowsKept ==
  ASSUME ExecInv, Current, [Next]_vars, \A w \in Workers : ~CreateStep(w)
  PROVE  \A s \in StepIds : step[s] # "absent" <=> step'[s] # "absent"
<1>exec. TypeOK /\ Located
  BY DEF ExecInv
<1>1. CASE UNCHANGED step
  BY <1>1
<1>2. ASSUME NEW w \in Workers, Pick(w)
      PROVE  \A s \in StepIds : step[s] # "absent" <=> step'[s] # "absent"
  <2>1. PICK s \in local[w].todo : step' = [step EXCEPT ![s] = "running"]
    BY <1>2 DEF Pick
  <2> QED
    BY <2>1, <1>exec DEF Current, TypeOK
<1>3. ASSUME NEW w \in Workers,
             Perform(w) \/ Gate(w) \/ Record(w) \/ Audit(w) \/ BlockStep(w) \/ AskFails(w)
      PROVE  \A s \in StepIds : step[s] # "absent" <=> step'[s] # "absent"
  <2>1. \/ step' = step
        \/ /\ step' = [step EXCEPT ![local[w].step] = step'[local[w].step]]
           /\ step'[local[w].step] # "absent" /\ step[local[w].step] # "absent"
    BY <1>3, <1>exec DEF Perform, Gate, Record, Audit, BlockStep, AskFails, Current, TypeOK,
       Located, InStep
  <2> QED
    BY <2>1, <1>exec DEF TypeOK
<1>4. ASSUME NEW w \in Workers, ResetFailed(w)
      PROVE  \A s \in StepIds : step[s] # "absent" <=> step'[s] # "absent"
  BY <1>4 DEF ResetFailed
<1>5. ASSUME NEW a \in Approvals, Unblock(a)
      PROVE  \A s \in StepIds : step[s] # "absent" <=> step'[s] # "absent"
  BY <1>5 DEF Unblock
<1> QED
  BY <1>1, <1>2, <1>3, <1>4, <1>5
     DEF vars, UnchangedRows, Next, Work, Claim, GiveUp, ResumePlan, StartIteration, Draft,
         AwaitApproval, Adopt, Hydrate, Write,
         AfterStep, FinalizeBlocked, StepsDone, Succeed, Close, RetrySteps, Replan,
         TimeOut, Throw, Enqueue, Crash, Resolver, Approve, Refuse, Resolve, Resume,
         CancelRefused, Cancel, RecoverStaleClaims

(* One more row, until there is one for each step of the plan. *)
LEMMA Created ==
  ASSUME ExecInv, OwnPlan, Layout, NEW w \in Workers, CreateStep(w)
  PROVE  LET p == run.plan
         IN  /\ pc[w] = "create" /\ p \in Plans /\ UNCHANGED <<run, draft>>
             /\ \E n \in 0..(Len(draft[p]) - 1) :
                  LET new == Row(p, n + 1, w)
                  IN  /\ new \in StepIds /\ step[new] = "absent"
                      /\ step' = [step EXCEPT ![new] = "pending"]
                      /\ StepsOf(p)' = {Row(p, k, w) : k \in 1..(n + 1)}
                      /\ IF n + 1 = Len(draft[p]) THEN pc' = [pc EXCEPT ![w] = "pick"]
                         ELSE pc' = pc
<1> DEFINE p == run.plan
<1>exec. TypeOK
  BY DEF ExecInv
<1>1. /\ pc[w] = "create" /\ p \in Plans /\ local[w].plan = p /\ UNCHANGED <<run, draft>>
      /\ draft[p] \in Drafts
  BY <1>exec DEF CreateStep, OwnPlan, OnPlan, InLoop, TypeOK, RunRow
<1>2. draft[p] \in Seq(Kinds)
  BY <1>1, ExecutionAssumption
<1>3. PICK n \in 0..(Len(draft[p]) - 1) : StepsOf(p) = {Row(p, k, w) : k \in 1..n}
  BY <1>1 DEF Layout
<1>4. {s \in StepsOf(p) : s.by = w} = StepsOf(p)
  BY <1>3 DEF Row
<1>5. n \in Nat /\ Len(draft[p]) \in Nat /\ n + 1 \in 1..Len(draft[p])
      /\ DOMAIN draft[p] = 1..Len(draft[p])
  BY <1>2, <1>3
<1>6. Cardinality({s \in StepsOf(p) : s.by = w}) = n
  BY <1>3, <1>4, <1>5, RowCount
<1> DEFINE new == Row(p, n + 1, w)
<1>7. new \in StepIds
  BY <1>1, <1>5 DEF Row, StepIds, Indices
<1>8. \A k \in 1..n : Row(p, k, w) # new
  BY <1>5 DEF Row
<1>9. step[new] = "absent"
  <2>1. new \notin StepsOf(p)
    BY <1>3, <1>8
  <2> QED
    BY <1>7, <2>1 DEF StepsOf, Row
<1>10. step' = [step EXCEPT ![new] = "pending"]
  BY <1>1, <1>6 DEF CreateStep, Row
<1>11. StepsOf(p)' = StepsOf(p) \cup {new}
  BY <1>1, <1>7, <1>10, <1>exec DEF StepsOf, Row, TypeOK
<1>12. StepsOf(p)' = {Row(p, k, w) : k \in 1..(n + 1)}
  BY <1>3, <1>5, <1>11
<1>13. IF n + 1 = Len(draft[p]) THEN pc' = [pc EXCEPT ![w] = "pick"] ELSE pc' = pc
  BY <1>1, <1>6 DEF CreateStep, Goto
<1> QED
  BY <1>1, <1>7, <1>9, <1>10, <1>12, <1>13

(* A worker in the loop keeps its plan, or takes the one it asks about or  *)
(* adopts.                                                                 *)
LEMMA PlanOfWorker ==
  ASSUME ExecInv, Ordinary, Serial, OwnPlan, Current, NEW w \in Workers, Work(w), Looping(w)'
  PROVE  /\ pc'[w] \in OnPlan => local'[w].plan = run'.plan /\ run'.plan # None
         /\ pc'[w] \in {"drafted", "askedPlan"} =>
              /\ Draft(w) /\ local'[w].plan \in Plans
              /\ draft[local'[w].plan] = <<>> /\ draft'[local'[w].plan] # <<>>
<1>exec. TypeOK /\ Located
  BY DEF ExecInv
<1> DEFINE Goal ==
      /\ pc'[w] \in OnPlan => local'[w].plan = run'.plan /\ run'.plan # None
      /\ pc'[w] \in {"drafted", "askedPlan"} =>
           /\ Draft(w) /\ local'[w].plan \in Plans
           /\ draft[local'[w].plan] = <<>> /\ draft'[local'[w].plan] # <<>>
<1> SUFFICES Goal
  OBVIOUS
<1>1. CASE Claim(w)
  BY <1>1, <1>exec
     DEF Claim, SetStatus, Goto, TypeOK, RunRow, LocalRow, OnPlan, InLoop
<1>2. CASE Draft(w)
  <2>1. PICK p \in Plans, d \in Drafts :
          /\ draft[p] = <<>> /\ draft' = [draft EXCEPT ![p] = d]
          /\ \/ Ask(w, p) /\ Goto(w, "askedPlan")
             \/ local' = [local EXCEPT ![w].plan = p] /\ Goto(w, "drafted")
    BY <1>2 DEF Draft
  <2>2. local'[w].plan = p
    BY <2>1, <1>exec, AskEffect DEF TypeOK, LocalRow
  <2>3. d # <<>>
    BY ExecutionAssumption
  <2>4. pc'[w] \in {"askedPlan", "drafted"}
    BY <2>1, <1>exec DEF Goto, TypeOK
  <2> QED
    BY <1>2, <2>1, <2>2, <2>3, <2>4, <1>exec DEF OnPlan, TypeOK
<1>3. CASE Gate(w)
  <2>1. /\ pc[w] = "gate" /\ local[w].step \in StepIds /\ run' = run
        /\ pc'[w] \in {"write", "askedStep"}
    BY <1>3, <1>exec DEF Gate, Goto, Located, InStep, TypeOK
  <2>2. local'[w].plan = local[w].plan
    <3>1. CASE Ask(w, local[w].step)
      <4>1. local[w].step \notin Plans
        BY <2>1, ScopeAssumption
      <4> QED
        BY <2>1, <3>1, <4>1, <1>exec, AskEffect
    <3> QED
      BY <1>3, <3>1 DEF Gate
  <2> QED
    BY <2>1, <2>2 DEF OwnPlan, OnPlan, InLoop
<1>4. CASE Adopt(w)
  BY <1>4, <1>exec, ScopeAssumption, ExecutionAssumption
     DEF Adopt, Goto, TypeOK, RunRow, OwnPlan, OnPlan
<1>5. CASE ResumePlan(w) \/ StartIteration(w) \/ Hydrate(w) \/ CreateStep(w) \/ Pick(w)
           \/ Perform(w) \/ Write(w) \/ Record(w) \/ Audit(w) \/ BlockStep(w) \/ AfterStep(w)
           \/ FinalizeBlocked(w) \/ StepsDone(w) \/ Succeed(w) \/ RetrySteps(w)
  <2>1. /\ run'.plan = run.plan /\ local'[w].plan = local[w].plan
        /\ pc'[w] \in OnPlan => pc[w] \in OnPlan
        /\ pc'[w] \notin {"drafted", "askedPlan"}
    <3>1. run'.plan = run.plan
      BY <1>5, <1>exec
         DEF ResumePlan, StartIteration, Hydrate, CreateStep, Pick, Perform, Write, Record, Audit,
             BlockStep, AfterStep, FinalizeBlocked, StepsDone, Succeed, RetrySteps, SetStatus,
             TypeOK, RunRow
    <3>2. local'[w].plan = local[w].plan
      <4>1. CASE ResumePlan(w) \/ Hydrate(w)
        BY <4>1, <1>exec DEF ResumePlan, Hydrate, TypeOK, LocalRow
      <4>2. CASE CreateStep(w) \/ AfterStep(w)
        BY <4>2, <1>exec DEF CreateStep, AfterStep, TypeOK, LocalRow
      <4>3. CASE Pick(w)
        BY <4>3, <1>exec DEF Pick, TypeOK, LocalRow
      <4> QED
        BY <1>5, <4>1, <4>2, <4>3
           DEF StartIteration, Perform, Write, Record, Audit, BlockStep, FinalizeBlocked,
               StepsDone, Succeed, RetrySteps
    <3>3. /\ pc'[w] \in OnPlan => pc[w] \in OnPlan
          /\ pc'[w] \notin {"drafted", "askedPlan"}
      <4>1. CASE Hydrate(w) \/ CreateStep(w) \/ AfterStep(w)
        BY <4>1, <1>exec DEF Hydrate, CreateStep, AfterStep, Goto, TypeOK, OnPlan, InLoop
      <4>2. CASE Pick(w) \/ Perform(w) \/ Write(w) \/ Record(w) \/ Audit(w)
        BY <4>2, <1>exec DEF Pick, Perform, Write, Record, Audit, Goto, TypeOK, OnPlan, InLoop
      <4>3. CASE ResumePlan(w) \/ StartIteration(w) \/ BlockStep(w) \/ FinalizeBlocked(w)
                 \/ StepsDone(w) \/ Succeed(w) \/ RetrySteps(w)
        BY <4>3, <1>exec DEF ResumePlan, StartIteration, BlockStep, FinalizeBlocked,
           StepsDone, Succeed, RetrySteps, Goto, TypeOK, OnPlan, InLoop
      <4> QED
        BY <1>5, <4>1, <4>2, <4>3
    <3> QED
      BY <3>1, <3>2, <3>3
  <2> QED
    BY <2>1 DEF OwnPlan
<1>6. \/ Claim(w) \/ ResumePlan(w) \/ StartIteration(w) \/ Adopt(w)
      \/ Draft(w) \/ Hydrate(w) \/ CreateStep(w) \/ Pick(w)
      \/ Perform(w) \/ Record(w) \/ Audit(w) \/ BlockStep(w) \/ Gate(w)
      \/ Write(w) \/ AfterStep(w) \/ FinalizeBlocked(w) \/ StepsDone(w) \/ Succeed(w)
      \/ RetrySteps(w)
  BY <1>exec
     DEF Work, TypeOK, Looping, InLoop, GiveUp, AwaitApproval, AskFails, Close, ResetFailed,
         Replan, TimeOut, Throw, Enqueue, Crash, Leave, Goto
<1> QED
  BY <1>1, <1>2, <1>3, <1>4, <1>5, <1>6

(* The run's plan is replaced by the one who owns the run. *)
LEMMA PlanOfRun ==
  ASSUME ExecInv, [Next]_vars
  PROVE  \/ run'.plan = run.plan
         \/ \E w \in Workers :
              \/ Replan(w) /\ run'.plan = None
              \/ AwaitApproval(w) /\ run'.plan = local[w].plan
              \/ Adopt(w) /\ run'.plan = local[w].plan
<1>exec. TypeOK
  BY DEF ExecInv
<1>1. ASSUME NEW s, SetStatus(s) PROVE run'.plan = run.plan
  BY <1>1, <1>exec DEF SetStatus, TypeOK, RunRow
<1>2. ASSUME NEW w \in Workers, Work(w)
      PROVE  \/ run'.plan = run.plan
             \/ Replan(w) /\ run'.plan = None
             \/ AwaitApproval(w) /\ run'.plan = local[w].plan
             \/ Adopt(w) /\ run'.plan = local[w].plan
  <2>1. CASE StartIteration(w) \/ RetrySteps(w) \/ Replan(w) \/ AwaitApproval(w) \/ Adopt(w)
    BY <2>1, <1>exec DEF StartIteration, RetrySteps, Replan, AwaitApproval, Adopt, TypeOK, RunRow
  <2>2. CASE UNCHANGED run \/ \E s : SetStatus(s)
    BY <1>1, <2>2
  <2>3. CASE Claim(w) \/ GiveUp(w) \/ AskFails(w) \/ AfterStep(w) \/ FinalizeBlocked(w)
             \/ Succeed(w) \/ Close(w) \/ ResetFailed(w) \/ TimeOut(w) \/ Throw(w) \/ Enqueue(w)
    BY <2>2, <2>3 DEF Claim, GiveUp, AskFails, AfterStep, FinalizeBlocked, Succeed, Close,
       ResetFailed, TimeOut, Throw, Enqueue
  <2> QED
    BY <1>2, <2>1, <2>2, <2>3
       DEF Work, ResumePlan, Draft, Hydrate, CreateStep, Pick, Perform, Gate, Write, Record, Audit,
           BlockStep, StepsDone, Crash
<1>3. CASE UNCHANGED run \/ \E s : SetStatus(s)
  BY <1>1, <1>3
<1> QED
  BY <1>2, <1>3 DEF Next, vars, Resolver, Approve, Refuse, Resolve, Resume, Unblock,
     CancelRefused, Cancel, RecoverStaleClaims

(* The worker's plan is the run's, and exists. *)
LEMMA OwnPlanStep ==
  ASSUME ExecInv, ExecInv', Ordinary, Serial, Serial', OwnPlan, Current, Layout, [Next]_vars
  PROVE  OwnPlan'
<1>exec. TypeOK /\ Located
  BY DEF ExecInv
<1>1. \A p \in Plans : draft[p] # <<>> => draft'[p] # <<>>
  BY DraftKept
<1>2. \A s \in StepIds : step'[s] # "absent" => draft'[s.plan] # <<>>
  <2>1. CASE \A w \in Workers : ~CreateStep(w)
    BY <1>1, <2>1, RowsKept DEF OwnPlan, StepIds
  <2>2. ASSUME NEW w \in Workers, CreateStep(w)
        PROVE  \A s \in StepIds : step'[s] # "absent" => draft'[s.plan] # <<>>
    <3>1. run.plan \in Plans /\ draft[run.plan] # <<>>
      BY <2>2, Created, ExecutionAssumption DEF OwnPlan
    <3>2. PICK n \in Nat : step' = [step EXCEPT ![Row(run.plan, n, w)] = "pending"]
      BY <2>2, <3>1, Created
    <3> QED
      BY <1>1, <3>1, <3>2, <1>exec DEF OwnPlan, TypeOK, StepIds, Row
  <2> QED
    BY <2>1, <2>2
<1>3. run'.plan # None => draft'[run'.plan] # <<>>
  <2>1. run'.plan \in Plans \cup {None} /\ run.plan \in Plans \cup {None}
    BY DEF ExecInv, TypeOK, RunRow
  <2>2. CASE run'.plan = run.plan
    BY <1>1, <2>1, <2>2 DEF OwnPlan
  <2>3. ASSUME NEW w \in Workers, AwaitApproval(w) \/ Adopt(w), run'.plan = local[w].plan
        PROVE  run'.plan # None => draft'[run'.plan] # <<>>
    <3>1. pc[w] \in {"askedPlan", "drafted"}
      BY <2>3 DEF AwaitApproval, Adopt
    <3> QED
      BY <1>1, <2>3, <3>1 DEF OwnPlan
  <2> QED
    BY <2>2, <2>3, PlanOfRun
<1>4. ASSUME NEW v \in Workers
      PROVE  /\ pc'[v] \in OnPlan => local'[v].plan = run'.plan /\ run'.plan # None
             /\ pc'[v] \in {"drafted", "askedPlan"} =>
                  /\ local'[v].plan \in Plans
                  /\ draft'[local'[v].plan] # <<>> /\ StepsOf(local[v].plan)' = {}
  <2> SUFFICES ASSUME Looping(v)'
               PROVE  /\ pc'[v] \in OnPlan => local'[v].plan = run'.plan /\ run'.plan # None
                      /\ pc'[v] \in {"drafted", "askedPlan"} =>
                           /\ local'[v].plan \in Plans
                           /\ draft'[local'[v].plan] # <<>> /\ StepsOf(local[v].plan)' = {}
    BY DEF Looping, OnPlan, InLoop
  <2>1. CASE Work(v)
    <3>1. /\ pc'[v] \in OnPlan => local'[v].plan = run'.plan /\ run'.plan # None
          /\ pc'[v] \in {"drafted", "askedPlan"} =>
               /\ Draft(v) /\ local'[v].plan \in Plans
               /\ draft[local'[v].plan] = <<>> /\ draft'[local'[v].plan] # <<>>
      BY <2>1, PlanOfWorker
    <3>2. ASSUME Draft(v), local'[v].plan \in Plans, draft[local'[v].plan] = <<>>
          PROVE  StepsOf(local[v].plan)' = {}
      <4>1. step' = step
        BY <3>2 DEF Draft
      <4> QED
        BY <3>2, <4>1 DEF StepsOf, OwnPlan
    <3> QED
      BY <3>1, <3>2
  <2>2. CASE ~Work(v)
    <3>1. /\ Looping(v) /\ pc'[v] = pc[v] /\ local'[v] = local[v]
          /\ run'.plan = run.plan
          /\ \A w \in Workers : ~CreateStep(w)
      <4>1. ASSUME NEW w \in Workers, Work(w)
            PROVE  /\ w # v /\ pc'[v] = pc[v] /\ local'[v] = local[v]
                   /\ Looping(v) /\ ~Looping(w)
        BY <2>2, <4>1, WorkerFrame DEF Looping, Serial
      <4>2. CASE \E w \in Workers : Work(w)
        <5>1. \A w \in Workers : ~CreateStep(w) /\ ~AwaitApproval(w) /\ ~Adopt(w) /\ ~Replan(w)
          BY <4>1 DEF Work, CreateStep, AwaitApproval, Adopt, Replan, Looping, InLoop
        <5> QED
          BY <4>1, <4>2, <5>1, PlanOfRun
      <4>3. CASE ~\E w \in Workers : Work(w)
        <5>1. \A w \in Workers : ~CreateStep(w) /\ ~AwaitApproval(w) /\ ~Adopt(w) /\ ~Replan(w)
          BY <4>3 DEF Work
        <5>2. UNCHANGED <<pc, local>>
          BY <4>3 DEF Next, vars, Resolver, Approve, Refuse, Resolve, Resume, Unblock,
             CancelRefused, Cancel, RecoverStaleClaims
        <5> QED
          BY <5>1, <5>2, PlanOfRun DEF Looping
      <4> QED
        BY <4>2, <4>3
    <3>2. \A p : StepsOf(p)' = StepsOf(p)
      BY <3>1, RowsKept DEF StepsOf
    <3> QED
      BY <1>1, <3>1, <3>2 DEF OwnPlan
  <2> QED
    BY <2>1, <2>2
<1> QED
  BY <1>2, <1>3, <1>4 DEF OwnPlan

(* Nobody lays out a plan, or goes on to execute it, but as Layout says. *)
LEMMA LayoutMoves ==
  ASSUME ExecInv, Ordinary, NEW w \in Workers, Work(w), ~CreateStep(w)
  PROVE  /\ pc'[w] = "create" =>
              Hydrate(w) /\ StepsOf(run.plan) = {} /\ run' = run
         /\ pc'[w] \in OnPlan \ {"resume", "hydrate", "create"} =>
              \/ pc[w] \in OnPlan \ {"resume", "hydrate", "create"}
              \/ Hydrate(w) /\ ~(StepsOf(local[w].plan) = {} /\ run.plan = local[w].plan)
         /\ pc[w] = "create" =>
              Throw(w) /\ run'.status = "failed" /\ approval' = approval
<1>exec. TypeOK
  BY DEF ExecInv
<1>1. CASE Hydrate(w)
  BY <1>1, <1>exec DEF Hydrate, Goto, TypeOK, OnPlan, InLoop
<1>2. CASE Throw(w)
  BY <1>2, <1>exec
     DEF Throw, Leave, Goto, SetStatus, UnchangedRows, TypeOK, RunRow, OnPlan, InLoop
<1>3. CASE Claim(w) \/ GiveUp(w) \/ ResumePlan(w) \/ StartIteration(w) \/ AwaitApproval(w)
           \/ Adopt(w) \/ AskFails(w) \/ Close(w) \/ ResetFailed(w) \/ Replan(w) \/ TimeOut(w)
           \/ Enqueue(w)
  BY <1>3, <1>exec
     DEF Claim, GiveUp, ResumePlan, StartIteration, AwaitApproval, Adopt, AskFails, Close,
         ResetFailed, Replan, TimeOut, Enqueue, Leave, Goto, TypeOK, OnPlan, InLoop
<1>4. CASE Draft(w)
  <2>1. pc[w] = "draft" /\ pc'[w] \in {"askedPlan", "drafted"}
    BY <1>4, <1>exec DEF Draft, Goto, TypeOK
  <2> QED
    BY <2>1 DEF OnPlan
<1>5. CASE Pick(w) \/ Perform(w) \/ Gate(w) \/ Write(w) \/ Record(w) \/ Audit(w) \/ BlockStep(w)
  BY <1>5, <1>exec
     DEF Pick, Perform, Gate, Write, Record, Audit, BlockStep, Goto, TypeOK, OnPlan, InLoop
<1>6. CASE AfterStep(w) \/ FinalizeBlocked(w) \/ StepsDone(w) \/ Succeed(w) \/ RetrySteps(w)
  BY <1>6, <1>exec
     DEF AfterStep, FinalizeBlocked, StepsDone, Succeed, RetrySteps, Goto, TypeOK, OnPlan, InLoop
<1> QED
  BY <1>1, <1>2, <1>3, <1>4, <1>5, <1>6 DEF Work, Ordinary, Crash

(* A run whose plan was left half laid out stays failed. *)
LEMMA DeadStays ==
  ASSUME ExecInv, Ordinary, run.status = "failed", \A w \in Workers : ~Looping(w),
         \A a \in Approvals : ~Open(a), [Next]_vars
  PROVE  /\ run'.status = "failed" /\ \A w \in Workers : ~Looping(w)'
         /\ \A a \in Approvals : ~Open(a)'
<1>exec. TypeOK
  BY DEF ExecInv
<1>1. ASSUME NEW w \in Workers, Work(w)
      PROVE  /\ run'.status = "failed" /\ UNCHANGED <<approval, task>>
             /\ \A v \in Workers : ~Looping(v)'
  <2>1. Enqueue(w)
    BY <1>1, WorkerFrame DEF Claim
  <2> QED
    BY <2>1, <1>exec DEF Enqueue, Goto, SetStatus, UnchangedRows, UnchangedGhosts, TypeOK, RunRow,
       Looping, InLoop
<1>2. ASSUME NEW a \in Approvals PROVE ~Resolver(a)
  BY DEF Resolver, Approve, Refuse, Resolve, Resume, Unblock, CancelRefused, Open
<1>3. ~Cancel /\ ~RecoverStaleClaims
  BY DEF Cancel, RecoverStaleClaims
<1> QED
  BY <1>1, <1>2, <1>3 DEF Next, vars, Looping, Open

(* A plan is laid out as a whole, or the run has failed for good. *)
LEMMA LayoutStep ==
  ASSUME ExecInv, ExecInv', Ordinary, Serial, Serial', Waiting, OwnPlan, OwnPlan', Current, Layout,
         [Next]_vars
  PROVE  Layout'
<1>exec. TypeOK
  BY DEF ExecInv
<1>1. ASSUME NEW w \in Workers, CreateStep(w) PROVE Layout'
  <2> DEFINE p == run.plan
  <2>1. PICK n \in 0..(Len(draft[p]) - 1) :
          /\ StepsOf(p)' = {Row(p, k, w) : k \in 1..(n + 1)}
          /\ IF n + 1 = Len(draft[p]) THEN pc' = [pc EXCEPT ![w] = "pick"] ELSE pc' = pc
    BY <1>1, Created
  <2>2. pc[w] = "create" /\ p \in Plans /\ UNCHANGED <<run, draft>>
    BY <1>1, Created
  <2>3. draft[p] \in Seq(Kinds)
    BY <2>2, <1>exec, ExecutionAssumption DEF OwnPlan, TypeOK
  <2>4. \A v \in Workers \ {w} : pc'[v] \notin OnPlan
    BY <2>1, <2>2, <1>exec DEF Serial, Looping, OnPlan, InLoop, TypeOK
  <2>5. CASE n + 1 = Len(draft[p])
    <3>1. LaidOut(run.plan)'
      <4>1. DOMAIN draft'[run'.plan] = 1..(n + 1)
        BY <2>2, <2>3, <2>5
      <4>2. \A k \in 1..(n + 1) : Row(p, k, w) \in StepsOf(p)' /\ Row(p, k, w).index = k
        BY <2>1 DEF Row
      <4>3. StepsOf(run.plan)' = StepsOf(p)'
        BY <2>2
      <4> QED
        BY <4>1, <4>2, <4>3 DEF LaidOut
    <3>2. pc'[w] = "pick"
      BY <2>1, <2>5, <1>exec DEF TypeOK
    <3> QED
      BY <2>4, <3>1, <3>2 DEF Layout, OnPlan, InLoop
  <2>6. CASE n + 1 # Len(draft[p])
    <3>1. n + 1 \in 0..(Len(draft'[run'.plan]) - 1) /\ pc' = pc
      BY <2>1, <2>2, <2>3, <2>6
    <3>2. StepsOf(run.plan)' = {Row(run'.plan, k, w) : k \in 1..(n + 1)}
      BY <2>1, <2>2
    <3>3. pc'[w] = "create" /\ \A v \in Workers \ {w} : pc'[v] \notin OnPlan
      BY <2>2, <2>4, <3>1
    <3>4. \A v \in Workers : pc'[v] = "create" =>
            \E m \in 0..(Len(draft'[run'.plan]) - 1) :
              StepsOf(run.plan)' = {Row(run'.plan, k, v) : k \in 1..m}
      BY <3>1, <3>2, <3>3 DEF OnPlan, InLoop
    <3> QED
      BY <3>3, <3>4 DEF Layout, OnPlan, InLoop
  <2> QED
    BY <2>5, <2>6
<1>2. ASSUME \A w \in Workers : ~CreateStep(w) PROVE Layout'
  <2>1. \A q : StepsOf(q)' = StepsOf(q)
    BY <1>2, RowsKept DEF StepsOf
  <2>2. \A q \in Plans : draft[q] # <<>> => draft'[q] = draft[q]
    BY DraftKept
  <2>3. \A q \in Plans : draft[q] # <<>> /\ LaidOut(q) => LaidOut(q)'
    BY <2>1, <2>2 DEF LaidOut
  <2>4. ASSUME NEW w \in Workers, AwaitApproval(w) \/ Adopt(w) \/ Replan(w) PROVE Layout'
    <3>1. /\ Looping(w) /\ Work(w)
          /\ \/ run'.plan = None
             \/ run'.plan = local[w].plan /\ pc[w] \in {"drafted", "askedPlan"}
          /\ pc'[w] \notin OnPlan \ {"resume", "hydrate"}
      BY <2>4, <1>exec DEF Work, AwaitApproval, Adopt, Replan, Leave, Goto, TypeOK, RunRow, Looping,
         OnPlan, InLoop
    <3>2. \A v \in Workers \ {w} : pc'[v] \notin OnPlan
      BY <3>1, WorkerFrame DEF Serial, Looping, OnPlan, InLoop
    <3>3. run'.plan # None => StepsOf(run.plan)' = {}
      BY <2>1, <3>1 DEF OwnPlan
    <3> QED
      BY <3>1, <3>2, <3>3 DEF Layout, OnPlan, InLoop
  <2>5. ASSUME run'.plan = run.plan PROVE Layout'
    <3> DEFINE p == run.plan
    <3>1. run.plan # None => /\ run.plan \in Plans /\ draft[run.plan] # <<>>
                             /\ draft'[run.plan] = draft[run.plan]
                             /\ draft[run.plan] \in Seq(Kinds)
      BY <2>2, <1>exec, ExecutionAssumption DEF OwnPlan, TypeOK, RunRow
    <3>2. /\ StepsOf(run.plan)' = StepsOf(run.plan)
          /\ run.plan # None /\ LaidOut(run.plan) => LaidOut(run.plan)'
      BY <2>1, <2>3, <2>5, <3>1
    <3>3. ASSUME NEW v \in Workers
          PROVE  /\ pc'[v] = "create" =>
                      pc[v] = "create" \/ (StepsOf(run.plan) = {} /\ run.plan # None)
                 /\ pc'[v] \in OnPlan \ {"resume", "hydrate", "create"} =>
                      run.plan # None /\ LaidOut(run.plan)
      <4>1. CASE Work(v)
        <5>1. pc'[v] \in OnPlan => run.plan # None
          BY <2>5 DEF OwnPlan
        <5>2. Hydrate(v) => pc[v] = "hydrate" /\ local[v].plan = run.plan /\ run.plan # None
          BY DEF Hydrate, OwnPlan, OnPlan, InLoop
        <5>3. ASSUME Hydrate(v), StepsOf(run.plan) # {} PROVE LaidOut(run.plan)
          BY <5>2, <5>3 DEF Layout, Serial, Looping, InLoop
        <5> QED
          BY <1>2, <4>1, <5>1, <5>2, <5>3, LayoutMoves DEF Layout
      <4>2. CASE ~Work(v)
        <5>1. pc'[v] = pc[v]
          BY <4>2, WorkerFrame
             DEF Next, vars, Resolver, Approve, Refuse, Resolve, Resume, Unblock,
                 CancelRefused, Cancel, RecoverStaleClaims
        <5> QED
          BY <5>1 DEF Layout, OwnPlan
      <4> QED
        BY <4>1, <4>2
    <3>4. ASSUME NEW v \in Workers, pc'[v] = "create"
          PROVE  \E n \in 0..(Len(draft'[run'.plan]) - 1) :
                   StepsOf(run.plan)' = {Row(run'.plan, k, v) : k \in 1..n}
      <4>1. run.plan # None
        BY <2>5, <3>4 DEF OwnPlan, OnPlan, InLoop
      <4>2. CASE pc[v] = "create"
        <5>1. PICK n \in 0..(Len(draft[run.plan]) - 1) :
                StepsOf(run.plan) = {Row(run.plan, k, v) : k \in 1..n}
          BY <4>2 DEF Layout
        <5>2. {Row(run'.plan, k, v) : k \in 1..n} = {Row(run.plan, k, v) : k \in 1..n}
          BY <2>5
        <5>3. draft'[run'.plan] = draft[run.plan]
          BY <2>5, <3>1, <4>1
        <5> QED
          BY <3>2, <5>1, <5>2, <5>3
      <4>3. CASE StepsOf(run.plan) = {}
        <5>1. 0 \in 0..(Len(draft'[run'.plan]) - 1)
          BY <2>5, <3>1, <4>1
        <5>2. {Row(run'.plan, k, v) : k \in 1..0} = {}
          OBVIOUS
        <5> QED
          BY <3>2, <4>3, <5>1, <5>2
      <4> QED
        BY <3>3, <3>4, <4>2, <4>3
    <3>5. ASSUME run'.plan # None
          PROVE  \/ StepsOf(run.plan)' = {}
                 \/ LaidOut(run.plan)'
                 \/ \E w \in Workers : pc'[w] = "create"
                 \/ /\ run'.status = "failed"
                    /\ \A w \in Workers : ~Looping(w)'
                    /\ \A a \in Approvals : ~Open(a)'
      <4>1. ASSUME NEW w \in Workers, pc[w] = "create", pc'[w] # "create"
            PROVE  /\ run'.status = "failed"
                   /\ \A v \in Workers : ~Looping(v)'
                   /\ \A a \in Approvals : ~Open(a)'
        <5>1. Work(w)
          BY <4>1, WorkerFrame
             DEF Next, vars, Resolver, Approve, Refuse, Resolve, Resume, Unblock,
                 CancelRefused, Cancel, RecoverStaleClaims
        <5>2. Throw(w) /\ run'.status = "failed" /\ UNCHANGED <<approval, task>>
          BY <1>2, <4>1, <5>1, LayoutMoves, WorkerFrame
        <5>3. \A v \in Workers : ~Looping(v)'
          BY <4>1, <5>1, <5>2, <1>exec, WorkerFrame
             DEF Throw, Leave, Goto, Serial, Looping, InLoop, TypeOK
        <5>4. \A a \in Approvals : ~Open(a)
          BY <4>1 DEF Waiting, Looping, InLoop, Asking
        <5> QED
          BY <5>2, <5>3, <5>4 DEF Open
      <4> QED
        BY <2>5, <3>2, <3>5, <4>1, DeadStays DEF Layout
    <3> QED
      BY <2>5, <3>2, <3>3, <3>4, <3>5 DEF Layout
  <2> QED
    BY <2>4, <2>5, PlanOfRun
<1> QED
  BY <1>1, <1>2

(* The run succeeds only by Succeed, and then nobody moves but to leave.   *)
LEMMA FinishedStep ==
  ASSUME ExecInv, Ordinary, Serial, Waiting, OwnPlan, Layout, Finished, [Next]_vars
  PROVE  Finished'
<1>exec. TypeOK
  BY DEF ExecInv
<1>1. ASSUME run.status = "succeeded" PROVE Finished'
  <2>1. \A w \in Workers : Looping(w) => pc[w] = "closing"
    BY <1>1 DEF Finished
  <2>2. \A a \in Approvals : ~Open(a)
    BY <1>1 DEF Waiting
  <2>3. ASSUME NEW w \in Workers, Work(w)
        PROVE  /\ UNCHANGED <<step, draft>> /\ (run' = run \/ run'.status = "failed")
               /\ \A v \in Workers : Looping(v)' => pc'[v] = "closing"
    <3>1. Close(w) \/ Enqueue(w)
      BY <1>1, <2>1, <2>3, WorkerFrame
         DEF Ordinary, Work, Claim, GiveUp, ResumePlan, StartIteration, Draft, AwaitApproval, Adopt,
             AskFails, Hydrate, CreateStep, Pick, Perform, Gate, Write, Record, Audit, BlockStep,
             AfterStep, FinalizeBlocked, StepsDone, Succeed, RetrySteps, ResetFailed, Replan,
             TimeOut, Throw, Crash
    <3>2. ~Looping(w)'
      BY <3>1, <1>exec DEF Close, Enqueue, Leave, Goto, TypeOK, Looping, InLoop
    <3>3. UNCHANGED <<step, draft>> /\ (run' = run \/ run'.status = "failed")
      BY <3>1, <1>exec DEF Close, Enqueue, UnchangedRows, SetStatus, TypeOK, RunRow
    <3>4. \A v \in Workers \ {w} : pc'[v] = pc[v]
      BY <2>3, WorkerFrame
    <3> QED
      BY <2>1, <3>2, <3>3, <3>4 DEF Looping
  <2>4. \A a \in Approvals : ~Resolver(a)
    BY <2>2 DEF Resolver, Approve, Refuse, Resolve, Resume, Unblock, CancelRefused, Open
  <2>5. ~Cancel /\ ~RecoverStaleClaims
    BY <1>1 DEF Cancel, RecoverStaleClaims
  <2>6. /\ UNCHANGED <<step, draft>> /\ (run' = run \/ run'.status = "failed")
        /\ \A v \in Workers : Looping(v)' => pc'[v] = "closing"
    BY <2>1, <2>3, <2>4, <2>5 DEF Next, vars, Looping
  <2>7. PlanCompleted
    BY <1>1 DEF Finished
  <2> QED
    BY <2>6, <2>7 DEF Finished, PlanCompleted, StepsOf
<1>2. ASSUME NEW w \in Workers, Succeed(w) PROVE Finished'
  <2>1. /\ pc[w] = "verify" /\ local[w].plan = run.plan /\ LaidOut(run.plan)
        /\ run.plan # None
    BY <1>2 DEF Succeed, OwnPlan, Layout, OnPlan, InLoop
  <2>2. Satisfied(run.plan) /\ UNCHANGED <<step, draft>> /\ run'.plan = run.plan
    BY <1>2, <2>1, <1>exec DEF Succeed, UnchangedRows, SetStatus, TypeOK, RunRow
  <2>3. PlanCompleted'
    BY <2>1, <2>2 DEF PlanCompleted, Satisfied, LaidOut, StepsOf
  <2>4. \A v \in Workers : Looping(v)' => pc'[v] = "closing"
    BY <1>2, <2>1, <1>exec DEF Succeed, Goto, TypeOK, Serial, Looping, InLoop
  <2> QED
    BY <2>3, <2>4 DEF Finished
<1>3. ASSUME run.status # "succeeded", \A w \in Workers : ~Succeed(w)
      PROVE  run'.status # "succeeded"
  <2>1. ASSUME NEW s, s # "succeeded", SetStatus(s) PROVE run'.status # "succeeded"
    BY <2>1, <1>exec DEF SetStatus, TypeOK, RunRow
  <2>2. ASSUME NEW w \in Workers, Work(w) PROVE run'.status # "succeeded"
    <3>1. CASE StartIteration(w) \/ RetrySteps(w) \/ Replan(w) \/ AwaitApproval(w) \/ Adopt(w)
      BY <1>3, <3>1, <1>exec
         DEF StartIteration, RetrySteps, Replan, AwaitApproval, Adopt, TypeOK, RunRow
    <3>2. CASE run' = run \/ SetStatus("running") \/ SetStatus("failed") \/ SetStatus("blocked")
               \/ SetStatus("queued")
      BY <1>3, <2>1, <3>2
    <3>3. CASE Claim(w) \/ GiveUp(w) \/ AskFails(w) \/ AfterStep(w) \/ FinalizeBlocked(w)
               \/ Close(w) \/ ResetFailed(w) \/ TimeOut(w) \/ Throw(w) \/ Enqueue(w)
      BY <3>2, <3>3 DEF Claim, GiveUp, AskFails, AfterStep, FinalizeBlocked, Close,
         ResetFailed, TimeOut, Throw, Enqueue
    <3> QED
      BY <1>3, <2>2, <3>1, <3>2, <3>3
         DEF Work, ResumePlan, Draft, Hydrate, CreateStep, Pick, Perform, Gate, Write, Record,
             Audit, BlockStep, StepsDone, Crash
  <2>3. CASE run' = run \/ SetStatus("queued") \/ SetStatus("cancelled")
    BY <1>3, <2>1, <2>3
  <2> QED
    BY <2>2, <2>3 DEF Next, vars, Resolver, Approve, Refuse, Resolve, Resume, Unblock,
       CancelRefused, Cancel, RecoverStaleClaims
<1> QED
  BY <1>1, <1>2, <1>3 DEF Finished

(* All of it, in every reachable state. *)
LEMMA OrdinaryInvariant == ASSUME Ordinary PROVE Spec => []OrdinaryInv
<1>1. Init => OrdinaryInv
  <2> SUFFICES ASSUME Init PROVE OrdinaryInv
    OBVIOUS
  <2>1. Serial
    BY DEF Init, Serial, Looping, InLoop
  <2>2. Waiting
    BY DEF Init, Waiting, Open
  <2>3. OwnPlan
    BY DEF Init, OwnPlan, OnPlan, InLoop, StepsOf
  <2>4. Current
    BY DEF Init, Current, InStep, Idle
  <2>5. Layout
    BY DEF Init, Layout, OnPlan, InLoop
  <2>6. Finished
    BY DEF Init, Finished
  <2> QED
    BY <2>1, <2>2, <2>3, <2>4, <2>5, <2>6 DEF OrdinaryInv
<1>2. ExecInv /\ ExecInv' /\ OrdinaryInv /\ [Next]_vars => OrdinaryInv'
  BY SerialStep, WaitingStep, OwnPlanStep, CurrentStep, LayoutStep, FinishedStep DEF OrdinaryInv
<1> QED
  BY <1>1, <1>2, ExecInvariant, PTL DEF Spec

(* With one worker at a time, a run that succeeded did all of its plan.    *)
THEOREM SucceededRunIsComplete == ASSUME Ordinary PROVE Spec => []PlanCompleted
<1>1. OrdinaryInv => PlanCompleted
  BY DEF OrdinaryInv, Finished, PlanCompleted
<1> QED
  BY <1>1, OrdinaryInvariant, PTL

(* A succeeded step is written to only while its success is logged. *)
LEMMA SucceededStep ==
  ASSUME ExecInv, OrdinaryInv, [Next]_vars, NEW s \in StepIds, step[s] = "succeeded",
         \A w \in Workers : pc[w] = "audit" => local[w].step # s
  PROVE  step'[s] = "succeeded"
<1>exec. TypeOK /\ Current
  BY DEF ExecInv, OrdinaryInv
<1>1. CASE UNCHANGED step
  BY <1>1
<1>2. ASSUME NEW w \in Workers, CreateStep(w) PROVE step'[s] = "succeeded"
  <2>1. PICK new \in StepIds : step[new] = "absent" /\ step' = [step EXCEPT ![new] = "pending"]
    BY <1>2, Created DEF OrdinaryInv
  <2> QED
    BY <2>1, <1>exec DEF TypeOK
<1>3. ASSUME NEW w \in Workers, Pick(w) PROVE step'[s] = "succeeded"
  <2>1. PICK t \in local[w].todo : step' = [step EXCEPT ![t] = "running"]
    BY <1>3 DEF Pick
  <2> QED
    BY <2>1, <1>exec DEF Current, TypeOK
<1>4. ASSUME NEW w \in Workers,
             Perform(w) \/ Gate(w) \/ Record(w) \/ Audit(w) \/ BlockStep(w) \/ AskFails(w)
      PROVE  step'[s] = "succeeded"
  <2>1. \/ step' = step
        \/ /\ step' = [step EXCEPT ![local[w].step] = step'[local[w].step]]
           /\ (step[local[w].step] = "running" \/ pc[w] = "audit")
    BY <1>4, <1>exec DEF Perform, Gate, Record, Audit, BlockStep, AskFails, Current, TypeOK, InStep
  <2> QED
    BY <2>1, <1>exec DEF TypeOK
<1>5. ASSUME NEW w \in Workers, ResetFailed(w) PROVE step'[s] = "succeeded"
  BY <1>5 DEF ResetFailed
<1>6. ASSUME NEW a \in Approvals, Unblock(a) PROVE step'[s] = "succeeded"
  BY <1>6 DEF Unblock
<1> QED
  BY <1>1, <1>2, <1>3, <1>4, <1>5, <1>6
     DEF vars, UnchangedRows, Next, Work, Claim, GiveUp, ResumePlan, StartIteration, Draft,
         AwaitApproval, Adopt, Hydrate, Write, AfterStep, FinalizeBlocked, StepsDone, Succeed,
         Close, RetrySteps, Replan, TimeOut, Throw, Enqueue, Crash, Resolver, Approve, Refuse,
         Resolve, Resume, CancelRefused, Cancel, RecoverStaleClaims

(* With one worker at a time, what was done and logged is never undone.    *)
THEOREM DoneIsNotRedone == ASSUME Ordinary PROVE Spec => SucceededIsFinal
<1>1. ExecInv /\ OrdinaryInv /\ [Next]_vars =>
        [\A s \in StepIds :
           step[s] = "succeeded" /\ (\A w \in Workers : pc[w] = "audit" => local[w].step # s)
             => step'[s] = "succeeded"]_vars
  BY SucceededStep
<1> QED
  BY <1>1, ExecInvariant, OrdinaryInvariant, PTL DEF Spec, SucceededIsFinal
=============================================================================
