---------------------------- MODULE StepExecution ----------------------------
(***************************************************************************)
(* What a worker does with a run it claimed, on the planner path of        *)
(* runLoop: plan, ask for approval, lay out the steps, execute them        *)
(* through the policy gate, verify, retry or replan; interleaved with      *)
(* other workers that own the run, with approvals that are answered, with  *)
(* the resumption of a suspended run, and with recovery after a crash.     *)
(*                                                                         *)
(* How a queued run reaches a worker is the subject of RunQueue: here any  *)
(* worker may claim a queued run at any time, except that without stray    *)
(* requests a resumed run is claimed only once its resumption is complete. *)
(***************************************************************************)
EXTENDS Naturals, Sequences, FiniteSets

CONSTANTS
  Workers,         \* invocations that may own the run
  Plans,           \* plans the run may draft
  Approvals,       \* approval requests the run may create
  Drafts,          \* what the planner may answer: sequences of step kinds
  MaxIterations,   \* 3 in the code
  MaxRetries,      \* MAX_TRANSIENT_RETRIES, 1 in the code
  None,            \* NULL
  EarlyApproval,   \* may a request be answered before its worker suspended the run?
  StrayRequests,   \* may a request reach a worker before the run's resumption is complete?
  Overlap,         \* may the lease of a live worker lapse?
  Crashes          \* may a worker die?

(* Step kinds: a tool with external_write risk, a destructive or           *)
(* privileged one, slack.replyInThread, and any other step (tools with     *)
(* read, draft or internal_write risk, generate and note steps).           *)
Kinds == {"write", "forbidden", "reply", "other"}

ASSUME ExecutionAssumption ==
  /\ Drafts \subseteq Seq(Kinds) \ {<<>>}
  /\ MaxIterations \in Nat \ {0} /\ MaxRetries \in Nat
  /\ None \notin Workers \cup Plans \cup Approvals
  /\ EarlyApproval \in BOOLEAN /\ StrayRequests \in BOOLEAN
  /\ Overlap \in BOOLEAN /\ Crashes \in BOOLEAN

Indices == UNION {DOMAIN d : d \in Drafts}

(* A step row: its plan, its order_index and the worker that inserted it   *)
(* (two workers may lay out the same plan).                                *)
StepIds == [plan : Plans, index : Indices, by : Workers]

ASSUME ScopeAssumption == None \notin StepIds /\ Plans \cap StepIds = {}

VARIABLES
  run,         \* agent_runs: status, plan_id, iteration_count, retry_count
  draft,       \* agent_plans: what each plan consists of, <<>> if it does not exist
  step,        \* agent_steps.status
  approval,    \* approval_requests: status, what it names, consumed_at set or not
  task,        \* what the resolver of an approval has still to do
  pc,          \* where each worker is
  local,       \* what it holds in memory
  granted,     \* ghost: the requests a human approved
  writes       \* ghost: the external writes made, with their authority

vars == <<run, draft, step, approval, task, pc, local, granted, writes>>

Idle == [plan |-> None, planApproval |-> None, todo |-> {}, step |-> None,
         authority |-> None, unblocked |-> TRUE]

InLoop == {"capped", "resume", "plan", "draft", "drafted", "askedPlan", "hydrate", "create",
           "pick", "perform", "gate", "write", "record", "askedStep", "audit", "after",
           "blocking", "verify", "reset", "closing"}

RunRow == [status : {"queued", "running", "awaiting_approval", "blocked",
                     "succeeded", "failed", "cancelled"},
           plan : Plans \cup {None}, iteration : Nat, retry : Nat]
StepStatus == {"absent", "pending", "running", "blocked", "succeeded", "failed"}
ApprovalRow == [status : {"unused", "pending", "approved", "rejected", "expired", "failed"},
                scope : Plans \cup StepIds \cup {None}, consumed : BOOLEAN]
TaskRow == [todo : {"none", "resume", "unblock", "cancel"}, plan : Plans \cup {None}]
LocalRow == [plan : Plans \cup {None}, planApproval : Approvals \cup {None},
             todo : SUBSET StepIds, step : StepIds \cup {None},
             authority : Approvals \cup {None}, unblocked : BOOLEAN]

(* Rows hold only statuses of their own kind (a step never that of a run), *)
(* and workers only steps, plans and requests that exist.                  *)
TypeOK ==
  /\ run \in RunRow
  /\ draft \in [Plans -> Drafts \cup {<<>>}]
  /\ step \in [StepIds -> StepStatus]
  /\ approval \in [Approvals -> ApprovalRow]
  /\ task \in [Approvals -> TaskRow]
  /\ pc \in [Workers -> InLoop \cup {"idle", "enqueue"}]
  /\ local \in [Workers -> LocalRow]
  /\ granted \subseteq Approvals
  /\ writes \in Seq([step : StepIds, authority : Approvals])

Init ==
  /\ run = [status |-> "queued", plan |-> None, iteration |-> 0, retry |-> 0]
  /\ draft = [p \in Plans |-> <<>>]
  /\ step = [s \in StepIds |-> "absent"]
  /\ approval = [a \in Approvals |->
                  [status |-> "unused", scope |-> None, consumed |-> FALSE]]
  /\ task = [a \in Approvals |-> [todo |-> "none", plan |-> None]]
  /\ pc = [w \in Workers |-> "idle"]
  /\ local = [w \in Workers |-> Idle]
  /\ granted = {}
  /\ writes = <<>>

-----------------------------------------------------------------------------
(* Rows                                                                    *)

StepsOf(p) == {s \in StepIds : s.plan = p /\ step[s] # "absent"}
KindOf(s) == draft[s.plan][s.index]
NeedsApproval(d) == \E k \in DOMAIN d : d[k] \in {"write", "forbidden"}

SetStatus(s) == run' = [run EXCEPT !.status = s]

(* createApprovalRequest *)
Ask(w, what) ==
  \E a \in Approvals :
    /\ approval[a].status = "unused"
    /\ approval' = [approval EXCEPT ![a].status = "pending", ![a].scope = what]
    /\ local' = [local EXCEPT ![w].authority = a, ![w].plan = IF what \in Plans THEN what ELSE @]

Goto(w, where) == pc' = [pc EXCEPT ![w] = where]

(* The invocation returns, or goes on to post a request for the queued run. *)
Leave(w, where) ==
  /\ Goto(w, where)
  /\ local' = [local EXCEPT ![w] = Idle]

UnchangedRows == UNCHANGED <<draft, step, approval>>
UnchangedGhosts == UNCHANGED <<task, granted, writes>>

-----------------------------------------------------------------------------
(* runLoop: entry, planning, approval of the plan                          *)

(* claimQueuedRunById; where the worker goes depends on the row it got. *)
Claim(w) ==
  /\ pc[w] = "idle"
  /\ run.status = "queued"
  /\ StrayRequests \/ \A a \in Approvals : task[a].todo # "unblock"
  /\ SetStatus("running")
  /\ Goto(w, IF run.iteration >= MaxIterations THEN "capped"
             ELSE IF run.plan # None THEN "resume" ELSE "plan")
  /\ local' = [local EXCEPT ![w].plan = run.plan]
  /\ UnchangedRows /\ UnchangedGhosts

(* finalizeRun('failed', 'Max iterations exhausted') *)
GiveUp(w) ==
  /\ pc[w] = "capped"
  /\ SetStatus("failed")
  /\ Leave(w, "idle")
  /\ UnchangedRows /\ UnchangedGhosts

(* Mutant: the approval of any earlier version of the plan is accepted. *)
UsableOfAnyVersion(p) == {a \in Approvals : /\ approval[a].status = "approved"
                                            /\ approval[a].scope \in Plans
                                            /\ ~approval[a].consumed}

(* Resume path: getApprovedPlanApprovalForVersion. *)
Usable(p) == {a \in Approvals : /\ approval[a].status = "approved"
                                /\ approval[a].scope = p
                                /\ ~approval[a].consumed}

ResumePlan(w) ==
  /\ pc[w] = "resume"
  /\ \E a \in Approvals \cup {None} :
       /\ IF Usable(local[w].plan) = {} THEN a = None ELSE a \in Usable(local[w].plan)
       /\ local' = [local EXCEPT ![w].planApproval = a]
  /\ Goto(w, "hydrate")
  /\ UNCHANGED run /\ UnchangedRows /\ UnchangedGhosts

(* incrementRunIteration *)
StartIteration(w) ==
  /\ pc[w] = "plan"
  /\ run' = [run EXCEPT !.iteration = @ + 1]
  /\ Goto(w, "draft")
  /\ UNCHANGED local /\ UnchangedRows /\ UnchangedGhosts

(* createPlan, and the approval request of a plan that acts externally. *)
Draft(w) ==
  /\ pc[w] = "draft"
  /\ \E p \in Plans, d \in Drafts :
       /\ draft[p] = <<>>
       /\ draft' = [draft EXCEPT ![p] = d]
       /\ IF NeedsApproval(d)
            THEN Ask(w, p) /\ Goto(w, "askedPlan")
            ELSE /\ local' = [local EXCEPT ![w].plan = p]
                 /\ Goto(w, "drafted")
                 /\ UNCHANGED approval
  /\ UNCHANGED <<run, step>> /\ UnchangedGhosts

AwaitApproval(w) ==
  /\ pc[w] = "askedPlan"
  /\ run' = [run EXCEPT !.status = "awaiting_approval", !.plan = local[w].plan]
  /\ Leave(w, "idle")
  /\ UnchangedRows /\ UnchangedGhosts

Adopt(w) ==
  /\ pc[w] = "drafted"
  /\ run' = [run EXCEPT !.status = "running", !.plan = local[w].plan]
  /\ Goto(w, "hydrate")
  /\ UNCHANGED local /\ UnchangedRows /\ UnchangedGhosts

(* An error after a request was posted voids the approval, whatever its    *)
(* status; for a step, it fails the step too. The run is failed.           *)
AskFails(w) ==
  /\ pc[w] \in {"askedPlan", "askedStep"}
  /\ approval' = [approval EXCEPT ![local[w].authority].status = "failed"]
  /\ step' = IF pc[w] = "askedStep" THEN [step EXCEPT ![local[w].step] = "failed"] ELSE step
  /\ SetStatus("failed")
  /\ Leave(w, "idle")
  /\ UNCHANGED draft /\ UnchangedGhosts

-----------------------------------------------------------------------------
(* Laying out the steps                                                    *)

Pending(p, rows) == {s \in StepIds : s.plan = p /\ rows[s] = "pending"}

(* The rows of the plan are read; if there are none they are inserted, and *)
(* the pending ones become the worker's snapshot.                          *)
Hydrate(w) ==
  LET p == local[w].plan
  IN /\ pc[w] = "hydrate"
     /\ IF StepsOf(p) = {} /\ run.plan = p
          THEN Goto(w, "create") /\ UNCHANGED local
          ELSE /\ Goto(w, "pick")
               /\ local' = [local EXCEPT ![w].todo = Pending(p, step)]
     /\ UNCHANGED run /\ UnchangedRows /\ UnchangedGhosts

CreateStep(w) ==
  LET p == local[w].plan
      k == Cardinality({s \in StepsOf(p) : s.by = w}) + 1
      rows == [step EXCEPT ![[plan |-> p, index |-> k, by |-> w]] = "pending"]
  IN /\ pc[w] = "create"
     /\ step' = rows
     /\ IF k = Len(draft[p])
          THEN /\ Goto(w, "pick")
               /\ local' = [local EXCEPT ![w].todo = Pending(p, rows)]
          ELSE UNCHANGED <<pc, local>>
     /\ UNCHANGED <<run, draft, approval>> /\ UnchangedGhosts

-----------------------------------------------------------------------------
(* executeStep                                                             *)

(* Mutant: the lookup forgets the status. *)
StepAsked(s) == {a \in Approvals : approval[a].scope = s}

StepApproved(s) == {a \in Approvals : approval[a].status = "approved" /\ approval[a].scope = s}

(* The next step of the snapshot, whatever its row says by now. *)
Pick(w) ==
  /\ pc[w] = "pick"
  /\ \E s \in local[w].todo :
       /\ \A t \in local[w].todo : s.index <= t.index
       /\ step' = [step EXCEPT ![s] = "running"]
       /\ \E a \in Approvals \cup {None} :
            /\ IF local[w].planApproval # None THEN a = local[w].planApproval
               ELSE IF StepApproved(s) = {} THEN a = None ELSE a \in StepApproved(s)
            /\ local' = [local EXCEPT ![w].step = s, ![w].authority = a,
                                      ![w].todo = @ \ {s}]
       /\ Goto(w, IF KindOf(s) = "write" THEN "gate" ELSE "perform")
  /\ UNCHANGED <<run, draft, approval>> /\ UnchangedGhosts

Perform(w) ==
  LET s == local[w].step
  IN /\ pc[w] = "perform"
     /\ \E outcome \in IF KindOf(s) = "forbidden" THEN {"blocked"}
                       ELSE {"succeeded", "failed"} :
          /\ step' = [step EXCEPT ![s] = outcome]
          /\ Goto(w, IF outcome = "succeeded" THEN "audit" ELSE "after")
     /\ UNCHANGED <<run, draft, approval, local>> /\ UnchangedGhosts

(* Mutant: the UPDATE that consumes the approval lost "consumed_at IS NULL". *)
GateUnguarded(w) ==
  LET a == local[w].authority
      ByPlan == local[w].planApproval # None
  IN /\ pc[w] = "gate"
     /\ IF a # None
          THEN /\ approval' = [approval EXCEPT ![a].consumed = ByPlan]
               /\ Goto(w, "write")
               /\ UNCHANGED local
          ELSE Ask(w, local[w].step) /\ Goto(w, "askedStep")
     /\ step' = [step EXCEPT ![local[w].step] = "running"]
     /\ UNCHANGED <<run, draft>> /\ UnchangedGhosts

(* The policy gate of an external write: the plan's approval is consumed   *)
(* by one atomic UPDATE, a step's approval is used as it is, and without   *)
(* either a request naming the step is created.                            *)
Gate(w) ==
  LET a == local[w].authority
      ByPlan == local[w].planApproval # None
  IN /\ pc[w] = "gate"
     /\ \/ /\ ByPlan /\ ~approval[a].consumed
           /\ approval' = [approval EXCEPT ![a].consumed = TRUE]
           /\ Goto(w, "write")
           /\ UNCHANGED local
        \/ /\ ~ByPlan /\ a # None
           /\ Goto(w, "write")
           /\ UNCHANGED <<approval, local>>
        \/ /\ IF ByPlan THEN approval[a].consumed ELSE a = None
           /\ Ask(w, local[w].step)
           /\ Goto(w, "askedStep")
     /\ step' = [step EXCEPT ![local[w].step] = "running"]
     /\ UNCHANGED <<run, draft>> /\ UnchangedGhosts

(* The tool acts on the outside world, then its outcome is recorded; it    *)
(* may also fail before, or time out after it acted.                       *)
Write(w) ==
  /\ pc[w] = "write"
  /\ writes' = Append(writes, [step |-> local[w].step, authority |-> local[w].authority])
  /\ Goto(w, "record")
  /\ UNCHANGED <<run, local, task, granted>> /\ UnchangedRows

Record(w) ==
  /\ pc[w] \in {"write", "record"}
  /\ \E outcome \in IF pc[w] = "record" THEN {"succeeded", "failed"} ELSE {"failed"} :
       /\ step' = [step EXCEPT ![local[w].step] = outcome]
       /\ Goto(w, IF outcome = "succeeded" THEN "audit" ELSE "after")
  /\ UNCHANGED <<run, draft, approval, local>> /\ UnchangedGhosts

(* The success is logged; if that fails, the step is failed after all. *)
Audit(w) ==
  /\ pc[w] = "audit"
  /\ UNCHANGED step \/ step' = [step EXCEPT ![local[w].step] = "failed"]
  /\ Goto(w, "after")
  /\ UNCHANGED <<run, draft, approval, local>> /\ UnchangedGhosts

BlockStep(w) ==
  /\ pc[w] = "askedStep"
  /\ step' = [step EXCEPT ![local[w].step] = "blocked"]
  /\ Goto(w, "after")
  /\ UNCHANGED <<run, draft, approval, local>> /\ UnchangedGhosts

(* Back in runLoop: the step row is read again. *)
AfterStep(w) ==
  LET row == step[local[w].step]
  IN /\ pc[w] = "after"
     /\ CASE row = "blocked" -> SetStatus("blocked") /\ Goto(w, "blocking") /\ UNCHANGED local
          [] row = "failed"  -> /\ SetStatus("running")
                                /\ local' = [local EXCEPT ![w].unblocked = FALSE]
                                /\ Goto(w, "verify")
          [] OTHER           -> Goto(w, "pick") /\ UNCHANGED <<run, local>>
     /\ UnchangedRows /\ UnchangedGhosts

(* finalizeRun('blocked') *)
FinalizeBlocked(w) ==
  /\ pc[w] = "blocking"
  /\ SetStatus("blocked")
  /\ Goto(w, "closing")
  /\ UNCHANGED local /\ UnchangedRows /\ UnchangedGhosts

StepsDone(w) ==
  /\ pc[w] = "pick"
  /\ local[w].todo = {}
  /\ Goto(w, "verify")
  /\ UNCHANGED <<run, local>> /\ UnchangedRows /\ UnchangedGhosts

-----------------------------------------------------------------------------
(* Verification, retry, replan, time-out                                   *)

(* verifyRun. The trace has the steps of the worker's plan, but the plan   *)
(* the run's row names by now and all the requests of the run.             *)
ApprovalMissing ==
  /\ run.plan # None /\ NeedsApproval(draft[run.plan])
  /\ \/ \A a \in Approvals : approval[a].status # "approved"
     \/ \E a \in Approvals : approval[a].status \in {"pending", "rejected"}

(* Mutant: a plan none of whose steps is still open is complete. *)
NothingOpen(p) ==
  /\ StepsOf(p) # {} /\ ~ApprovalMissing
  /\ \A s \in StepsOf(p) : step[s] \notin {"pending", "running", "blocked"}

Satisfied(p) ==
  /\ StepsOf(p) # {} /\ ~ApprovalMissing
  /\ \A s \in StepsOf(p) : step[s] = "succeeded"

RetryAdvised(p) ==
  /\ ~ApprovalMissing
  /\ \A s \in StepsOf(p) : step[s] # "blocked"
  /\ \E s \in StepsOf(p) : step[s] = "failed" /\ KindOf(s) = "reply"

Succeed(w) ==
  /\ pc[w] = "verify"
  /\ local[w].unblocked /\ Satisfied(local[w].plan)
  /\ SetStatus("succeeded")
  /\ Goto(w, "closing")
  /\ UNCHANGED local /\ UnchangedRows /\ UnchangedGhosts

(* The rest of finalizeRun, goal and audit event; if it throws, the run is *)
(* failed after all.                                                       *)
Close(w) ==
  /\ pc[w] = "closing"
  /\ UNCHANGED run \/ SetStatus("failed")
  /\ Leave(w, "idle")
  /\ UnchangedRows /\ UnchangedGhosts

(* incrementRunRetry; the failed steps are reset next. *)
RetrySteps(w) ==
  /\ pc[w] = "verify"
  /\ RetryAdvised(local[w].plan) /\ run.retry < MaxRetries
  /\ run' = [run EXCEPT !.retry = @ + 1]
  /\ Goto(w, "reset")
  /\ UNCHANGED local /\ UnchangedRows /\ UnchangedGhosts

(* Mutant: the whole plan is reset, not only what failed. *)
ResetAll(w) ==
  /\ pc[w] = "reset"
  /\ step' = [s \in StepIds |-> IF s \in StepsOf(local[w].plan) THEN "pending" ELSE step[s]]
  /\ SetStatus("queued")
  /\ Leave(w, "enqueue")
  /\ UNCHANGED <<draft, approval>> /\ UnchangedGhosts

ResetFailed(w) ==
  /\ pc[w] = "reset"
  /\ step' = [s \in StepIds |->
       IF s \in StepsOf(local[w].plan) /\ step[s] = "failed" THEN "pending" ELSE step[s]]
  /\ SetStatus("queued")
  /\ Leave(w, "enqueue")
  /\ UNCHANGED <<draft, approval>> /\ UnchangedGhosts

(* Also taken when the steps passed but the semantic verifier objects. *)
Replan(w) ==
  /\ pc[w] = "verify"
  /\ ~(RetryAdvised(local[w].plan) /\ run.retry < MaxRetries)
  /\ run' = [run EXCEPT !.status = "queued", !.plan = None]
  /\ Leave(w, "enqueue")
  /\ UnchangedRows /\ UnchangedGhosts

(* The wall-clock guards: before planning, before a step, before verifying. *)
TimeOut(w) ==
  /\ \/ pc[w] \in {"draft", "verify"}
     \/ pc[w] = "pick" /\ local[w].todo # {}
  /\ SetStatus("queued")
  /\ Leave(w, "enqueue")
  /\ UnchangedRows /\ UnchangedGhosts

(* Any other error: runLoop's catch. *)
Throw(w) ==
  /\ pc[w] \in InLoop \ {"askedPlan", "askedStep", "closing"}
  /\ SetStatus("failed")
  /\ Leave(w, "idle")
  /\ UnchangedRows /\ UnchangedGhosts

(* enqueueRunTask returned true, or false. *)
Enqueue(w) ==
  /\ pc[w] = "enqueue"
  /\ UNCHANGED run \/ SetStatus("failed")
  /\ Goto(w, "idle")
  /\ UNCHANGED local /\ UnchangedRows /\ UnchangedGhosts

-----------------------------------------------------------------------------
(* Everybody else                                                          *)

Suspending(a) ==
  \E w \in Workers : /\ pc[w] \in {"askedPlan", "askedStep", "after", "blocking", "closing"}
                     /\ local[w].authority = a

Resolve(a, reply, next) ==
  /\ approval[a].status = "pending"
  /\ EarlyApproval \/ ~Suspending(a)
  /\ approval' = [approval EXCEPT ![a].status = reply]
  /\ task' = [task EXCEPT ![a].todo = next]
  /\ UNCHANGED <<run, draft, step, pc, local, writes>>

Approve(a) == Resolve(a, "approved", "resume") /\ granted' = granted \cup {a}

(* Rejected by the user, or found expired by the reaper. *)
Refuse(a) ==
  /\ \E reply \in {"rejected", "expired"} : Resolve(a, reply, "cancel")
  /\ UNCHANGED granted

(* resumeAgentPipeline: the run is queued, ... *)
Resume(a) ==
  /\ task[a].todo = "resume"
  /\ SetStatus("queued")
  /\ task' = [task EXCEPT ![a] = [todo |-> "unblock", plan |-> run.plan]]
  /\ UNCHANGED <<pc, local, granted, writes>> /\ UnchangedRows

(* ... and only then the blocked steps of its plan become pending again. *)
Unblock(a) ==
  /\ task[a].todo = "unblock"
  /\ step' = [s \in StepIds |->
       IF s.plan = task[a].plan /\ step[s] = "blocked" THEN "pending" ELSE step[s]]
  /\ task' = [task EXCEPT ![a] = [todo |-> "none", plan |-> None]]
  /\ UNCHANGED <<run, draft, approval, pc, local, granted, writes>>

CancelRefused(a) ==
  /\ task[a].todo = "cancel"
  /\ SetStatus("cancelled")
  /\ task' = [task EXCEPT ![a].todo = "none"]
  /\ UNCHANGED <<pc, local, granted, writes>> /\ UnchangedRows

(* The user cancels the run. *)
Cancel ==
  /\ run.status \notin {"succeeded", "failed", "cancelled"}
  /\ SetStatus("cancelled")
  /\ UNCHANGED <<pc, local>> /\ UnchangedRows /\ UnchangedGhosts

(* recoverStaleClaims *)
RecoverStaleClaims ==
  /\ run.status = "running"
  /\ Overlap \/ \A w \in Workers : pc[w] = "idle"
  /\ SetStatus("queued")
  /\ UNCHANGED <<pc, local>> /\ UnchangedRows /\ UnchangedGhosts

Crash(w) ==
  /\ Crashes
  /\ pc[w] # "idle"
  /\ Leave(w, "idle")
  /\ UNCHANGED run /\ UnchangedRows /\ UnchangedGhosts

-----------------------------------------------------------------------------
Work(w) ==
  \/ Claim(w) \/ GiveUp(w) \/ ResumePlan(w)
  \/ StartIteration(w) \/ Draft(w) \/ AwaitApproval(w) \/ Adopt(w) \/ AskFails(w)
  \/ Hydrate(w) \/ CreateStep(w)
  \/ Pick(w) \/ Perform(w) \/ Gate(w) \/ Write(w) \/ Record(w) \/ Audit(w)
  \/ BlockStep(w) \/ AfterStep(w) \/ FinalizeBlocked(w) \/ StepsDone(w)
  \/ Succeed(w) \/ Close(w) \/ RetrySteps(w) \/ ResetFailed(w) \/ Replan(w)
  \/ TimeOut(w) \/ Throw(w) \/ Enqueue(w) \/ Crash(w)

Resolver(a) == Approve(a) \/ Refuse(a) \/ Resume(a) \/ Unblock(a) \/ CancelRefused(a)

Next ==
  \/ \E w \in Workers : Work(w)
  \/ \E a \in Approvals : Resolver(a)
  \/ Cancel \/ RecoverStaleClaims

Spec == Init /\ [][Next]_vars

-----------------------------------------------------------------------------
(* Properties                                                              *)

(* No external write without a human: the authority it carries was granted *)
(* by a user, for that very step or for the plan the step belongs to; not  *)
(* by a request refused, expired or voided before it was approved. However *)
(* many workers own the run, whoever crashes, whenever the answer comes.   *)
WritesAuthorised ==
  \A n \in DOMAIN writes :
    LET a == writes[n].authority
        s == writes[n].step
    IN a \in granted /\ approval[a].scope \in {s, s.plan}

(* The approval of a whole plan pays for one external write (executor.ts:  *)
(* "Plan-level approvals are single-use"), whichever workers race for it   *)
(* and however often the plan is resumed.                                  *)
PlanApprovalSingleUse ==
  \A m, n \in DOMAIN writes :
    writes[m].authority = writes[n].authority
      /\ approval[writes[n].authority].scope \in Plans => m = n

(* With one worker at a time, what was done is not done again: no resume,  *)
(* retry, stale snapshot or late unblocking takes a succeeded step back,   *)
(* once its success is logged.                                             *)
SucceededIsFinal ==
  [][\A s \in StepIds :
       step[s] = "succeeded" /\ (\A w \in Workers : pc[w] = "audit" => local[w].step # s)
         => step'[s] = "succeeded"]_vars

(* A run that succeeded did all of its plan: each step it was drafted with *)
(* has a row that succeeded, though the rows were laid out, blocked,       *)
(* resumed and retried by different workers.                               *)
PlanCompleted ==
  run.status = "succeeded" /\ run.plan # None =>
    \A k \in DOMAIN draft[run.plan] :
      \E s \in StepsOf(run.plan) : s.index = k /\ step[s] = "succeeded"

(* What the run's requests and writes look like to ApprovalLedger. *)
answerOf == [a \in Approvals |->
  IF a \in granted THEN "granted"
  ELSE IF approval[a].status \in {"unused", "pending"} THEN approval[a].status
  ELSE "refused"]

scopeOf == [a \in Approvals |-> approval[a].scope]

Ledger == INSTANCE ApprovalLedger WITH Nothing <- None, answer <- answerOf, scope <- scopeOf

(* The execution implements the ledger's promise. *)
LedgerSpec == Ledger!Spec
=============================================================================
