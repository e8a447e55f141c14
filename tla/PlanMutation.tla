---------------------------- MODULE PlanMutation ----------------------------
(***************************************************************************)
(* A user changes the plan of an active run in words. mutatePlan reads the *)
(* plan's steps, asks the model what to change, and changes the rows one   *)
(* statement at a time, trusting what it read before it asked; a worker    *)
(* executes its own snapshot of the same rows meanwhile. An approval of    *)
(* the whole plan is bound to the plan's version, which mutatePlan bumps   *)
(* at its end if it inserted external writes.                              *)
(*                                                                         *)
(* One plan, laid out, and one worker at a time; how a run gets there, and *)
(* what two workers do to one plan, is the subject of StepExecution.       *)
(***************************************************************************)
EXTENDS Naturals, Sequences, FiniteSets

CONSTANTS
  Mutations,        \* calls of mutatePlan
  MaxSteps,         \* bound: rows the plan may come to have
  MaxInstructions,  \* bound: instructions in an answer of the model
  MaxRetries,       \* MAX_TRANSIENT_RETRIES, 1 in the code
  Actions,          \* what a step may do: a tool with its input
  Writes,           \* those whose tool has external_write risk
  Drafts,           \* plans the run may have
  None              \* NULL

ASSUME MutationAssumption ==
  /\ MaxSteps \in Nat /\ MaxInstructions \in Nat /\ MaxRetries \in Nat
  /\ Writes \subseteq Actions
  /\ \A d \in Drafts : d \in Seq(Actions) /\ Len(d) \in 1..MaxSteps
  /\ None \notin Nat

Steps == 1..MaxSteps

VARIABLES
  row,         \* agent_steps: status, what the step does, order_index
  run,         \* agent_runs: status and retry_count
  version,     \* agent_plans.version
  approval,    \* the approval of the plan as a whole: its version and consumed_at
  requests,    \* the requests for single steps: what was shown, granted or not
  worker,      \* the worker's place and its snapshot
  mutation,    \* the place and the snapshot of each mutatePlan
  plan,        \* ghost: the plan the user was shown
  settled,     \* ghost: the steps whose insertion was reported to the user
  modified,    \* ghost: the steps that were modified in place
  writes       \* ghost: the external writes made, and under which approval

vars == <<row, run, version, approval, requests, worker, mutation,
          plan, settled, modified, writes>>

StepStatus == {"absent", "pending", "running", "blocked", "succeeded", "failed", "skipped"}
Snapshot == [id : Steps, action : Actions \cup {None}, order : Nat]
Request == [step : Steps, action : Actions \cup {None}, granted : BOOLEAN]

RowType == [status : StepStatus, action : Actions \cup {None}, order : Nat]
WorkerType ==
  [pc : {"idle", "hydrate", "pick", "perform", "gate", "write", "verify", "closing"},
   byPlan : BOOLEAN, todo : SUBSET Snapshot, now : SUBSET Snapshot, grant : SUBSET Request,
   settled : SUBSET Steps, checked : SUBSET Steps]
MutationType ==
  [pc : {"idle", "apply", "insert", "done"}, seen : [Steps -> StepStatus], last : Nat, at : Nat,
   made : Nat, inserted : SUBSET Steps, writes : Nat]

(* Rows, snapshots and counters keep their types: whoever writes a row, it *)
(* has a status its readers know.                                          *)
TypeOK ==
  /\ row \in [Steps -> RowType]
  /\ run \in [status : {"queued", "running", "blocked", "succeeded", "over"}, retry : Nat]
  /\ version \in Nat \ {0}
  /\ approval \in [version : {None, 1}, consumed : BOOLEAN]
  /\ requests \subseteq Request
  /\ worker \in WorkerType
  /\ mutation \in [Mutations -> MutationType]
  /\ settled \subseteq Steps /\ modified \subseteq Steps

Away == [pc |-> "idle", byPlan |-> FALSE, todo |-> {}, now |-> {}, grant |-> {},
         settled |-> {}, checked |-> {}]
Ready == [pc |-> "idle", seen |-> [s \in Steps |-> "absent"], last |-> 0, at |-> 0,
          made |-> 0, inserted |-> {}, writes |-> 0]

(* A plan whose first worker ran out of time before its first step: its    *)
(* steps are laid out, and it was approved as a whole if it has a write.   *)
Init ==
  /\ plan \in Drafts
  /\ row = [s \in Steps |-> IF s \in DOMAIN plan
                              THEN [status |-> "pending", action |-> plan[s], order |-> s]
                              ELSE [status |-> "absent", action |-> None, order |-> 0]]
  /\ run = [status |-> "queued", retry |-> 0]
  /\ version = 1
  /\ approval = [version |-> IF \E k \in DOMAIN plan : plan[k] \in Writes THEN 1 ELSE None,
                 consumed |-> FALSE]
  /\ requests = {}
  /\ worker = Away
  /\ mutation = [m \in Mutations |-> Ready]
  /\ settled = {} /\ modified = {} /\ writes = {}

-----------------------------------------------------------------------------
(* The rows                                                                *)

Existing == {s \in Steps : row[s].status # "absent"}
InStatus(st) == {s \in Steps : row[s].status = st}
SetStep(s, st) == row' = [row EXCEPT ![s].status = st]
SetRun(st) == run' = [run EXCEPT !.status = st]
Active == run.status \in {"queued", "running", "blocked"}

-----------------------------------------------------------------------------
(* The worker: runLoop's resume path and executeStep                       *)

(* Mutant: the version is not compared. *)
ClaimAnyVersion ==
  /\ run.status = "queued" /\ worker.pc = "idle"
  /\ SetRun("running")
  /\ worker' = [Away EXCEPT !.pc = "hydrate", !.settled = settled,
                  !.byPlan = approval.version # None /\ ~approval.consumed]
  /\ UNCHANGED <<row, version, approval, requests, mutation, plan, settled, modified, writes>>

(* claimQueuedRunById, and the lookup of an approval of the plan's version *)
(* as it is now.                                                           *)
Claim ==
  /\ run.status = "queued" /\ worker.pc = "idle"
  /\ SetRun("running")
  /\ worker' = [Away EXCEPT !.pc = "hydrate", !.settled = settled,
                  !.byPlan = approval.version = version /\ ~approval.consumed]
  /\ UNCHANGED <<row, version, approval, requests, mutation, plan, settled, modified, writes>>

(* getStepsForPlan: the rows as they are now, inputs included.             *)
Hydrate ==
  /\ worker.pc = "hydrate"
  /\ worker' = [worker EXCEPT !.pc = "pick",
                  !.todo = {[id |-> s, action |-> row[s].action, order |-> row[s].order] :
                              s \in InStatus("pending")}]
  /\ UNCHANGED <<row, run, version, approval, requests, mutation, plan, settled, modified, writes>>

(* The next step of the snapshot, whatever its row says by now; steps of   *)
(* equal order_index come in any order.                                    *)
Pick ==
  /\ worker.pc = "pick"
  /\ \E t \in worker.todo :
       /\ \A u \in worker.todo : t.order <= u.order
       /\ SetStep(t.id, "running")
       /\ worker' = [worker EXCEPT
            !.pc = IF t.action \in Writes THEN "gate" ELSE "perform",
            !.todo = @ \ {t}, !.now = {t},
            !.grant = IF worker.byPlan THEN {}
                      ELSE {q \in requests : q.step = t.id /\ q.granted}]
  /\ UNCHANGED <<run, version, approval, requests, mutation, plan, settled, modified, writes>>

(* The outcome of a step: after a failure no further step is executed.     *)
Outcome(s, st) ==
  /\ SetStep(s, st)
  /\ worker' = [worker EXCEPT !.pc = IF st = "failed" THEN "verify" ELSE "pick", !.now = {}]

Perform ==
  /\ worker.pc = "perform"
  /\ \E t \in worker.now, st \in {"succeeded", "failed"} : Outcome(t.id, st)
  /\ UNCHANGED <<run, version, approval, requests, mutation, plan, settled, modified, writes>>

(* The policy gate. A plan's approval is consumed whatever the version is  *)
(* by now; a step's approval is used whatever it was asked for.            *)
Gate ==
  /\ worker.pc = "gate"
  /\ \/ /\ worker.byPlan /\ ~approval.consumed
        /\ approval' = [approval EXCEPT !.consumed = TRUE]
        /\ worker' = [worker EXCEPT !.pc = "write"]
        /\ UNCHANGED <<row, run, requests>>
     \/ /\ worker.grant # {}
        /\ worker' = [worker EXCEPT !.pc = "write"]
        /\ UNCHANGED <<row, run, approval, requests>>
     \/ /\ IF worker.byPlan THEN approval.consumed ELSE worker.grant = {}
        /\ \E t \in worker.now :
             /\ requests' = requests \cup {[step |-> t.id, action |-> t.action, granted |-> FALSE]}
             /\ SetStep(t.id, "blocked")
        /\ SetRun("blocked")
        /\ worker' = Away
        /\ UNCHANGED approval
  /\ UNCHANGED <<version, mutation, plan, settled, modified, writes>>

(* What the user was shown when asked for the approval this write is under.*)
Shown(t) ==
  IF worker.byPlan THEN t.id \in DOMAIN plan /\ plan[t.id] = t.action
                   ELSE \E q \in worker.grant : q.action = t.action

Write ==
  /\ worker.pc = "write"
  /\ \E t \in worker.now, st \in {"succeeded", "failed"} :
       /\ Outcome(t.id, st)
       /\ writes' = writes \cup {[shown |-> Shown(t), inPlace |-> t.id \in modified,
                                   settled |-> t.id \in worker.settled]}
  /\ UNCHANGED <<run, version, approval, requests, mutation, plan, settled, modified>>

StepsDone ==
  /\ worker.pc = "pick" /\ worker.todo = {}
  /\ worker' = [worker EXCEPT !.pc = "verify"]
  /\ UNCHANGED <<row, run, version, approval, requests, mutation, plan, settled, modified, writes>>

(* Mutant: only a failed or blocked step keeps a plan from being complete. *)
NothingWrong ==
  /\ \A s \in Existing : row[s].status \notin {"failed", "blocked"}
  /\ approval.version # None => \A q \in requests : q.granted

(* verifyRun, on rows read again: steps that a mutation removed count as   *)
(* done, and no request may be open if the plan had to be approved.        *)
Satisfied ==
  /\ \A s \in Existing : row[s].status \in {"succeeded", "skipped"}
  /\ approval.version # None => \A q \in requests : q.granted

(* The semantic verifier, a call of the model, comes between the rows that *)
(* are verified and the status.                                            *)
Verify ==
  /\ worker.pc = "verify"
  /\ Satisfied
  /\ worker' = [worker EXCEPT !.pc = "closing", !.checked = Existing]
  /\ UNCHANGED <<row, run, version, approval, requests, mutation, plan, settled, modified, writes>>

Succeed ==
  /\ worker.pc = "closing"
  /\ SetRun("succeeded")
  /\ worker' = [worker EXCEPT !.pc = "idle"]
  /\ UNCHANGED <<row, version, approval, requests, mutation, plan, settled, modified, writes>>

(* Mutant: every step that did not succeed is tried again. *)
RetryAll ==
  /\ worker.pc = "verify"
  /\ InStatus("failed") # {} /\ InStatus("blocked") = {} /\ run.retry < MaxRetries
  /\ run' = [status |-> "queued", retry |-> run.retry + 1]
  /\ row' = [s \in Steps |-> IF row[s].status \in {"failed", "skipped"}
                               THEN [row[s] EXCEPT !.status = "pending"] ELSE row[s]]
  /\ worker' = Away
  /\ UNCHANGED <<version, approval, requests, mutation, plan, settled, modified, writes>>

(* incrementRunRetry, the failed steps reset, the run queued again.        *)
Retry ==
  /\ worker.pc = "verify"
  /\ InStatus("failed") # {} /\ InStatus("blocked") = {} /\ run.retry < MaxRetries
  /\ run' = [status |-> "queued", retry |-> run.retry + 1]
  /\ row' = [s \in Steps |-> IF row[s].status = "failed"
                               THEN [row[s] EXCEPT !.status = "pending"] ELSE row[s]]
  /\ worker' = Away
  /\ UNCHANGED <<version, approval, requests, mutation, plan, settled, modified, writes>>

(* The time-out guards; and a worker that is killed, whose run is found by *)
(* recoverStaleClaims while a step it had begun stays 'running'.           *)
Yield ==
  /\ \/ worker.pc \in {"pick", "verify"} /\ SetRun("queued")
     \/ worker.pc # "idle" /\ UNCHANGED run
  /\ worker' = Away
  /\ UNCHANGED <<row, version, approval, requests, mutation, plan, settled, modified, writes>>

RecoverStaleClaims ==
  /\ run.status = "running" /\ worker.pc = "idle"
  /\ SetRun("queued")
  /\ UNCHANGED <<row, version, approval, requests, worker, mutation, plan, settled, modified, writes>>

(* Not verified, and the run gives up this plan, its mutations with it; or *)
(* runLoop's catch: finalizeRun('failed').                                 *)
GiveUp ==
  /\ worker.pc # "idle"
  /\ SetRun("over")
  /\ worker' = Away
  /\ UNCHANGED <<row, version, approval, requests, mutation, plan, settled, modified, writes>>

(* A click, and resumeAgentPipeline: all blocked steps are pending again.  *)
Grant ==
  /\ run.status = "blocked"
  /\ \E q \in requests :
       /\ ~q.granted
       /\ requests' = (requests \ {q}) \cup {[q EXCEPT !.granted = TRUE]}
  /\ row' = [s \in Steps |-> IF row[s].status = "blocked"
                               THEN [row[s] EXCEPT !.status = "pending"] ELSE row[s]]
  /\ SetRun("queued")
  /\ UNCHANGED <<version, approval, worker, mutation, plan, settled, modified, writes>>

-----------------------------------------------------------------------------
(* mutatePlan                                                              *)

WorkerSame == UNCHANGED <<run, approval, requests, worker, plan, writes>>

(* handleCancelOrUpdate picks an active run; the steps are read, then the  *)
(* model is asked.                                                         *)
Begin(m) ==
  /\ mutation[m].pc = "idle"
  /\ Active
  /\ \E last \in Existing :
       /\ \A s \in Existing : row[s].order <= row[last].order
       /\ mutation' = [mutation EXCEPT ![m].pc = "apply",
                         ![m].seen = [s \in Steps |-> row[s].status],
                         ![m].last = row[last].order]
  /\ UNCHANGED <<row, version, settled, modified>> /\ WorkerSame

(* The next instruction of the answer.                                     *)
Instruct(m) == mutation[m].pc = "apply" /\ mutation[m].made < MaxInstructions

Seen(m) == {s \in Steps : mutation[m].seen[s] = "pending"}

(* Guarded by the status in the snapshot only.                             *)
Remove(m) ==
  /\ Instruct(m)
  /\ \E s \in Seen(m) : SetStep(s, "skipped")
  /\ mutation' = [mutation EXCEPT ![m].made = @ + 1]
  /\ UNCHANGED <<version, settled, modified>> /\ WorkerSame

(* newInput and newToolName replace what the step does; no version bump.   *)
Modify(m) ==
  /\ Instruct(m)
  /\ \E s \in Seen(m), a \in Actions :
       /\ row' = [row EXCEPT ![s].action = a]
       /\ modified' = modified \cup {s}
  /\ mutation' = [mutation EXCEPT ![m].made = @ + 1]
  /\ UNCHANGED <<version, settled>> /\ WorkerSame

(* A replacement takes two statements: the step is skipped, ...            *)
Replace(m) ==
  /\ Instruct(m)
  /\ \E s \in Seen(m) :
       /\ SetStep(s, "skipped")
       /\ mutation' = [mutation EXCEPT ![m].pc = "insert", ![m].at = row[s].order]
  /\ UNCHANGED <<version, settled, modified>> /\ WorkerSame

(* ... and another inserted in its place. "add" appends: its place follows *)
(* the last step of the snapshot, also if an earlier instruction took it.  *)
Insert(m) ==
  /\ mutation[m].pc = "insert" \/ Instruct(m)
  /\ \E s \in Steps \ Existing, a \in Actions :
       /\ s - 1 \in Existing \cup {0}
       /\ row' = [row EXCEPT ![s] = [status |-> "pending", action |-> a,
            order |-> IF mutation[m].pc = "insert" THEN mutation[m].at
                                                   ELSE mutation[m].last + 1]]
       /\ mutation' = [mutation EXCEPT ![m].pc = "apply", ![m].made = @ + 1,
            ![m].inserted = @ \cup {s}, ![m].writes = IF a \in Writes THEN @ + 1 ELSE @]
  /\ UNCHANGED <<version, settled, modified>> /\ WorkerSame

(* bumpPlanVersion if writes were inserted, then "Plan updated".           *)
Finish(m) ==
  /\ mutation[m].pc = "apply"
  /\ version' = IF mutation[m].writes > 0 THEN version + 1 ELSE version
  /\ settled' = settled \cup mutation[m].inserted
  /\ mutation' = [mutation EXCEPT ![m] = [Ready EXCEPT !.pc = "done"]]
  /\ UNCHANGED <<row, modified>> /\ WorkerSame

(* A statement fails, or the function is killed: what was done stays done. *)
Abort(m) ==
  /\ mutation[m].pc \in {"apply", "insert"}
  /\ mutation' = [mutation EXCEPT ![m] = [Ready EXCEPT !.pc = "done"]]
  /\ UNCHANGED <<row, version, settled, modified>> /\ WorkerSame

-----------------------------------------------------------------------------
Mutate(m) == Begin(m) \/ Remove(m) \/ Modify(m) \/ Replace(m) \/ Insert(m) \/ Finish(m) \/ Abort(m)

Next ==
  \/ Claim \/ Hydrate \/ Pick \/ Perform \/ Gate \/ Write \/ StepsDone
  \/ Verify \/ Succeed \/ Retry \/ GiveUp \/ Yield \/ RecoverStaleClaims \/ Grant
  \/ \E m \in Mutations : Mutate(m)

Spec == Init /\ [][Next]_vars

-----------------------------------------------------------------------------
(* Properties                                                              *)

(* A write that was inserted by a mutation and reported to the user is not *)
(* covered by the approval the plan had before, by whichever worker it is  *)
(* executed after however many mutations and crashes. The ways around the  *)
(* approval are two: a step modified in place, and a worker that takes up  *)
(* the plan before the mutation has bumped the version (or had it died).   *)
ReportedWriteNeedsApproval ==
  \A w \in writes : w.shown \/ w.inPlace \/ ~w.settled

(* What a user removed stays removed: unless a worker has the step in its  *)
(* snapshot, no retry, resumption, recovery or later mutation revives it.  *)
RemovedStaysRemoved ==
  [][\A s \in Steps :
       row[s].status = "skipped" /\ (\A t \in worker.todo \cup worker.now : t.id # s)
         => row'[s].status = "skipped"]_vars

(* A run succeeds only when every step that existed when it was verified   *)
(* is done or removed, those that a mutation inserted behind the worker's  *)
(* back included.                                                          *)
NoInsertedStepForgotten ==
  run.status = "succeeded" =>
    \A s \in worker.checked : row[s].status \in {"succeeded", "skipped"}
=============================================================================
