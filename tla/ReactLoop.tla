------------------------------ MODULE ReactLoop ------------------------------
(***************************************************************************)
(* The agent (ReAct) loop, the default way to execute a run: the model is  *)
(* asked turn by turn for tool calls, each call is a step of the run's     *)
(* plan, the conversation is persisted on the run's row. A turn ends in    *)
(* more turns, a final answer, a cap, or a yield (an approval, the wall    *)
(* clock), after which another invocation of the run goes on with the      *)
(* steps that are left, verifies them, and succeeds, retries or replans.   *)
(*                                                                         *)
(* One worker at a time: that two invocations may own the run, and how a   *)
(* queued run reaches a worker, are the subjects of RunQueue and           *)
(* StepExecution. Likewise an approval is answered here only once the      *)
(* worker that asked for it has returned.                                  *)
(***************************************************************************)
EXTENDS Naturals, Sequences, FiniteSets

CONSTANTS
  MaxTurns,        \* MAX_AGENT_LOOP_TURNS, 8 in the code
  MaxToolCalls,    \* MAX_TOOL_CALLS_PER_RUN, 10 in the code
  MaxIterations,   \* 3 in the code
  MaxRetries       \* MAX_TRANSIENT_RETRIES, 1 in the code

ASSUME LoopAssumption ==
  /\ MaxTurns \in Nat \ {0} /\ MaxToolCalls \in Nat \ {0}
  /\ MaxIterations \in Nat \ {0} /\ MaxRetries \in Nat

(* What the model may call: a tool with external_write risk, a destructive *)
(* or privileged one, slack.replyInThread, any other tool, and a name that *)
(* is not in the registry.                                                 *)
Tools == {"write", "forbidden", "reply", "other", "unknown"}

VARIABLES
  run,         \* agent_runs: status, plan_id (0: NULL), iteration_count, retry_count
  messages,    \* agent_runs.agent_messages: the conversation as persisted
  steps,       \* agent_steps, in the order of their creation, with their requests
  rows,        \* how many rows tool_calls has for the run
  task,        \* the plan whose blocked steps a resumption has still to reset (0: none)
  pc,          \* where the worker is; "idle": there is none
  local,       \* what it holds in memory
  observed,    \* ghost: the calls whose results the loop has seen
  dropped      \* ghost: those a crash took before their turn was persisted

rowVars == <<run, messages, steps, rows, task>>
ghosts  == <<observed, dropped>>
vars    == <<rowVars, pc, local, ghosts>>

(* A conversation: who speaks last, and the calls whose results it has.    *)
Empty == [last |-> "none", heard |-> {}]
Fresh == [last |-> "user", heard |-> {}]

Idle == [contents |-> Empty, made |-> 0, turn |-> 0, responses |-> {},
         outcome |-> "none", step |-> 0, unblocked |-> TRUE]

RunStatus == {"queued", "running", "awaiting_approval", "blocked",
              "succeeded", "failed", "cancelled"}
StepStatus == {"pending", "running", "blocked", "succeeded", "failed"}

(* The rows, and what the worker holds, keep their types; in particular    *)
(* every step the worker or a conversation names has a row.                *)
TypeOK ==
  LET Conversation == [last : {"none", "user", "model"}, heard : SUBSET DOMAIN steps]
  IN /\ run \in [status : RunStatus, plan : 0..MaxIterations,
                 iteration : 0..MaxIterations, retry : 0..MaxRetries]
     /\ messages \in Conversation
     /\ steps \in Seq([plan : 1..MaxIterations, tool : Tools \cup {"answer"},
                       status : StepStatus, acted : BOOLEAN,
                       request : {"none", "pending", "approved", "rejected", "failed"}])
     /\ rows \in Nat
     /\ task \in 0..MaxIterations
     /\ pc \in {"idle", "capped", "resume", "plan", "enter", "ask", "answer", "call", "asking",
                "acting", "push", "pick", "gate", "regate", "redo", "verify",
                "reset"}
     /\ local \in [contents : Conversation, made : Nat, turn : 0..MaxTurns,
                   responses : SUBSET DOMAIN steps,
                   outcome : {"none", "capped", "clock", "approval"},
                   step : {0} \cup DOMAIN steps, unblocked : BOOLEAN]
     /\ observed \subseteq DOMAIN steps
     /\ dropped \subseteq DOMAIN steps

Init ==
  /\ run = [status |-> "queued", plan |-> 0, iteration |-> 0, retry |-> 0]
  /\ messages = Empty
  /\ steps = <<>>
  /\ rows = 0
  /\ task = 0
  /\ pc = "idle"
  /\ local = Idle
  /\ observed = {} /\ dropped = {}

-----------------------------------------------------------------------------
(* Rows                                                                    *)

StepsOf(p) == {n \in DOMAIN steps : steps[n].plan = p}
Pending(p) == {n \in StepsOf(p) : steps[n].status = "pending"}

NewStep(t, s, r) == Append(steps,
  [plan |-> run.plan, tool |-> t, status |-> s, request |-> r, acted |-> FALSE])

SetStep(n, s) == steps' = [steps EXCEPT ![n].status = s]
SetStatus(s) == run' = [run EXCEPT !.status = s]

(* A request that could not be posted is void, and its step failed. *)
VoidStep(n) ==
  steps' = [steps EXCEPT ![n] = [@ EXCEPT !.status = "failed", !.request = "failed"]]

Leave == pc' = "idle" /\ local' = Idle

(* The row is queued and a request posted; if that fails, the run is failed. *)
Requeue == \E s \in {"queued", "failed"} : SetStatus(s)

-----------------------------------------------------------------------------
(* runLoop before the loop                                                 *)

(* Not before the resumption that queued the run is complete. *)
Claim ==
  /\ pc = "idle"
  /\ run.status = "queued" /\ task = 0
  /\ SetStatus("running")
  /\ pc' = IF run.iteration >= MaxIterations THEN "capped"
           ELSE IF run.plan # 0 THEN "resume" ELSE "plan"
  /\ UNCHANGED <<messages, steps, rows, task, local, ghosts>>

GiveUp ==
  /\ pc = "capped"
  /\ SetStatus("failed")
  /\ Leave
  /\ UNCHANGED <<messages, steps, rows, task, ghosts>>

(* incrementRunIteration *)
StartIteration ==
  /\ pc = "plan"
  /\ run' = [run EXCEPT !.iteration = @ + 1]
  /\ pc' = "enter"
  /\ UNCHANGED <<messages, steps, rows, task, local, ghosts>>

-----------------------------------------------------------------------------
(* runAgentLoop                                                            *)

(* Mutant: a conversation is taken up as it was persisted. *)
ReloadAsIs(m) == IF m.last = "none" THEN Fresh ELSE m

(* A new conversation, or the persisted one without a trailing model turn. *)
Reload(m) == IF m.last = "none" THEN Fresh ELSE [m EXCEPT !.last = "user"]

(* Mutant: the calls of earlier invocations do not count. *)
NoCallsMade == 0

(* countExistingToolCalls *)
CallsMade == rows

(* Plan and steps of an iteration are named by its number (the version). *)
EnterLoop ==
  /\ pc = "enter"
  /\ run' = [run EXCEPT !.status = "running", !.plan = run.iteration]
  /\ local' = [local EXCEPT !.contents = Reload(messages), !.made = CallsMade]
  /\ pc' = "ask"
  /\ UNCHANGED <<messages, steps, rows, task, ghosts>>

(* The model asks for tool calls, ... *)
AskModel ==
  /\ pc = "ask"
  /\ local.turn < MaxTurns
  /\ local' = [local EXCEPT !.turn = @ + 1]
  /\ pc' = "call"
  /\ UNCHANGED <<rowVars, ghosts>>

(* ... or answers. The answer ends the conversation ... *)
FinalAnswer ==
  /\ pc = "ask"
  /\ local.turn < MaxTurns
  /\ messages' = [local.contents EXCEPT !.last = "model"]
  /\ pc' = "answer"
  /\ UNCHANGED <<run, steps, rows, task, local, ghosts>>

(* ... and becomes a step. *)
RecordAnswer ==
  /\ pc = "answer"
  /\ steps' = NewStep("answer", "succeeded", "none")
  /\ pc' = "pick"
  /\ UNCHANGED <<run, messages, rows, task, local, ghosts>>

(* An empty answer leaves neither a turn nor a step. *)
EmptyAnswer ==
  /\ pc = "ask"
  /\ local.turn < MaxTurns
  /\ messages' = local.contents
  /\ pc' = "pick"
  /\ UNCHANGED <<run, steps, rows, task, local, ghosts>>

(* The turns are used up, or the deadline is near (or the call aborted). *)
EndLoop ==
  /\ pc = "ask"
  /\ messages' = local.contents
  /\ \/ local.turn = MaxTurns /\ SetStatus("failed")
     \/ local.turn < MaxTurns /\ Requeue
  /\ Leave
  /\ UNCHANGED <<steps, rows, task, ghosts>>

-----------------------------------------------------------------------------
(* One tool call: executeOneToolCall                                       *)

(* The result of the current call is at hand; the turn has another call, or not. *)
Result(n) ==
  /\ local' = [local EXCEPT !.made = @ + 1, !.responses = @ \cup {n}]
  /\ observed' = observed \cup {n}
  /\ pc' \in {"call", "push"}

(* The cap, or the deadline, ends the turn before the next call. *)
StopCalls ==
  /\ pc = "call"
  /\ \/ local.made >= MaxToolCalls /\ local' = [local EXCEPT !.outcome = "capped"]
     \/ local.made < MaxToolCalls /\ local' = [local EXCEPT !.outcome = "clock"]
  /\ pc' = "push"
  /\ UNCHANGED <<rowVars, ghosts>>

(* A call that is refused at once: the step fails without a tool call, or  *)
(* is blocked for good.                                                    *)
CallRefused(t) ==
  /\ pc = "call" /\ local.made < MaxToolCalls
  /\ t \in {"unknown", "forbidden"}
  /\ steps' = NewStep(t, IF t = "unknown" THEN "failed" ELSE "blocked", "none")
  /\ rows' = IF t = "unknown" THEN rows ELSE rows + 1
  /\ Result(Len(steps) + 1)
  /\ UNCHANGED <<run, messages, task, dropped>>

(* Step and tool call are inserted. A write needs a request that names the *)
(* step; a step just inserted has none yet, so it is asked for.            *)
CallTool(t) ==
  /\ pc = "call" /\ local.made < MaxToolCalls
  /\ t \in {"write", "reply", "other"}
  /\ steps' = NewStep(t, "running", IF t = "write" THEN "pending" ELSE "none")
  /\ rows' = rows + 1
  /\ local' = [local EXCEPT !.step = Len(steps) + 1]
  /\ pc' = IF t = "write" THEN "asking" ELSE "acting"
  /\ UNCHANGED <<run, messages, task, ghosts>>

(* The request is posted; the step is blocked and the run suspended. *)
Suspend ==
  /\ pc = "asking"
  /\ SetStep(local.step, "blocked")
  /\ SetStatus("awaiting_approval")
  /\ local' = [local EXCEPT !.outcome = "approval"]
  /\ pc' = "push"
  /\ UNCHANGED <<messages, rows, task, ghosts>>

(* An error in between: the request is voided and the step failed, but the *)
(* loop yields as if it had suspended the run.                             *)
AskFails ==
  /\ pc = "asking"
  /\ VoidStep(local.step)
  /\ local' = [local EXCEPT !.outcome = "approval"]
  /\ pc' = "push"
  /\ UNCHANGED <<run, messages, rows, task, ghosts>>

(* The tool acts, or does not; its outcome is recorded, or times out. *)
Act ==
  /\ pc \in {"acting", "redo"}
  /\ ~steps[local.step].acted
  /\ steps' = [steps EXCEPT ![local.step].acted = TRUE]
  /\ UNCHANGED <<run, messages, rows, task, pc, local, ghosts>>

Record ==
  /\ pc = "acting"
  /\ \E s \in IF steps[local.step].acted THEN {"succeeded", "failed"} ELSE {"failed"} :
       SetStep(local.step, s)
  /\ Result(local.step)
  /\ UNCHANGED <<run, messages, rows, task, dropped>>

(* The conversation with the current turn: the model's calls and what they *)
(* returned, always as a pair.                                             *)
WithTurn == [last |-> "user", heard |-> local.contents.heard \cup local.responses]

(* Mutant: a turn that is broken off is not persisted. *)
PushWholeTurns ==
  /\ pc = "push"
  /\ messages' = IF local.outcome = "none" THEN WithTurn ELSE local.contents
  /\ CASE local.outcome = "none" ->
            /\ local' = [local EXCEPT !.contents = WithTurn, !.responses = {}, !.step = 0]
            /\ pc' = "ask"
            /\ UNCHANGED run
       [] local.outcome = "capped"   -> SetStatus("failed") /\ Leave
       [] local.outcome = "clock"    -> Requeue /\ Leave
       [] local.outcome = "approval" -> Leave /\ UNCHANGED run
  /\ UNCHANGED <<steps, rows, task, ghosts>>

(* The turn is persisted; then the loop goes on, or returns to runLoop,    *)
(* which fails, re-queues or leaves the run.                               *)
Push ==
  /\ pc = "push"
  /\ messages' = WithTurn
  /\ CASE local.outcome = "none" ->
            /\ local' = [local EXCEPT !.contents = WithTurn, !.responses = {}, !.step = 0]
            /\ pc' = "ask"
            /\ UNCHANGED run
       [] local.outcome = "capped"   -> SetStatus("failed") /\ Leave
       [] local.outcome = "clock"    -> Requeue /\ Leave
       [] local.outcome = "approval" -> Leave /\ UNCHANGED run
  /\ UNCHANGED <<steps, rows, task, ghosts>>

-----------------------------------------------------------------------------
(* runLoop after the loop, and the resume path: the steps of the plan that *)
(* are pending, then verification                                          *)

ResumePlan ==
  /\ pc = "resume"
  /\ pc' = "pick"
  /\ UNCHANGED <<rowVars, local, ghosts>>

(* executeStep creates another tool call for the step, or fails the step   *)
(* if its tool does not exist.                                             *)
Pick(n) ==
  /\ pc = "pick"
  /\ n \in Pending(run.plan) /\ \A k \in Pending(run.plan) : n <= k
  /\ \/ /\ steps[n].tool # "unknown"
        /\ SetStep(n, "running")
        /\ rows' = rows + 1
        /\ local' = [local EXCEPT !.step = n]
        /\ pc' = "gate"
     \/ /\ steps[n].tool = "unknown"
        /\ SetStep(n, "failed")
        /\ local' = [local EXCEPT !.unblocked = FALSE]
        /\ pc' = "verify"
        /\ UNCHANGED rows
  /\ UNCHANGED <<run, messages, task, ghosts>>

(* Mutant: any request that names the step will do. *)
Requested(n) == steps[n].request # "none"

(* getApprovedStepApproval *)
Approved(n) == steps[n].request = "approved"

(* The policy gate of the executor: the tool will be executed (again), a   *)
(* (new) request for a write is made, or a forbidden tool is blocked and   *)
(* its run with it.                                                        *)
Gate ==
  /\ pc = "gate"
  /\ LET n == local.step
     IN \/ /\ steps[n].tool \in {"reply", "other"} \/ (steps[n].tool = "write" /\ Approved(n))
           /\ steps' = [steps EXCEPT ![n].acted = FALSE]
           /\ pc' = "redo"
           /\ UNCHANGED <<run, local>>
        \/ /\ steps[n].tool = "write" /\ ~Approved(n)
           /\ steps' = [steps EXCEPT ![n].request = "pending"]
           /\ pc' = "regate"
           /\ UNCHANGED <<run, local>>
        \/ /\ steps[n].tool = "forbidden"
           /\ SetStep(n, "blocked")
           /\ SetStatus("blocked")
           /\ Leave
  /\ UNCHANGED <<messages, rows, task, ghosts>>

(* The new request was posted, or voided by an error that fails the run. *)
Regate ==
  /\ pc = "regate"
  /\ \/ SetStep(local.step, "blocked") /\ SetStatus("blocked")
     \/ VoidStep(local.step) /\ SetStatus("failed")
  /\ Leave
  /\ UNCHANGED <<messages, rows, task, ghosts>>

Redo ==
  /\ pc = "redo"
  /\ \/ /\ steps[local.step].acted
        /\ SetStep(local.step, "succeeded")
        /\ local' = [local EXCEPT !.step = 0]
        /\ pc' = "pick"
     \/ /\ SetStep(local.step, "failed")
        /\ local' = [local EXCEPT !.step = 0, !.unblocked = FALSE]
        /\ pc' = "verify"
  /\ UNCHANGED <<run, messages, rows, task, ghosts>>

StepsDone ==
  /\ pc = "pick"
  /\ Pending(run.plan) = {}
  /\ pc' = "verify"
  /\ UNCHANGED <<rowVars, local, ghosts>>

(* verifyRun; a plan of the loop never requires an approval of its own. *)
Satisfied(p) == StepsOf(p) # {} /\ \A n \in StepsOf(p) : steps[n].status = "succeeded"
RetryAdvised(p) ==
  /\ \A n \in StepsOf(p) : steps[n].status # "blocked"
  /\ \E n \in StepsOf(p) : steps[n].status = "failed" /\ steps[n].tool = "reply"

Succeed ==
  /\ pc = "verify"
  /\ local.unblocked /\ Satisfied(run.plan)
  /\ SetStatus("succeeded")
  /\ Leave
  /\ UNCHANGED <<messages, steps, rows, task, ghosts>>

RetrySteps ==
  /\ pc = "verify"
  /\ RetryAdvised(run.plan) /\ run.retry < MaxRetries
  /\ run' = [run EXCEPT !.retry = @ + 1]
  /\ pc' = "reset"
  /\ UNCHANGED <<messages, steps, rows, task, local, ghosts>>

ResetFailed ==
  /\ pc = "reset"
  /\ steps' = [n \in DOMAIN steps |->
       IF n \in StepsOf(run.plan) /\ steps[n].status = "failed"
         THEN [steps[n] EXCEPT !.status = "pending"] ELSE steps[n]]
  /\ Requeue
  /\ Leave
  /\ UNCHANGED <<messages, rows, task, ghosts>>

(* Also taken when the semantic verifier objects to steps that passed. *)
Replan ==
  /\ pc = "verify"
  /\ ~(RetryAdvised(run.plan) /\ run.retry < MaxRetries)
  /\ \E s \in {"queued", "failed"} : run' = [run EXCEPT !.status = s, !.plan = 0]
  /\ Leave
  /\ UNCHANGED <<messages, steps, rows, task, ghosts>>

(* The wall-clock guards before the loop, a step and the verification. *)
TimeOut ==
  /\ pc \in {"enter", "verify"} \/ (pc = "pick" /\ Pending(run.plan) # {})
  /\ Requeue
  /\ Leave
  /\ UNCHANGED <<messages, steps, rows, task, ghosts>>

(* Any other error fails the run: runLoop's catch. *)
Throw ==
  /\ pc \notin {"idle", "capped", "asking", "regate"}
  /\ SetStatus("failed")
  /\ dropped' = dropped \cup local.responses
  /\ Leave
  /\ UNCHANGED <<messages, steps, rows, task, observed>>

-----------------------------------------------------------------------------
(* Everybody else                                                          *)

Answer(n, reply) ==
  /\ pc = "idle"
  /\ steps[n].request = "pending"
  /\ steps' = [steps EXCEPT ![n].request = reply]

(* resumeAgentPipeline: the run is queued, ... *)
Approve(n) ==
  /\ Answer(n, "approved")
  /\ SetStatus("queued")
  /\ task' = run.plan
  /\ UNCHANGED <<messages, rows, pc, local, ghosts>>

(* ... then the blocked steps of its plan become pending again: all of them. *)
Unblock ==
  /\ task # 0
  /\ steps' = [n \in DOMAIN steps |->
       IF n \in StepsOf(task) /\ steps[n].status = "blocked"
         THEN [steps[n] EXCEPT !.status = "pending"] ELSE steps[n]]
  /\ task' = 0
  /\ UNCHANGED <<run, messages, rows, pc, local, ghosts>>

Refuse(n) ==
  /\ Answer(n, "rejected")
  /\ SetStatus("cancelled")
  /\ UNCHANGED <<messages, rows, task, pc, local, ghosts>>

(* A run whose worker is gone, or returned without suspending it. *)
RecoverStaleClaims ==
  /\ pc = "idle"
  /\ run.status = "running"
  /\ SetStatus("queued")
  /\ UNCHANGED <<messages, steps, rows, task, pc, local, ghosts>>

Crash ==
  /\ pc # "idle"
  /\ dropped' = dropped \cup local.responses
  /\ Leave
  /\ UNCHANGED <<rowVars, observed>>

-----------------------------------------------------------------------------
Work ==
  \/ Claim \/ GiveUp \/ StartIteration \/ EnterLoop
  \/ AskModel \/ FinalAnswer \/ RecordAnswer \/ EmptyAnswer \/ EndLoop
  \/ StopCalls \/ (\E t \in Tools : CallRefused(t) \/ CallTool(t))
  \/ Suspend \/ AskFails \/ Act \/ Record \/ Push
  \/ ResumePlan \/ (\E n \in DOMAIN steps : Pick(n)) \/ Gate \/ Regate \/ Redo \/ StepsDone
  \/ Succeed \/ RetrySteps \/ ResetFailed \/ Replan \/ TimeOut \/ Throw

Next ==
  \/ Work
  \/ \E n \in DOMAIN steps : Approve(n) \/ Refuse(n)
  \/ Unblock \/ RecoverStaleClaims \/ Crash

Spec == Init /\ [][Next]_vars

-----------------------------------------------------------------------------
(* Properties                                                              *)

(* Gemini refuses a request that ends with a model turn: however the last  *)
(* invocation ended (an answer that was not accepted, a yield, a crash),   *)
(* the model is only ever asked with a user turn last.                     *)
UserTurnLast == pc = "ask" => local.contents.last = "user"

(* The budget of tool calls is the run's, not the invocation's: the loop   *)
(* does not make more calls by being yielded, crashed or replanned.        *)
ToolBudget ==
  Cardinality({n \in DOMAIN steps : steps[n].tool \notin {"unknown", "answer"}})
    <= MaxToolCalls

(* No write without a human: whichever invocation executes it, in the loop *)
(* or after a resumption, a retry or a recovery.                           *)
WritesAuthorised ==
  \A n \in DOMAIN steps :
    steps[n].tool = "write" /\ steps[n].acted => steps[n].request = "approved"

(* The results the model has been shown outlive the invocation, whichever  *)
(* way the loop is left; a crash loses those of the current turn at most.  *)
ConversationKept == pc = "idle" => observed \subseteq messages.heard \cup dropped
=============================================================================
