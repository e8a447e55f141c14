------------------------------ MODULE RunQueue ------------------------------
(***************************************************************************)
(* Ownership and delivery of ONE durable run: the agent_runs row (status,  *)
(* claim and lease), the POST /api/workflows/agentRun requests that        *)
(* trigger it, the handler invocations that serve them, and everybody      *)
(* else who writes the row: the handler that created the run, the          *)
(* approval resolvers that resume it, the user who cancels it and the      *)
(* maintenance cycle that recovers stale claims.                           *)
(*                                                                         *)
(* What an invocation does between claiming the run and leaving runLoop is *)
(* kept to the writes it makes to the row; the steps, plans and tool calls *)
(* are the subject of StepExecution.                                       *)
(***************************************************************************)
EXTENDS Naturals, FiniteSets

CONSTANTS
  Invocations,      \* invocations of the workflow handler, each serves one request
  Approvals,        \* approval requests the run may create
  Starter,          \* the handler that created the run (handleDurableTask)
  Nobody,           \* NULL in claimed_by, and an absent caller or approval
  MaxAttempts,      \* POSTs made by one call of enqueueRunTask (3 in the code)
  EarlyApproval,    \* may an approval be resolved before its worker suspended the run?
  StalledRenewals,  \* may the lease of a live worker lapse (renewals keep failing)?
  Crashes           \* may a function instance die in the middle of its work?

Callers == Invocations \cup Approvals \cup {Starter}

ASSUME QueueAssumption ==
  /\ Invocations \cap Approvals = {}
  /\ Starter \notin Invocations \cup Approvals
  /\ Nobody \notin Callers
  /\ MaxAttempts \in Nat \ {0}
  /\ EarlyApproval \in BOOLEAN
  /\ StalledRenewals \in BOOLEAN
  /\ Crashes \in BOOLEAN

RunStatus == {"queued", "running", "awaiting_approval", "blocked",
              "succeeded", "failed", "cancelled"}
Terminal  == {"succeeded", "failed", "cancelled"}

VARIABLES
  status,      \* agent_runs.status
  claimedBy,   \* agent_runs.claimed_by
  lease,       \* agent_runs.lease_expires_at: absent, in the future or in the past
  pc,          \* where each handler invocation is
  heartbeat,   \* is the setInterval that renews the lease running in the invocation?
  serving,     \* the caller that still waits for an invocation's answer
  asked,       \* the approval a suspending invocation has posted
  approval,    \* approval_requests.status
  cancel,      \* the user's "cancel": not sent, decided on a read of the row, written
  call,        \* the enqueueRunTask call, or background task, of each caller
  attempt,     \* the attempt a waiting call has reached
  posted,      \* callers whose current request is on its way to the endpoint
  strays,      \* requests on their way that nobody waits for any more
  waitsFor     \* ghost: the approval the row was suspended on

rowVars == <<status, claimedBy, lease, waitsFor>>
netVars == <<call, attempt, posted, strays>>
vars    == <<rowVars, netVars, pc, heartbeat, serving, asked, approval, cancel>>

InvocationState == {"unborn", "claim", "working", "asked", "blocking",
                    "enqueue", "returning", "done", "crashed"}

(* The columns of the row, and what the handlers, callers and resolvers    *)
(* hold, stay within what the code can write there.                        *)
TypeOK ==
  /\ status \in RunStatus
  /\ claimedBy \in Invocations \cup {Nobody}
  /\ lease \in {"none", "live", "expired"}
  /\ pc \in [Invocations -> InvocationState]
  /\ heartbeat \in [Invocations -> BOOLEAN]
  /\ serving \in [Invocations -> Callers \cup {Nobody}]
  /\ asked \in [Invocations -> Approvals \cup {Nobody}]
  /\ approval \in [Approvals -> {"none", "pending", "approved", "closed"}]
  /\ cancel \in {"no", "decided", "done"}
  /\ call \in [Callers -> {"idle", "approved", "refused", "ready", "waiting", "over", "killed"}]
  /\ attempt \in [Callers -> 0..MaxAttempts]
  /\ posted \subseteq Callers
  /\ strays \in Nat
  /\ waitsFor \in Approvals \cup {Nobody}

(* handleDurableTask has inserted the run as 'queued' and is about to      *)
(* trigger it.                                                             *)
Init ==
  /\ status = "queued"
  /\ claimedBy = Nobody
  /\ lease = "none"
  /\ pc = [i \in Invocations |-> "unborn"]
  /\ heartbeat = [i \in Invocations |-> FALSE]
  /\ serving = [i \in Invocations |-> Nobody]
  /\ asked = [i \in Invocations |-> Nobody]
  /\ approval = [a \in Approvals |-> "none"]
  /\ cancel = "no"
  /\ call = [c \in Callers |-> IF c = Starter THEN "ready" ELSE "idle"]
  /\ attempt = [c \in Callers |-> 0]
  /\ posted = {}
  /\ strays = 0
  /\ waitsFor = Nobody

-----------------------------------------------------------------------------
(* The row                                                                 *)

(* Every re-queue clears the claim columns. *)
SetQueued ==
  /\ status' = "queued"
  /\ claimedBy' = Nobody
  /\ lease' = "none"
  /\ waitsFor' = Nobody

(* updateRunStatus has no guard on the status it overwrites. *)
SetStatus(s) ==
  /\ status' = s
  /\ waitsFor' = Nobody
  /\ UNCHANGED <<claimedBy, lease>>

Suspend(i, s) ==
  /\ status' = s
  /\ waitsFor' = asked[i]
  /\ UNCHANGED <<claimedBy, lease>>

(* Mutant: rows without a lease are looked for. *)
RecoverUnleased ==
  IF status = "running" /\ lease = "none" THEN SetQueued ELSE UNCHANGED rowVars

(* recoverStaleClaims: the row goes back to 'queued'; nothing posts a request. *)
RecoverStaleClaims ==
  IF status = "running" /\ lease = "expired" THEN SetQueued ELSE UNCHANGED rowVars

-----------------------------------------------------------------------------
(* enqueueRunTask: a fetch, retried                                        *)

Post(c) ==
  /\ call[c] = "ready"
  /\ call' = [call EXCEPT ![c] = "waiting"]
  /\ attempt' = [attempt EXCEPT ![c] = 1]
  /\ posted' = posted \cup {c}
  /\ UNCHANGED <<rowVars, strays, pc, heartbeat, serving, asked, approval, cancel>>

(* The caller waits for its current request no longer: that request may    *)
(* still arrive, or be served, but its answer goes nowhere.                *)
Forsaken(c) == [i \in Invocations |-> IF serving[i] = c THEN Nobody ELSE serving[i]]
StraysWithout(c) == IF c \in posted THEN strays + 1 ELSE strays

(* The fetch failed, was answered 5xx or timed out. *)
Retry(c) ==
  /\ call[c] = "waiting"
  /\ attempt[c] < MaxAttempts
  /\ attempt' = [attempt EXCEPT ![c] = @ + 1]
  /\ strays' = StraysWithout(c)
  /\ posted' = posted \cup {c}
  /\ serving' = Forsaken(c)
  /\ UNCHANGED <<rowVars, call, pc, heartbeat, asked, approval, cancel>>

(* Mutant: nobody looks at the result of enqueueRunTask. *)
NotEnqueuedIgnored(c) ==
  /\ call[c] = "waiting"
  /\ \/ attempt[c] = MaxAttempts /\ strays' = StraysWithout(c)
     \/ c \in posted /\ UNCHANGED strays
  /\ call' = [call EXCEPT ![c] = "over"]
  /\ attempt' = [attempt EXCEPT ![c] = 0]
  /\ posted' = posted \ {c}
  /\ serving' = Forsaken(c)
  /\ pc' = IF c \in Invocations THEN [pc EXCEPT ![c] = "returning"] ELSE pc
  /\ UNCHANGED <<rowVars, heartbeat, asked, approval, cancel>>

(* enqueueRunTask returned false, after its last attempt or at once on a   *)
(* 4xx or 508 answer. runLoop and handleDurableTask then mark the run      *)
(* failed; resumeAgentPipeline ignores the result.                         *)
NotEnqueued(c) ==
  /\ call[c] = "waiting"
  /\ \/ attempt[c] = MaxAttempts /\ strays' = StraysWithout(c)
     \/ c \in posted /\ UNCHANGED strays
  /\ call' = [call EXCEPT ![c] = "over"]
  /\ attempt' = [attempt EXCEPT ![c] = 0]
  /\ posted' = posted \ {c}
  /\ serving' = Forsaken(c)
  /\ IF c \in Approvals THEN UNCHANGED rowVars ELSE SetStatus("failed")
  /\ IF c \in Invocations
       THEN /\ pc' = [pc EXCEPT ![c] = "returning"]
            /\ heartbeat' = [heartbeat EXCEPT ![c] = FALSE]
       ELSE UNCHANGED <<pc, heartbeat>>
  /\ UNCHANGED <<asked, approval, cancel>>

(* A request is lost, or the readiness gate answers it 503. *)
LoseRequest ==
  /\ \/ /\ \E c \in posted : posted' = posted \ {c}
        /\ UNCHANGED strays
     \/ /\ strays > 0
        /\ strays' = strays - 1
        /\ UNCHANGED posted
  /\ UNCHANGED <<rowVars, call, attempt, pc, heartbeat, serving, asked, approval, cancel>>

-----------------------------------------------------------------------------
(* The workflow handler                                                    *)

(* A request starts an invocation, which runs the maintenance cycle first. *)
Receive(i) ==
  /\ pc[i] = "unborn"
  /\ pc' = [pc EXCEPT ![i] = "claim"]
  /\ \/ \E c \in posted : /\ posted' = posted \ {c}
                          /\ serving' = [serving EXCEPT ![i] = c]
                          /\ UNCHANGED strays
     \/ /\ strays > 0
        /\ strays' = strays - 1
        /\ UNCHANGED <<posted, serving>>
  /\ RecoverStaleClaims
  /\ UNCHANGED <<call, attempt, heartbeat, asked, approval, cancel>>

(* Mutants: a claim that does not insist on 'queued', one that sets no lease. *)
ClaimWith(i, claimable, leaseAfter) ==
  /\ pc[i] = "claim"
  /\ IF status \in claimable
       THEN /\ status' = "running"
            /\ claimedBy' = i
            /\ lease' = leaseAfter
            /\ pc' = [pc EXCEPT ![i] = "working"]
            /\ heartbeat' = [heartbeat EXCEPT ![i] = TRUE]
            /\ UNCHANGED waitsFor
       ELSE /\ pc' = [pc EXCEPT ![i] = "returning"]
            /\ UNCHANGED <<rowVars, heartbeat>>
  /\ UNCHANGED <<netVars, serving, asked, approval, cancel>>
ClaimUnfinished(i) == ClaimWith(i, RunStatus \ Terminal, "live")
ClaimUnleased(i)   == ClaimWith(i, {"queued"}, lease)

(* claimQueuedRunById: one UPDATE ... WHERE status = 'queued'. *)
Claim(i) ==
  /\ pc[i] = "claim"
  /\ IF status = "queued"
       THEN /\ status' = "running"
            /\ claimedBy' = i
            /\ lease' = "live"
            /\ pc' = [pc EXCEPT ![i] = "working"]
            /\ heartbeat' = [heartbeat EXCEPT ![i] = TRUE]
            /\ UNCHANGED waitsFor
       ELSE /\ pc' = [pc EXCEPT ![i] = "returning"]
            /\ UNCHANGED <<rowVars, heartbeat>>
  /\ UNCHANGED <<netVars, serving, asked, approval, cancel>>

(* The 200 answer. If the caller is still waiting for it, enqueueRunTask   *)
(* returns true there, and a caller that is itself an invocation returns.  *)
Respond(i) ==
  /\ pc[i] = "returning"
  /\ LET c == serving[i]
     IN /\ pc' = [j \in Invocations |-> IF j = i THEN "done"
                                        ELSE IF j = c THEN "returning" ELSE pc[j]]
        /\ call' = [d \in Callers |-> IF d = c THEN "over" ELSE call[d]]
        /\ attempt' = [d \in Callers |-> IF d = c THEN 0 ELSE attempt[d]]
  /\ serving' = [serving EXCEPT ![i] = Nobody]
  /\ UNCHANGED <<rowVars, posted, strays, heartbeat, asked, approval, cancel>>

-----------------------------------------------------------------------------
(* runLoop, as far as the row can tell                                     *)

(* The invocation leaves the try block: the heartbeat is cleared. *)
Leave(i, next) ==
  /\ pc' = [pc EXCEPT ![i] = next]
  /\ heartbeat' = [heartbeat EXCEPT ![i] = FALSE]
  /\ UNCHANGED <<serving, cancel>>

(* A plan was adopted, or a step failed: status is written 'running' again. *)
KeepRunning(i) ==
  /\ pc[i] = "working"
  /\ SetStatus("running")
  /\ UNCHANGED <<netVars, pc, heartbeat, serving, asked, approval, cancel>>

(* The approval request is inserted and posted to Slack before the run or  *)
(* the step is marked as waiting for it.                                   *)
RequestApproval(i, a) ==
  /\ pc[i] = "working"
  /\ approval[a] = "none"
  /\ approval' = [approval EXCEPT ![a] = "pending"]
  /\ asked' = [asked EXCEPT ![i] = a]
  /\ pc' = [pc EXCEPT ![i] = "asked"]
  /\ UNCHANGED <<rowVars, netVars, heartbeat, serving, cancel>>

(* Plan-level approval: the run waits in 'awaiting_approval'. *)
AwaitApproval(i) ==
  /\ pc[i] = "asked"
  /\ Suspend(i, "awaiting_approval")
  /\ asked' = [asked EXCEPT ![i] = Nobody]
  /\ Leave(i, "returning")
  /\ UNCHANGED <<netVars, approval>>

(* Step-level approval, or a tool the policy forbids: the run is written   *)
(* 'blocked' by runLoop and once more by finalizeRun, or failed if the     *)
(* rest of finalizeRun throws.                                             *)
Block(i) ==
  /\ pc[i] \in {"working", "asked"}
  /\ Suspend(i, "blocked")
  /\ Leave(i, "blocking")
  /\ UNCHANGED <<netVars, asked, approval>>

FinalizeBlocked(i) ==
  /\ pc[i] = "blocking"
  /\ Suspend(i, "blocked") \/ SetStatus("failed")
  /\ asked' = [asked EXCEPT ![i] = Nobody]
  /\ Leave(i, "returning")
  /\ UNCHANGED <<netVars, approval>>

(* An error after the request was posted: its approval is voided           *)
(* whatever its status. The planner path then fails the run; the agent     *)
(* loop swallows the error and leaves the run 'running'.                   *)
AskFails(i) ==
  /\ pc[i] = "asked"
  /\ approval' = [approval EXCEPT ![asked[i]] = "closed"]
  /\ asked' = [asked EXCEPT ![i] = Nobody]
  /\ SetStatus("failed") \/ UNCHANGED rowVars
  /\ Leave(i, "returning")
  /\ UNCHANGED netVars

(* Wall-clock guard, replan or transient retry: the row is re-queued, then *)
(* a request posted. The transient retry does not clear the heartbeat      *)
(* interval.                                                               *)
Requeue(i) ==
  /\ pc[i] = "working"
  /\ SetQueued
  /\ call' = [call EXCEPT ![i] = "ready"]
  /\ pc' = [pc EXCEPT ![i] = "enqueue"]
  /\ heartbeat' \in {heartbeat, [heartbeat EXCEPT ![i] = FALSE]}
  /\ UNCHANGED <<attempt, posted, strays, serving, asked, approval, cancel>>

Finish(i) ==
  /\ pc[i] = "working"
  /\ \E s \in {"succeeded", "failed"} : SetStatus(s)
  /\ Leave(i, "returning")
  /\ UNCHANGED <<netVars, asked, approval>>

(* renewLease checks neither the status nor the owner. *)
RenewLease(i) ==
  /\ heartbeat[i]
  /\ lease' = "live"
  /\ UNCHANGED <<status, claimedBy, waitsFor, netVars, pc, heartbeat, serving, asked,
                 approval, cancel>>

-----------------------------------------------------------------------------
(* The other writers of the row                                            *)

(* Cron maintenance, without an invocation of the workflow handler. *)
CronPoll ==
  /\ RecoverStaleClaims
  /\ UNCHANGED <<netVars, pc, heartbeat, serving, asked, approval, cancel>>

Suspending(a) == \E i \in Invocations : pc[i] \in {"asked", "blocking"} /\ asked[i] = a

(* resolveApproval: one UPDATE ... WHERE status = 'pending'. The rest of   *)
(* the resolver runs after it: in the background when approved, before the *)
(* answer when rejected (or expired and reaped).                           *)
Resolve(a, answer, task) ==
  /\ approval[a] = "pending"
  /\ EarlyApproval \/ ~Suspending(a)
  /\ approval' = [approval EXCEPT ![a] = answer]
  /\ call' = [call EXCEPT ![a] = task]
  /\ UNCHANGED <<rowVars, attempt, posted, strays, pc, heartbeat, serving, asked, cancel>>

Approve(a) == Resolve(a, "approved", "approved")
Refuse(a)  == Resolve(a, "closed", "refused")

(* resumeAgentPipeline *)
Resume(a) ==
  /\ call[a] = "approved"
  /\ SetQueued
  /\ call' = [call EXCEPT ![a] = "ready"]
  /\ UNCHANGED <<attempt, posted, strays, pc, heartbeat, serving, asked, approval, cancel>>

(* Mutant: the rejected request is closed and its run forgotten. *)
RefusedForgotten(a) ==
  /\ call[a] = "refused"
  /\ call' = [call EXCEPT ![a] = "over"]
  /\ UNCHANGED <<rowVars, attempt, posted, strays, pc, heartbeat, serving, asked, approval,
                 cancel>>

CancelRefused(a) ==
  /\ call[a] = "refused"
  /\ SetStatus("cancelled")
  /\ call' = [call EXCEPT ![a] = "over"]
  /\ UNCHANGED <<attempt, posted, strays, pc, heartbeat, serving, asked, approval, cancel>>

(* "cancel" in Slack: the active runs of the channel are read, ... *)
CancelDecided ==
  /\ cancel = "no"
  /\ status \notin Terminal
  /\ cancel' = "decided"
  /\ UNCHANGED <<rowVars, netVars, pc, heartbeat, serving, asked, approval>>

(* ... and written 'cancelled' one after the other. *)
CancelWritten ==
  /\ cancel = "decided"
  /\ cancel' = "done"
  /\ SetStatus("cancelled")
  /\ UNCHANGED <<netVars, pc, heartbeat, serving, asked, approval>>

-----------------------------------------------------------------------------
(* Time and failures                                                       *)

LeaseExpires ==
  /\ lease = "live"
  /\ StalledRenewals \/ \A i \in Invocations : ~heartbeat[i]
  /\ lease' = "expired"
  /\ UNCHANGED <<status, claimedBy, waitsFor, netVars, pc, heartbeat, serving, asked,
                 approval, cancel>>

(* What is left of the fetch of a caller that dies. *)
DropFetch(c) ==
  /\ call' = [call EXCEPT ![c] = "killed"]
  /\ attempt' = [attempt EXCEPT ![c] = 0]
  /\ strays' = StraysWithout(c)
  /\ posted' = posted \ {c}

Crash(i) ==
  /\ Crashes
  /\ pc[i] \notin {"unborn", "done", "crashed"}
  /\ pc' = [pc EXCEPT ![i] = "crashed"]
  /\ heartbeat' = [heartbeat EXCEPT ![i] = FALSE]
  /\ serving' = [Forsaken(i) EXCEPT ![i] = Nobody]
  /\ asked' = [asked EXCEPT ![i] = Nobody]
  /\ DropFetch(i)
  /\ UNCHANGED <<rowVars, approval, cancel>>

(* The creating handler, or the background task of a resolver, is killed. *)
CallerDies(c) ==
  /\ Crashes
  /\ c \notin Invocations
  /\ call[c] \in {"approved", "refused", "ready", "waiting"}
  /\ serving' = Forsaken(c)
  /\ DropFetch(c)
  /\ UNCHANGED <<rowVars, pc, heartbeat, asked, approval, cancel>>

(* A finished instance is recycled, and its leaked interval with it. *)
Recycle(i) ==
  /\ pc[i] = "done"
  /\ heartbeat[i]
  /\ heartbeat' = [heartbeat EXCEPT ![i] = FALSE]
  /\ UNCHANGED <<rowVars, netVars, pc, serving, asked, approval, cancel>>

-----------------------------------------------------------------------------
Handler(i) ==
  \/ Receive(i) \/ Claim(i) \/ Respond(i)
  \/ KeepRunning(i)
  \/ \E a \in Approvals : RequestApproval(i, a)
  \/ AwaitApproval(i) \/ Block(i) \/ FinalizeBlocked(i) \/ AskFails(i)
  \/ Requeue(i) \/ Finish(i)
  \/ RenewLease(i) \/ Crash(i) \/ Recycle(i)

Enqueue(c) == Post(c) \/ Retry(c) \/ NotEnqueued(c) \/ CallerDies(c)

Resolver(a) == Approve(a) \/ Refuse(a) \/ Resume(a) \/ CancelRefused(a)

Next ==
  \/ \E i \in Invocations : Handler(i)
  \/ \E c \in Callers : Enqueue(c)
  \/ \E a \in Approvals : Resolver(a)
  \/ LoseRequest \/ CronPoll \/ CancelDecided \/ CancelWritten \/ LeaseExpires

Spec == Init /\ [][Next]_vars

(***************************************************************************)
(* Fairness. A function that is not killed keeps running and returns; a    *)
(* request that is not lost reaches a handler; a fetch is answered or      *)
(* times out; maintenance runs on a schedule; an unrenewed lease lapses; a *)
(* resolver's background task runs. Nothing forces the user to act, a      *)
(* request to be lost or a finished instance to be recycled.               *)
(***************************************************************************)
Returns(i) ==
  \/ Claim(i) \/ Respond(i) \/ AwaitApproval(i) \/ FinalizeBlocked(i)
  \/ Requeue(i) \/ Finish(i)

Fairness ==
  /\ \A i \in Invocations : WF_vars(Returns(i))
  /\ \A c \in Callers : WF_vars(Post(c) \/ Retry(c) \/ NotEnqueued(c))
  /\ \A a \in Approvals : WF_vars(Resume(a) \/ CancelRefused(a))
  /\ WF_vars(\E i \in Invocations : Receive(i))
  /\ WF_vars(CronPoll)
  /\ WF_vars(LeaseExpires)

FairSpec == Spec /\ Fairness

(* The platform also recycles every idle instance sooner or later. *)
RecycledSpec == FairSpec /\ \A i \in Invocations : WF_vars(Recycle(i))

-----------------------------------------------------------------------------
(* Properties                                                              *)

InLoop(i) == pc[i] \in {"working", "asked", "blocking"}
Executing == {i \in Invocations : InLoop(i)}

(* Never two invocations inside runLoop, executing the run: the guarantee  *)
(* claimQueuedRunById is written for ("prevents duplicate/concurrent       *)
(* invocations for the same runId from both entering runLoop").            *)
SingleExecutor == \A i, j \in Executing : i = j

(* A running row always has a lease that can lapse: recoverStaleClaims     *)
(* looks for lease_expires_at < now(), and a row marked running after its  *)
(* claim was cleared by somebody's re-queue would have none, so that no    *)
(* maintenance cycle would ever find it.                                   *)
RunningIsRecoverable == status = "running" => lease # "none"

Quiet ==
  /\ \A i \in Invocations : pc[i] \in {"unborn", "done", "crashed"}
  /\ \A c \in Callers : call[c] \in {"idle", "over", "killed"}
  /\ posted = {} /\ strays = 0

(* No lost wakeup: when nothing is in flight any more, a run does not sit  *)
(* suspended on a request the user has already answered. (The request is   *)
(* posted before the run is marked suspended, and its resolver re-queues   *)
(* the row only once.)                                                     *)
NoLostWakeup ==
  Quiet /\ waitsFor # Nobody => approval[waitsFor] = "pending"

(* A queued run is picked up, or the user is told it failed, unless a       *)
(* function is killed.                                                     *)
QueuedIsHandled ==
  status = "queued" ~> status # "queued" \/ \E c \in Callers : call[c] = "killed"

(* Stale recovery: a run whose executing invocation is gone does not stay  *)
(* 'running' for ever.                                                     *)
OrphanIsRecovered ==
  status = "running" /\ Executing = {} ~> status # "running" \/ Executing # {}
=============================================================================
