--------------------------- MODULE RunQueue_proofs ---------------------------
(***************************************************************************)
(* Proofs about RunQueue, for any number of invocations, approvals and     *)
(* attempts: type correctness; and, under the assumptions on which the     *)
(* code's guarantees rest, that a run is executed by one invocation at a   *)
(* time, that the recovery finds it, and that no answer to its requests    *)
(* for approval is forgotten.                                              *)
(***************************************************************************)
EXTENDS RunQueue, TLAPS

(* The initial state is typed. *)
LEMMA TypeInit == Init => TypeOK
  BY QueueAssumption DEF Init, TypeOK, RunStatus, InvocationState, Callers

(* So is what any step leads to. *)
LEMMA TypeStep == TypeOK /\ [Next]_vars => TypeOK'
<1> SUFFICES ASSUME TypeOK, [Next]_vars PROVE TypeOK'
  OBVIOUS
<1> USE QueueAssumption DEF TypeOK, RunStatus, InvocationState, Callers
<1> USE DEF rowVars, netVars
<1>1. CASE UNCHANGED vars
  BY <1>1 DEF vars
<1>2. ASSUME NEW i \in Invocations, Handler(i) PROVE TypeOK'
  <2>1. CASE Receive(i)
    BY <2>1 DEF Receive, RecoverStaleClaims, SetQueued
  <2>2. CASE Claim(i)
    BY <2>2 DEF Claim
  <2>3. CASE Respond(i)
    BY <2>3 DEF Respond
  <2>4. CASE KeepRunning(i)
    BY <2>4 DEF KeepRunning, SetStatus
  <2>5. ASSUME NEW a \in Approvals, RequestApproval(i, a) PROVE TypeOK'
    BY <2>5 DEF RequestApproval
  <2>6. CASE AwaitApproval(i)
    BY <2>6 DEF AwaitApproval, Suspend, Leave
  <2>7. CASE Block(i)
    BY <2>7 DEF Block, Suspend, Leave
  <2>8. CASE FinalizeBlocked(i)
    BY <2>8 DEF FinalizeBlocked, Suspend, SetStatus, Leave
  <2>9. CASE AskFails(i)
    BY <2>9 DEF AskFails, SetStatus, Leave
  <2>10. CASE Requeue(i)
    BY <2>10 DEF Requeue, SetQueued
  <2>11. CASE Finish(i)
    BY <2>11 DEF Finish, SetStatus, Leave
  <2>12. CASE RenewLease(i)
    BY <2>12 DEF RenewLease
  <2>13. CASE Crash(i)
    BY <2>13 DEF Crash, DropFetch, Forsaken, StraysWithout
  <2>14. CASE Recycle(i)
    BY <2>14 DEF Recycle
  <2> QED
    BY <1>2, <2>1, <2>2, <2>3, <2>4, <2>5, <2>6, <2>7, <2>8, <2>9, <2>10, <2>11, <2>12,
       <2>13, <2>14 DEF Handler
<1>3. ASSUME NEW c \in Callers, Enqueue(c) PROVE TypeOK'
  <2>1. CASE Post(c)
    BY <2>1 DEF Post
  <2>2. CASE Retry(c)
    BY <2>2 DEF Retry, Forsaken, StraysWithout
  <2>3. CASE NotEnqueued(c)
    <3>1. status' \in RunStatus /\ waitsFor' \in Approvals \cup {Nobody}
          /\ claimedBy' \in Invocations \cup {Nobody} /\ lease' \in {"none", "live", "expired"}
      BY <2>3 DEF NotEnqueued, SetStatus
    <3>2. strays' \in Nat /\ posted' \subseteq Callers
      BY <2>3 DEF NotEnqueued, StraysWithout
    <3>3. pc' \in [Invocations -> InvocationState] /\ heartbeat' \in [Invocations -> BOOLEAN]
      BY <2>3 DEF NotEnqueued
    <3>4. serving' \in [Invocations -> Callers \cup {Nobody}]
      BY <2>3 DEF NotEnqueued, Forsaken
    <3>5. attempt' \in [Callers -> 0..MaxAttempts]
      BY <2>3 DEF NotEnqueued
    <3> QED
      BY <2>3, <3>1, <3>2, <3>3, <3>4, <3>5 DEF NotEnqueued
  <2>4. CASE CallerDies(c)
    BY <2>4 DEF CallerDies, DropFetch, Forsaken, StraysWithout
  <2> QED
    BY <1>3, <2>1, <2>2, <2>3, <2>4 DEF Enqueue
<1>4. ASSUME NEW a \in Approvals, Resolver(a) PROVE TypeOK'
  BY <1>4 DEF Resolver, Approve, Refuse, Resolve, Resume, CancelRefused, SetQueued, SetStatus
<1>5. CASE LoseRequest
  BY <1>5 DEF LoseRequest
<1>6. CASE CronPoll
  BY <1>6 DEF CronPoll, RecoverStaleClaims, SetQueued
<1>7. CASE CancelDecided \/ CancelWritten \/ LeaseExpires
  BY <1>7 DEF CancelDecided, CancelWritten, LeaseExpires, SetStatus
<1> QED
  BY <1>1, <1>2, <1>3, <1>4, <1>5, <1>6, <1>7 DEF Next

(* Every variable keeps its type, whatever crashes, stalls or races. *)
THEOREM TypeCorrect == Spec => []TypeOK
  BY TypeInit, TypeStep, PTL DEF Spec

-----------------------------------------------------------------------------
(* The inductive invariant behind single ownership.                        *)

(* Whoever is inside runLoop holds the claim, and renews it until the row  *)
(* is blocked.                                                             *)
Owner ==
  \A i \in Invocations : InLoop(i) =>
    /\ claimedBy = i /\ status # "queued"
    /\ IF pc[i] = "blocking" THEN status # "running" ELSE lease = "live" /\ heartbeat[i]

NobodyInLoop == \A i \in Invocations : ~InLoop(i)
Parked == NobodyInLoop /\ status \notin {"queued", "running"}

(* An unanswered request belongs to the invocation that is suspending the  *)
(* run on it, or the run is parked; a run about to be resumed is parked;   *)
(* and at most one request is open.                                        *)
OnePending ==
  \A a \in Approvals : approval[a] = "pending" =>
    /\ \A i \in Invocations : InLoop(i) => asked[i] = a /\ pc[i] \in {"asked", "blocking"}
    /\ NobodyInLoop => status \notin {"queued", "running"}
Resumable == \A a \in Approvals : call[a] = "approved" => Parked
Unanswered ==
  \A a \in Approvals : approval[a] \in {"none", "pending"} => call[a] = "idle"
Open(a) == approval[a] = "pending" \/ call[a] = "approved"
OneOpen == \A a, b \in Approvals : Open(a) /\ Open(b) => a = b

(* An invocation that enqueues has left the loop, and its answer comes     *)
(* from one request only.                                                  *)
Waiting ==
  /\ \A c \in posted : call[c] = "waiting"
  /\ \A i \in Invocations : serving[i] # Nobody =>
       call[serving[i]] = "waiting" /\ serving[i] \notin posted
  /\ \A i, j \in Invocations : serving[i] = serving[j] /\ serving[i] # Nobody => i = j
  /\ \A c \in Invocations : call[c] \in {"ready", "waiting"} => pc[c] = "enqueue"

OwnershipInv ==
  /\ TypeOK /\ Owner /\ OnePending /\ Resumable /\ OneOpen /\ Unanswered /\ Waiting
  /\ RunningIsRecoverable

(* The assumptions of the guarantee: nobody resolves a request before its  *)
(* run is suspended, a live worker renews its lease in time, and instances *)
(* do not die (or the run never asks for approval).                        *)
Undisturbed == ~EarlyApproval /\ ~StalledRenewals /\ (~Crashes \/ Approvals = {})

(* A freshly queued run has no owner, no request and no answer pending. *)
LEMMA OwnershipInit == Init => OwnershipInv
<1> SUFFICES ASSUME Init PROVE OwnershipInv
  OBVIOUS
<1>1. TypeOK
  BY TypeInit
<1>2. NobodyInLoop /\ Owner /\ OnePending
  BY DEF Init, NobodyInLoop, InLoop, Owner, OnePending
<1>3. Resumable /\ OneOpen /\ Unanswered
  BY QueueAssumption DEF Init, Resumable, OneOpen, Open, Unanswered, Callers
<1>4. Waiting /\ RunningIsRecoverable
  BY QueueAssumption DEF Init, Waiting, RunningIsRecoverable, Callers
<1> QED
  BY <1>1, <1>2, <1>3, <1>4 DEF OwnershipInv

(* The inductive step, one case for each action. *)
LEMMA OwnershipStep ==
  ASSUME Undisturbed
  PROVE  OwnershipInv /\ [Next]_vars => OwnershipInv'
<1> SUFFICES ASSUME OwnershipInv, [Next]_vars PROVE OwnershipInv'
  OBVIOUS
<1>type. TypeOK /\ TypeOK'
  BY TypeStep DEF OwnershipInv
<1> USE <1>type, QueueAssumption DEF Undisturbed, OwnershipInv, Owner, OnePending, Resumable,
      Parked, NobodyInLoop, InLoop, OneOpen, Open, Unanswered, Waiting, RunningIsRecoverable,
      TypeOK, Callers, rowVars, netVars
<1>1. CASE UNCHANGED vars
  BY <1>1 DEF vars
<1>2. ASSUME NEW i \in Invocations, Handler(i) PROVE OwnershipInv'
  \* maintenance re-queues nothing somebody executes: their lease is live
  <2>1. CASE Receive(i)
    BY <2>1 DEF Receive, RecoverStaleClaims, SetQueued
  \* a queued row has nobody in the loop and no open request
  <2>2. CASE Claim(i)
    BY <2>2 DEF Claim
  \* the caller that returns was enqueuing, not in the loop
  <2>3. CASE Respond(i)
    BY <2>3 DEF Respond
  <2>4. CASE KeepRunning(i)
    BY <2>4 DEF KeepRunning, SetStatus
  <2>5. ASSUME NEW a \in Approvals, RequestApproval(i, a) PROVE OwnershipInv'
    BY <2>5 DEF RequestApproval
  <2>6. CASE AwaitApproval(i)
    BY <2>6 DEF AwaitApproval, Suspend, Leave
  <2>7. CASE Block(i)
    BY <2>7 DEF Block, Suspend, Leave
  <2>8. CASE FinalizeBlocked(i)
    BY <2>8 DEF FinalizeBlocked, Suspend, SetStatus, Leave
  <2>9. CASE AskFails(i)
    BY <2>9 DEF AskFails, SetStatus, Leave
  <2>10. CASE Requeue(i)
    BY <2>10 DEF Requeue, SetQueued
  <2>11. CASE Finish(i)
    BY <2>11 DEF Finish, SetStatus, Leave
  <2>12. CASE RenewLease(i)
    BY <2>12 DEF RenewLease
  <2>13. CASE Crash(i)
    BY <2>13 DEF Crash, DropFetch, Forsaken, StraysWithout
  <2>14. CASE Recycle(i)
    BY <2>14 DEF Recycle
  <2> QED
    BY <1>2, <2>1, <2>2, <2>3, <2>4, <2>5, <2>6, <2>7, <2>8, <2>9, <2>10, <2>11, <2>12,
       <2>13, <2>14 DEF Handler
<1>3. ASSUME NEW c \in Callers, Enqueue(c) PROVE OwnershipInv'
  <2>1. CASE Post(c)
    BY <2>1 DEF Post
  <2>2. CASE Retry(c)
    BY <2>2 DEF Retry, Forsaken, StraysWithout
  \* the enqueuing invocation is out of the loop already
  <2>3. CASE NotEnqueued(c)
    BY <2>3 DEF NotEnqueued, Forsaken, StraysWithout, SetStatus
  <2>4. CASE CallerDies(c)
    BY <2>4 DEF CallerDies, DropFetch, Forsaken, StraysWithout
  <2> QED
    BY <1>3, <2>1, <2>2, <2>3, <2>4 DEF Enqueue
<1>4. ASSUME NEW a \in Approvals, Resolver(a) PROVE OwnershipInv'
  \* nobody is suspending on it, so nobody is in the loop
  <2>1. CASE Approve(a)
    BY <2>1 DEF Approve, Resolve, Suspending
  <2>2. CASE Refuse(a)
    BY <2>2 DEF Refuse, Resolve
  \* the row is parked
  <2>3. CASE Resume(a)
    BY <2>3 DEF Resume, SetQueued
  <2>4. CASE CancelRefused(a)
    BY <2>4 DEF CancelRefused, SetStatus
  <2> QED
    BY <1>4, <2>1, <2>2, <2>3, <2>4 DEF Resolver
<1>5. CASE LoseRequest
  BY <1>5 DEF LoseRequest
<1>6. CASE CronPoll
  BY <1>6 DEF CronPoll, RecoverStaleClaims, SetQueued
<1>7. CASE CancelDecided
  BY <1>7 DEF CancelDecided
<1>8. CASE CancelWritten
  BY <1>8 DEF CancelWritten, SetStatus
\* no heartbeat, hence nobody in the loop with a running row
<1>9. CASE LeaseExpires
  BY <1>9 DEF LeaseExpires
<1> HIDE DEF OwnershipInv
<1> QED
  BY <1>1, <1>2, <1>3, <1>4, <1>5, <1>6, <1>7, <1>8, <1>9 DEF Next

(* The invariant in every reachable state. *)
LEMMA OwnershipInvariant ==
  ASSUME Undisturbed
  PROVE  Spec => []OwnershipInv
<1>1. OwnershipInv /\ [Next]_vars => OwnershipInv'
  BY OwnershipStep
<1> QED
  BY OwnershipInit, <1>1, PTL DEF Spec

(* One invocation at a time executes the run: both would be named by       *)
(* claimed_by.                                                             *)
THEOREM OneExecutor ==
  ASSUME Undisturbed
  PROVE  Spec => []SingleExecutor
<1>1. OwnershipInv => SingleExecutor
  BY DEF OwnershipInv, Owner, SingleExecutor, Executing
<1>2. Spec => []OwnershipInv
  BY OwnershipInvariant
<1> QED
  BY <1>1, <1>2, PTL

(* A row is never 'running' without a lease for the recovery to find.      *)
THEOREM AlwaysRecoverable ==
  ASSUME Undisturbed
  PROVE  Spec => []RunningIsRecoverable
<1>1. OwnershipInv => RunningIsRecoverable
  BY DEF OwnershipInv
<1>2. Spec => []OwnershipInv
  BY OwnershipInvariant
<1> QED
  BY <1>1, <1>2, PTL

-----------------------------------------------------------------------------
(* No lost wakeup                                                          *)

(* A request somebody is still suspending the run on has no answer yet,    *)
(* and the row is suspended only when nobody works on the run any more.    *)
(* So the request it waits for is unanswered, or its answer is on its way  *)
(* to the row.                                                             *)
AskedIsPending ==
  \A i \in Invocations : asked[i] # Nobody =>
    pc[i] \in {"asked", "blocking"} /\ approval[asked[i]] = "pending"
SuspendedAtRest ==
  waitsFor # Nobody =>
    status \in {"awaiting_approval", "blocked"} /\ \A i \in Invocations : pc[i] \notin {"working", "asked"}
AnswerOnItsWay ==
  waitsFor # Nobody => approval[waitsFor] = "pending" \/ call[waitsFor] \in {"approved", "refused"}

WakeupInv == AskedIsPending /\ SuspendedAtRest /\ AnswerOnItsWay

(* A freshly queued run waits for nothing. *)
LEMMA WakeupInit == Init => WakeupInv
  BY DEF Init, WakeupInv, AskedIsPending, SuspendedAtRest, AnswerOnItsWay

(* The inductive step, one case for each action. *)
LEMMA WakeupStep ==
  ASSUME Undisturbed
  PROVE  OwnershipInv /\ WakeupInv /\ [Next]_vars => WakeupInv'
<1> SUFFICES ASSUME OwnershipInv, WakeupInv, [Next]_vars PROVE WakeupInv'
  OBVIOUS
<1>type. TypeOK /\ Owner /\ Waiting
  BY DEF OwnershipInv
<1> USE <1>type, QueueAssumption DEF Undisturbed, WakeupInv, AskedIsPending, SuspendedAtRest,
      AnswerOnItsWay, Owner, InLoop, Waiting, TypeOK, Callers, rowVars, netVars
<1>1. CASE UNCHANGED vars
  BY <1>1 DEF vars
<1>2. ASSUME NEW i \in Invocations, Handler(i) PROVE WakeupInv'
  <2>1. CASE Receive(i)
    BY <2>1 DEF Receive, RecoverStaleClaims, SetQueued
  \* a queued row is not suspended
  <2>2. CASE Claim(i)
    BY <2>2 DEF Claim
  \* whoever is told has posted its request: its answer reached the row
  <2>3. CASE Respond(i)
    BY <2>3 DEF Respond
  <2>4. CASE KeepRunning(i)
    BY <2>4 DEF KeepRunning, SetStatus
  <2>5. ASSUME NEW a \in Approvals, RequestApproval(i, a) PROVE WakeupInv'
    BY <2>5 DEF RequestApproval
  \* nobody else is in the loop
  <2>6. CASE AwaitApproval(i)
    BY <2>6 DEF AwaitApproval, Suspend, Leave
  <2>7. CASE Block(i)
    BY <2>7 DEF Block, Suspend, Leave
  <2>8. CASE FinalizeBlocked(i)
    BY <2>8 DEF FinalizeBlocked, Suspend, SetStatus, Leave
  \* the row is not suspended yet
  <2>9. CASE AskFails(i)
    BY <2>9 DEF AskFails, SetStatus, Leave
  <2>10. CASE Requeue(i)
    BY <2>10 DEF Requeue, SetQueued
  <2>11. CASE Finish(i)
    BY <2>11 DEF Finish, SetStatus, Leave
  <2>12. CASE RenewLease(i)
    BY <2>12 DEF RenewLease
  \* a run that may crash asks for no approval
  <2>13. CASE Crash(i)
    BY <2>13 DEF Crash, DropFetch, Forsaken, StraysWithout
  <2>14. CASE Recycle(i)
    BY <2>14 DEF Recycle
  <2> QED
    BY <1>2, <2>1, <2>2, <2>3, <2>4, <2>5, <2>6, <2>7, <2>8, <2>9, <2>10, <2>11, <2>12,
       <2>13, <2>14 DEF Handler
<1>3. ASSUME NEW c \in Callers, Enqueue(c) PROVE WakeupInv'
  <2>1. CASE Post(c)
    BY <2>1 DEF Post
  <2>2. CASE Retry(c)
    BY <2>2 DEF Retry, Forsaken, StraysWithout
  <2>3. CASE NotEnqueued(c)
    BY <2>3 DEF NotEnqueued, Forsaken, StraysWithout, SetStatus
  <2>4. CASE CallerDies(c)
    BY <2>4 DEF CallerDies, DropFetch, Forsaken, StraysWithout
  <2> QED
    BY <1>3, <2>1, <2>2, <2>3, <2>4 DEF Enqueue
<1>4. ASSUME NEW a \in Approvals, Resolver(a) PROVE WakeupInv'
  \* nobody is suspending the run on it
  <2>1. CASE Approve(a) \/ Refuse(a)
    BY <2>1 DEF Approve, Refuse, Resolve, Suspending
  <2>2. CASE Resume(a)
    BY <2>2 DEF Resume, SetQueued
  <2>3. CASE CancelRefused(a)
    BY <2>3 DEF CancelRefused, SetStatus
  <2> QED
    BY <1>4, <2>1, <2>2, <2>3 DEF Resolver
<1>5. CASE LoseRequest
  BY <1>5 DEF LoseRequest
<1>6. CASE CronPoll
  BY <1>6 DEF CronPoll, RecoverStaleClaims, SetQueued
<1>7. CASE CancelDecided \/ CancelWritten \/ LeaseExpires
  BY <1>7 DEF CancelDecided, CancelWritten, LeaseExpires, SetStatus
<1> HIDE DEF WakeupInv
<1> QED
  BY <1>1, <1>2, <1>3, <1>4, <1>5, <1>6, <1>7 DEF Next

(* When nothing is in flight any more, a run that is suspended on a        *)
(* request still waits for the user: an answer would be under way.         *)
THEOREM NoWakeupLost ==
  ASSUME Undisturbed
  PROVE  Spec => []NoLostWakeup
<1>1. OwnershipInv /\ WakeupInv => NoLostWakeup
  BY DEF OwnershipInv, TypeOK, WakeupInv, AnswerOnItsWay, NoLostWakeup, Quiet, Callers
<1>2. OwnershipInv /\ WakeupInv /\ [Next]_vars => WakeupInv'
  BY WakeupStep
<1>3. Spec => []OwnershipInv
  BY OwnershipInvariant
<1> QED
  BY WakeupInit, <1>1, <1>2, <1>3, PTL DEF Spec
=============================================================================
