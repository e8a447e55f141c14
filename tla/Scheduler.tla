------------------------------ MODULE Scheduler ------------------------------
(***************************************************************************)
(* Deferred and recurring tasks. handleDurableTask turns a task for later  *)
(* into a goal and a row of scheduled_triggers; every maintenance cycle    *)
(* (on each workflow request and once a day) polls the due triggers: it    *)
(* deletes them, then makes a run for each and puts the recurring ones     *)
(* back. A failure or a crash between the two loses the trigger.           *)
(*                                                                         *)
(* The pollers pass the gate of Readiness first. The rest of a maintenance *)
(* cycle is in RunQueue (recoverStaleClaims) and EventIngress; a run's way *)
(* from its request on is in RunQueue.                                     *)
(***************************************************************************)
EXTENDS Naturals, Sequences, FiniteSets

CONSTANTS
  Pollers,     \* maintenance cycles, each again and again
  Instances,   \* instances of the functions that poll
  InstanceOf,  \* the instance of a poller
  Latest,      \* the last of the migrations
  Deferred,    \* tasks for later: one-shot triggers
  Recurring,   \* triggers with cron or interval_seconds
  Batch,       \* LIMIT 20
  MaxFirings,  \* bound: how often a trigger falls due
  MaxFailures  \* bound: statements that fail, invocations refused or killed

Triggers == Deferred \cup Recurring

ASSUME SchedulerAssumption ==
  /\ InstanceOf \in [Pollers -> Instances] /\ Latest \in Nat \ {0}
  /\ Deferred \cap Recurring = {}
  /\ Batch \in Nat \ {0} /\ MaxFirings \in Nat /\ MaxFailures \in Nat

VARIABLES
  applied, state, tx, gate,   \* Readiness.tla
  waiting,     \* scheduled_triggers: rows with next_run_at in the future
  due,         \* the other rows, in the order of next_run_at
  handler,     \* handleDurableTask of each deferred task
  goal,        \* agent_goals.status
  runs,        \* runs made for a trigger, by whether a request was sent for them
  hand,        \* the triggers each poller has claimed and not dealt with
  at,          \* where the poller is with the first of them
  falls,       \* ghost: how often each trigger fell due
  hit,         \* ghost: triggers a failure or a crash happened to
  failures     \* ghost: how many there were

readiness == <<applied, state, tx, gate>>
vars == <<readiness, waiting, due, handler, goal, runs, hand, at, falls, hit, failures>>

Gate == INSTANCE Readiness WITH Callers <- Pollers

Rows == waiting \cup {due[k] : k \in DOMAIN due}
InHand == UNION {{hand[p][k] : k \in DOMAIN hand[p]} : p \in Pollers}

(* Rows, goals and places keep their types; a trigger is in one row.       *)
TypeOK ==
  /\ Gate!TypeOK
  /\ waiting \subseteq Triggers /\ due \in Seq(Triggers)
  /\ \A k \in DOMAIN due : due[k] \notin waiting /\ \A l \in DOMAIN due : k # l => due[k] # due[l]
  /\ handler \in [Deferred -> {"new", "goal", "trigger", "promised", "error"}]
  /\ goal \in [Triggers -> {"none", "created", "running", "failed"}]
  /\ runs \in [Triggers -> [unasked : Nat, asked : Nat]]
  /\ hand \in [Pollers -> Seq(Triggers)]
  /\ at \in [Pollers -> {"idle", "claim", "run", "reinsert", "goal", "request"}]
  /\ falls \in [Triggers -> 0..MaxFirings]
  /\ hit \subseteq Triggers /\ failures \in 0..MaxFailures

Init ==
  /\ Gate!Init
  /\ waiting = Recurring /\ due = <<>>
  /\ handler = [t \in Deferred |-> "new"]
  /\ goal = [t \in Triggers |-> IF t \in Recurring THEN "created" ELSE "none"]
  /\ runs = [t \in Triggers |-> [unasked |-> 0, asked |-> 0]]
  /\ hand = [p \in Pollers |-> <<>>]
  /\ at = [p \in Pollers |-> "idle"]
  /\ falls = [t \in Triggers |-> 0]
  /\ hit = {} /\ failures = 0

-----------------------------------------------------------------------------
(* handleDurableTask                                                       *)

pollers == <<readiness, hand, at>>
Reach(t, place) == handler' = [handler EXCEPT ![t] = place]
SetGoal(t, st) == goal' = [goal EXCEPT ![t] = st]
Fails == failures < MaxFailures /\ failures' = failures + 1
Hits(S) == Fails /\ hit' = hit \cup S
NoFailure == UNCHANGED <<hit, failures>>

CreateGoal(t) ==
  /\ handler[t] = "new"
  /\ Reach(t, "goal") /\ SetGoal(t, "created")
  /\ UNCHANGED <<pollers, waiting, due, runs, falls>> /\ NoFailure

CreateTrigger(t) ==
  /\ handler[t] = "goal"
  /\ Reach(t, "trigger") /\ waiting' = waiting \cup {t}
  /\ UNCHANGED <<pollers, due, goal, runs, falls>> /\ NoFailure

(* The audit event, then the promise in the thread. *)
Promise(t) ==
  /\ handler[t] = "trigger"
  /\ Reach(t, "promised")
  /\ UNCHANGED <<pollers, waiting, due, goal, runs, falls>> /\ NoFailure

(* The catch: the goal fails, if the handler has got it; the row of the    *)
(* trigger stays. A broken connection leaves it open whether a row was     *)
(* inserted: the second try collides with the first.                       *)
TaskFails(t) ==
  /\ handler[t] \in {"new", "goal", "trigger"} /\ Hits({t})
  /\ waiting' \in IF handler[t] = "goal" THEN {waiting, waiting \cup {t}} ELSE {waiting}
  /\ Reach(t, "error")
  /\ IF handler[t] = "new" THEN UNCHANGED goal \/ SetGoal(t, "created") ELSE SetGoal(t, "failed")
  /\ UNCHANGED <<pollers, due, runs, falls>>

-----------------------------------------------------------------------------
(* Time passes: a trigger's next_run_at. *)
FallsDue(t) ==
  /\ t \in waiting /\ falls[t] < MaxFirings
  /\ waiting' = waiting \ {t} /\ due' = Append(due, t)
  /\ falls' = [falls EXCEPT ![t] = @ + 1]
  /\ UNCHANGED <<pollers, handler, goal, runs>> /\ NoFailure

-----------------------------------------------------------------------------
(* runSystemMaintenance: pollScheduledTriggers                             *)

triggers == <<waiting, due, handler, goal, runs, hand, at, falls, hit>>
Place(p, place) == at' = [at EXCEPT ![p] = place]

(* The request that makes an invocation poll: the gate, then the claim. *)
Request(p) == at[p] = "idle" /\ Gate!Call(p) /\ UNCHANGED <<triggers, failures>>
Check(p) ==
  /\ Gate!CheckStores(p)
  /\ IF gate'[p] = "passed" THEN UNCHANGED failures ELSE Fails
  /\ UNCHANGED triggers

Enter(p) ==
  /\ at[p] = "idle" /\ gate[p] = "passed"
  /\ Place(p, "claim")
  /\ UNCHANGED <<readiness, waiting, due, handler, goal, runs, hand, falls>> /\ NoFailure

Least(m, n) == IF m < n THEN m ELSE n

(* Mutant: read now, deleted when the trigger is re-inserted or dropped. *)
ClaimByReading(p) ==
  LET n == Least(Batch, Len(due))
  IN /\ at[p] = "claim"
     /\ hand' = [hand EXCEPT ![p] = SubSeq(due, 1, n)]
     /\ Place(p, "run")
     /\ UNCHANGED <<readiness, waiting, due, handler, goal, runs, falls>> /\ NoFailure

(* DELETE ... RETURNING of the oldest due rows that nobody else is         *)
(* deleting.                                                               *)
ClaimDue(p) ==
  LET n == Least(Batch, Len(due))
  IN /\ at[p] = "claim"
     /\ hand' = [hand EXCEPT ![p] = SubSeq(due, 1, n)]
     /\ due' = SubSeq(due, n + 1, Len(due))
     /\ Place(p, "run")
     /\ UNCHANGED <<readiness, waiting, handler, goal, runs, falls>> /\ NoFailure

(* The connection breaks after the rows were deleted: query() sends the    *)
(* DELETE again, and what the first one returned is lost.                  *)
ClaimUnheard(p) ==
  LET n == Least(Batch, Len(due))
  IN /\ at[p] = "claim" /\ n > 0
     /\ Hits({due[k] : k \in 1..n})
     /\ due' = SubSeq(due, n + 1, Len(due))
     /\ UNCHANGED <<readiness, waiting, handler, goal, runs, hand, at, falls>>

Rest(p) == hand' = [hand EXCEPT ![p] = Tail(hand[p])]

(* createRun *)
CreateRun(p) ==
  /\ at[p] = "run" /\ hand[p] # <<>>
  /\ runs' = [runs EXCEPT ![Head(hand[p])].unasked = @ + 1]
  /\ Place(p, "reinsert")
  /\ UNCHANGED <<readiness, waiting, due, handler, goal, hand, falls>> /\ NoFailure

(* reinsertScheduledTrigger, with a next_run_at that is still to come;     *)
(* one-shot triggers are not put back.                                     *)
Reinsert(p) ==
  /\ at[p] = "reinsert"
  /\ waiting' = waiting \cup ({Head(hand[p])} \cap Recurring)
  /\ Place(p, "goal")
  /\ UNCHANGED <<readiness, due, handler, goal, runs, hand, falls>> /\ NoFailure

StartGoal(p) ==
  /\ at[p] = "goal"
  /\ SetGoal(Head(hand[p]), "running")
  /\ Place(p, "request")
  /\ UNCHANGED <<readiness, waiting, due, handler, runs, hand, falls>> /\ NoFailure

(* enqueueRunTask, whose answer nobody looks at. *)
SendRequest(p) ==
  /\ at[p] = "request"
  /\ \/ runs' = [runs EXCEPT ![Head(hand[p])] = [unasked |-> @.unasked - 1, asked |-> @.asked + 1]]
        /\ NoFailure
     \/ Hits({Head(hand[p])}) /\ UNCHANGED runs
  /\ Rest(p) /\ Place(p, "run")
  /\ UNCHANGED <<readiness, waiting, due, handler, goal, falls>>

(* Mutant: an error ends the poll. *)
FiringFailsForAll(p) ==
  /\ at[p] \in {"run", "reinsert", "goal"} /\ hand[p] # <<>>
  /\ Hits({Head(hand[p])})
  /\ hand' = [hand EXCEPT ![p] = <<>>] /\ Place(p, "run")
  /\ UNCHANGED <<readiness, waiting, due, handler, goal, runs, falls>>

(* Mutant: a trigger whose firing fails is due again. *)
FiringFailsRequeues(p) ==
  /\ at[p] \in {"run", "reinsert"} /\ hand[p] # <<>>
  /\ Hits({Head(hand[p])})
  /\ due' = Append(due, Head(hand[p]))
  /\ Rest(p) /\ Place(p, "run")
  /\ UNCHANGED <<readiness, waiting, handler, goal, runs, falls>>

(* A statement fails, perhaps after it was executed: the next trigger. *)
FiringFails(p) ==
  /\ at[p] \in {"run", "reinsert", "goal"} /\ hand[p] # <<>>
  /\ LET t == Head(hand[p])
     IN /\ Hits({t})
        /\ \/ UNCHANGED <<waiting, goal, runs>>
           \/ at[p] = "run" /\ runs' = [runs EXCEPT ![t].unasked = @ + 1] /\ UNCHANGED <<waiting, goal>>
           \/ /\ at[p] = "reinsert" /\ t \in Recurring
              /\ waiting' = waiting \cup {t} /\ UNCHANGED <<goal, runs>>
           \/ at[p] = "goal" /\ SetGoal(t, "running") /\ UNCHANGED <<waiting, runs>>
  /\ Rest(p) /\ Place(p, "run")
  /\ UNCHANGED <<readiness, due, handler, falls>>

EndPoll(p) ==
  /\ at[p] = "run" /\ hand[p] = <<>>
  /\ Gate!Leave(p)
  /\ Place(p, "idle")
  /\ UNCHANGED <<waiting, due, handler, goal, runs, hand, falls>> /\ NoFailure

(* An instance is killed, and with it all that its pollers have in hand. *)
Kill(i) ==
  LET here == {p \in Pollers : InstanceOf[p] = i}
  IN /\ Hits(UNION {{hand[p][k] : k \in DOMAIN hand[p]} : p \in here})
     /\ Gate!Restart(i)
     /\ hand' = [p \in Pollers |-> IF p \in here THEN <<>> ELSE hand[p]]
     /\ at' = [p \in Pollers |-> IF p \in here THEN "idle" ELSE at[p]]
     /\ UNCHANGED <<waiting, due, handler, goal, runs, falls>>

Migrating(i) == Gate!Migrate(i) /\ UNCHANGED <<triggers, failures>>
MigrationFails(i) == Gate!Fail(i) /\ Fails /\ UNCHANGED triggers

-----------------------------------------------------------------------------
Poll(p) ==
  \/ Check(p) \/ Enter(p) \/ ClaimDue(p) \/ CreateRun(p) \/ Reinsert(p) \/ StartGoal(p)
  \/ SendRequest(p) \/ FiringFails(p) \/ EndPoll(p)

Next ==
  \/ \E t \in Deferred : CreateGoal(t) \/ CreateTrigger(t) \/ Promise(t) \/ TaskFails(t)
  \/ \E t \in Triggers : FallsDue(t)
  \/ \E p \in Pollers : Request(p) \/ Poll(p) \/ ClaimUnheard(p)
  \/ \E i \in Instances : Migrating(i) \/ MigrationFails(i) \/ Kill(i)

Spec == Init /\ [][Next]_vars

(* Requests keep coming, the daily cron's at least; an invocation that is  *)
(* not killed goes on; each statement of a migration returns.              *)
FairSpec ==
  /\ Spec
  /\ \A p \in Pollers : WF_vars(Request(p)) /\ WF_vars(Poll(p))
  /\ \A i \in Instances : WF_vars(Migrating(i))

-----------------------------------------------------------------------------
(* Properties                                                              *)

(* No trigger is polled on a schema that is not complete, whatever the     *)
(* instances that start together do to each other's migrations, and the    *)
(* SQL of a migration takes effect once.                                   *)
SchemaSound == Gate!SchemaSound

(* Pollers on several instances never fire a trigger twice: each time it   *)
(* falls due it gets one run at most, crashes and statements that were     *)
(* sent twice included.                                                    *)
FiredOncePerDue == \A t \in Triggers : runs[t].unasked + runs[t].asked <= falls[t]

(* A trigger is lost only by a failure of its own firing: errors of other  *)
(* triggers, concurrent pollers and cold starts do not lose it. A          *)
(* recurring one is in its row or in the hands of a poller; one that was   *)
(* promised in the thread is so too, or its run was requested.             *)
NoTriggerLost ==
  /\ \A t \in Recurring \ hit : t \in Rows \cup InHand
  /\ \A t \in Deferred \ hit :
       handler[t] \in {"trigger", "promised"} => t \in Rows \cup InHand \/ runs[t].asked > 0

(* Whatever fell due is fired, and its run requested, unless a failure hit *)
(* it, though polls are refused, migrations fail and instances restart:    *)
(* again and again there is no trigger left that is due.                   *)
EveryDueFires ==
  \A t \in Triggers : []<>(t \in hit \/ runs[t].asked = falls[t])
=============================================================================
