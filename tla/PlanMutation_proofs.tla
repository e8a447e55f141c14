------------------------ MODULE PlanMutation_proofs ------------------------
(***************************************************************************)
(* Proofs about PlanMutation, for any number of concurrent mutations, any  *)
(* plan and any bound on instructions, retries and steps: removed steps    *)
(* stay removed, reported writes need a fresh approval, and inserted steps *)
(* count for success.                                                      *)
(***************************************************************************)
EXTENDS PlanMutation, TLAPS

-----------------------------------------------------------------------------
(* Types                                                                   *)

(* A statement that sets the status of a step keeps the rest of the row. *)
LEMMA StepSet ==
  ASSUME row \in [Steps -> RowType], NEW s \in Steps, NEW st \in StepStatus, SetStep(s, st)
  PROVE  /\ row' \in [Steps -> RowType]
         /\ \A u \in Steps : row'[u].action = row[u].action /\ row'[u].order = row[u].order
         /\ \A u \in Steps : row'[u].status = IF u = s THEN st ELSE row[u].status
<1>1. row[s] \in RowType /\ [row[s] EXCEPT !.status = st] \in RowType
  BY DEF RowType
<1>2. row' = [row EXCEPT ![s] = [row[s] EXCEPT !.status = st]]
  BY DEF SetStep
<1> QED
  BY <1>1, <1>2 DEF RowType

(* So does one that takes a whole set of steps from one status to another. *)
LEMMA StepsReset ==
  ASSUME row \in [Steps -> RowType], NEW from \in StepStatus, NEW to \in StepStatus,
         row' = [s \in Steps |-> IF row[s].status = from
                                  THEN [row[s] EXCEPT !.status = to] ELSE row[s]]
  PROVE  /\ row' \in [Steps -> RowType]
         /\ \A u \in Steps : row'[u].action = row[u].action /\ row'[u].order = row[u].order
         /\ \A u \in Steps : row'[u].status = IF row[u].status = from THEN to ELSE row[u].status
<1>1. ASSUME NEW s \in Steps
      PROVE  row[s] \in RowType /\ [row[s] EXCEPT !.status = to] \in RowType
  BY DEF RowType
<1> QED
  BY <1>1 DEF RowType

(* A retry resets the failed steps. *)
LEMMA RetryRows ==
  ASSUME row \in [Steps -> RowType], Retry
  PROVE  /\ row' \in [Steps -> RowType]
         /\ \A u \in Steps : row'[u].action = row[u].action /\ row'[u].order = row[u].order
         /\ \A u \in Steps : row'[u].status = IF row[u].status = "failed" THEN "pending"
                                                                    ELSE row[u].status
<1>1. row' = [s \in Steps |-> IF row[s].status = "failed"
                                THEN [row[s] EXCEPT !.status = "pending"] ELSE row[s]]
  BY DEF Retry
<1>2. "failed" \in StepStatus /\ "pending" \in StepStatus
  BY DEF StepStatus
<1> QED
  BY <1>1, <1>2, StepsReset

(* A click resets the blocked steps. *)
LEMMA GrantRows ==
  ASSUME row \in [Steps -> RowType], Grant
  PROVE  /\ row' \in [Steps -> RowType]
         /\ \A u \in Steps : row'[u].action = row[u].action /\ row'[u].order = row[u].order
         /\ \A u \in Steps : row'[u].status = IF row[u].status = "blocked" THEN "pending"
                                                                    ELSE row[u].status
<1>1. row' = [s \in Steps |-> IF row[s].status = "blocked"
                                THEN [row[s] EXCEPT !.status = "pending"] ELSE row[s]]
  BY DEF Grant
<1>2. "blocked" \in StepStatus /\ "pending" \in StepStatus
  BY DEF StepStatus
<1> QED
  BY <1>1, <1>2, StepsReset

(* The rows a snapshot takes are typed. *)
LEMMA Snapshots ==
  ASSUME row \in [Steps -> RowType]
  PROVE  {[id |-> s, action |-> row[s].action, order |-> row[s].order] :
            s \in InStatus("pending")} \in SUBSET Snapshot
  BY DEF InStatus, Snapshot, RowType

(* At first every variable has its type. *)
LEMMA TypeInit == Init => TypeOK
<1> SUFFICES ASSUME Init PROVE TypeOK
  OBVIOUS
<1>1. plan \in Seq(Actions) /\ Len(plan) \in 1..MaxSteps
  BY MutationAssumption DEF Init
<1>2. \A s \in DOMAIN plan : s \in Nat /\ plan[s] \in Actions
  BY <1>1
<1>3. row \in [Steps -> RowType]
  BY <1>2 DEF Init, Steps, StepStatus, RowType
<1>4. worker \in WorkerType
  BY DEF Init, Away, WorkerType
<1>5. Ready \in MutationType
  BY DEF Ready, MutationType, StepStatus
<1> QED
  BY <1>3, <1>4, <1>5 DEF Init, TypeOK

(* Every step keeps the types. *)
LEMMA TypeStep == TypeOK /\ [Next]_vars => TypeOK'
<1> SUFFICES ASSUME TypeOK, [Next]_vars PROVE TypeOK'
  OBVIOUS
<1> USE DEF TypeOK, SetRun
<1>0. /\ Away \in WorkerType
      /\ {"pending", "running", "blocked", "succeeded", "failed", "skipped"} \subseteq StepStatus
      /\ \A t \in worker.todo \cup worker.now : t \in Snapshot /\ t.id \in Steps
  BY DEF Away, WorkerType, StepStatus, Snapshot
<1>1. CASE Claim
  BY <1>1 DEF Claim, Away, WorkerType
<1>2. CASE Hydrate
  <2>1. worker' \in WorkerType
    BY <1>2, Snapshots DEF Hydrate, WorkerType
  <2> QED
    BY <1>2, <2>1 DEF Hydrate
<1>3. CASE Pick
  <2>1. PICK t \in worker.todo :
          /\ SetStep(t.id, "running")
          /\ worker' = [worker EXCEPT
               !.pc = IF t.action \in Writes THEN "gate" ELSE "perform",
               !.todo = @ \ {t}, !.now = {t},
               !.grant = IF worker.byPlan THEN {}
                         ELSE {q \in requests : q.step = t.id /\ q.granted}]
    BY <1>3 DEF Pick
  <2>2. row' \in [Steps -> RowType]
    BY <1>0, <2>1, StepSet
  <2>3. worker' \in WorkerType
    BY <1>0, <2>1 DEF WorkerType
  <2> QED
    BY <1>3, <2>2, <2>3 DEF Pick
<1>4. ASSUME NEW t \in worker.now, NEW st \in {"succeeded", "failed"}, Outcome(t.id, st)
      PROVE  row' \in [Steps -> RowType] /\ worker' \in WorkerType
  <2>1. row' \in [Steps -> RowType]
    BY <1>0, <1>4, StepSet DEF Outcome
  <2>2. worker' \in WorkerType
    BY <1>4 DEF Outcome, WorkerType
  <2> QED
    BY <2>1, <2>2
<1>5. CASE Gate
  <2>1. CASE worker' = [worker EXCEPT !.pc = "write"] /\ UNCHANGED <<row, run, requests>>
    <3>1. worker' \in WorkerType
      BY <2>1 DEF WorkerType
    <3>2. approval' \in [version : {None, 1}, consumed : BOOLEAN]
      BY <1>5 DEF Gate
    <3> QED
      BY <1>5, <2>1, <3>1, <3>2 DEF Gate
  <2>2. CASE worker' = Away /\ UNCHANGED approval
    <3>1. ASSUME NEW t \in worker.now,
                 requests' = requests \cup {[step |-> t.id, action |-> t.action, granted |-> FALSE]},
                 SetStep(t.id, "blocked")
          PROVE  row' \in [Steps -> RowType] /\ requests' \subseteq Request
      <4>1. [step |-> t.id, action |-> t.action, granted |-> FALSE] \in Request
        BY <1>0 DEF Request, Snapshot
      <4> QED
        BY <1>0, <3>1, <4>1, StepSet
    <3>2. CASE UNCHANGED <<row, run, requests>>
      BY <1>0, <1>5, <2>2, <3>2 DEF Gate
    <3> QED
      BY <1>0, <1>5, <2>2, <3>1, <3>2 DEF Gate
  <2> QED
    BY <1>5, <2>1, <2>2 DEF Gate
<1>6. CASE Perform \/ Write
  BY <1>4, <1>6 DEF Perform, Write
<1>7. CASE StepsDone \/ Verify \/ Succeed
  <2>1. Existing \subseteq Steps
    BY DEF Existing
  <2>2. CASE StepsDone
    BY <2>2 DEF StepsDone, WorkerType
  <2>3. CASE Verify
    <3>1. worker' \in WorkerType
      BY <2>1, <2>3 DEF Verify, WorkerType
    <3> QED
      BY <2>3, <3>1 DEF Verify
  <2>4. CASE Succeed
    BY <2>4 DEF Succeed, WorkerType
  <2> QED
    BY <1>7, <2>2, <2>3, <2>4
<1>8. CASE Retry
  <2>1. row' \in [Steps -> RowType]
    BY <1>8, RetryRows
  <2> QED
    BY <1>0, <1>8, <2>1 DEF Retry
<1>9. CASE GiveUp \/ Yield \/ RecoverStaleClaims
  BY <1>0, <1>9 DEF GiveUp, Yield, RecoverStaleClaims
<1>10. CASE Grant
  <2>1. row' \in [Steps -> RowType]
    BY <1>10, GrantRows
  <2>2. requests' \subseteq Request
    BY <1>10 DEF Grant, Request
  <2> QED
    BY <1>10, <2>1, <2>2 DEF Grant
<1>11. ASSUME NEW m \in Mutations, Mutate(m) PROVE TypeOK'
  <2> USE DEF WorkerSame
  <2>0. mutation[m] \in MutationType /\ Ready \in MutationType /\ Seen(m) \subseteq Steps
    BY DEF Ready, MutationType, StepStatus, Seen
  <2>1. CASE Begin(m)
    <3>1. PICK last \in Existing :
            mutation' = [mutation EXCEPT ![m].pc = "apply",
                           ![m].seen = [s \in Steps |-> row[s].status],
                           ![m].last = row[last].order]
      BY <2>1 DEF Begin
    <3>2. last \in Steps /\ row[last].order \in Nat
          /\ [s \in Steps |-> row[s].status] \in [Steps -> StepStatus]
      BY DEF Existing, RowType
    <3>3. [mutation[m] EXCEPT !.pc = "apply", !.seen = [s \in Steps |-> row[s].status],
                              !.last = row[last].order] \in MutationType
      BY <2>0, <3>2 DEF MutationType
    <3>4. mutation' \in [Mutations -> MutationType]
      BY <3>1, <3>3
    <3> QED
      BY <2>1, <3>4 DEF Begin
  <2>2. CASE Remove(m)
    <3>1. row' \in [Steps -> RowType]
      BY <1>0, <2>0, <2>2, StepSet DEF Remove
    <3>2. [mutation[m] EXCEPT !.made = @ + 1] \in MutationType
      BY <2>0 DEF MutationType
    <3> QED
      BY <2>2, <3>1, <3>2 DEF Remove
  <2>3. CASE Modify(m)
    <3>1. PICK s \in Seen(m), a \in Actions :
            row' = [row EXCEPT ![s].action = a] /\ modified' = modified \cup {s}
      BY <2>3 DEF Modify
    <3>2. s \in Steps /\ [row[s] EXCEPT !.action = a] \in RowType
      BY <2>0 DEF RowType
    <3>3. row' \in [Steps -> RowType]
      BY <3>1, <3>2
    <3>4. [mutation[m] EXCEPT !.made = @ + 1] \in MutationType
      BY <2>0 DEF MutationType
    <3> QED
      BY <2>3, <3>1, <3>2, <3>3, <3>4 DEF Modify
  <2>4. CASE Replace(m)
    <3>1. PICK s \in Seen(m) :
            /\ SetStep(s, "skipped")
            /\ mutation' = [mutation EXCEPT ![m].pc = "insert", ![m].at = row[s].order]
      BY <2>4 DEF Replace
    <3>2. row' \in [Steps -> RowType] /\ row[s].order \in Nat
      BY <1>0, <2>0, <3>1, StepSet DEF RowType
    <3>3. [mutation[m] EXCEPT !.pc = "insert", !.at = row[s].order] \in MutationType
      BY <2>0, <3>2 DEF MutationType
    <3> QED
      BY <2>4, <3>1, <3>2, <3>3 DEF Replace
  <2>5. CASE Insert(m)
    <3>1. PICK s \in Steps \ Existing, a \in Actions :
            /\ row' = [row EXCEPT ![s] = [status |-> "pending", action |-> a,
                 order |-> IF mutation[m].pc = "insert" THEN mutation[m].at
                                                        ELSE mutation[m].last + 1]]
            /\ mutation' = [mutation EXCEPT ![m].pc = "apply", ![m].made = @ + 1,
                 ![m].inserted = @ \cup {s}, ![m].writes = IF a \in Writes THEN @ + 1 ELSE @]
      BY <2>5 DEF Insert
    <3>2. row' \in [Steps -> RowType]
      BY <1>0, <2>0, <3>1 DEF RowType, MutationType
    <3>3. [mutation[m] EXCEPT !.pc = "apply", !.made = @ + 1, !.inserted = @ \cup {s},
                              !.writes = IF a \in Writes THEN @ + 1 ELSE @] \in MutationType
      <4>1. /\ mutation[m].made + 1 \in Nat
            /\ mutation[m].inserted \cup {s} \in SUBSET Steps
            /\ (IF a \in Writes THEN mutation[m].writes + 1 ELSE mutation[m].writes) \in Nat
        BY <2>0 DEF MutationType
      <4> QED
        BY <2>0, <4>1 DEF MutationType
    <3> QED
      BY <2>5, <3>1, <3>2, <3>3 DEF Insert
  <2>6. CASE Finish(m)
    <3>1. [Ready EXCEPT !.pc = "done"] \in MutationType /\ mutation[m].inserted \subseteq Steps
      BY <2>0 DEF MutationType
    <3> QED
      BY <2>6, <3>1 DEF Finish
  <2>7. CASE Abort(m)
    <3>1. [Ready EXCEPT !.pc = "done"] \in MutationType
      BY <2>0 DEF MutationType
    <3> QED
      BY <2>7, <3>1 DEF Abort
  <2> QED
    BY <1>11, <2>1, <2>2, <2>3, <2>4, <2>5, <2>6, <2>7 DEF Mutate
<1>12. CASE UNCHANGED vars
  BY <1>12 DEF vars
<1> QED
  BY <1>1, <1>2, <1>3, <1>5, <1>6, <1>7, <1>8, <1>9, <1>10, <1>11, <1>12 DEF Next

(* Rows, snapshots and counters keep their types, whatever the mutations   *)
(* and the worker do to each other (planMutation.ts, loop.ts).             *)
THEOREM MutationTyped == Spec => []TypeOK
<1>1. Init => TypeOK
  BY TypeInit
<1>2. TypeOK /\ [Next]_vars => TypeOK'
  BY TypeStep
<1> QED
  BY <1>1, <1>2, PTL DEF Spec

-----------------------------------------------------------------------------
(* What is removed stays removed                                           *)

(* No step of anybody revives a removed row but that of a worker that has  *)
(* it in its snapshot.                                                     *)
LEMMA RemovedStep ==
  ASSUME TypeOK, [Next]_vars, NEW s \in Steps, row[s].status = "skipped",
         \A t \in worker.todo \cup worker.now : t.id # s
  PROVE  row'[s].status = "skipped"
<1> USE DEF TypeOK
<1>0. /\ {"pending", "running", "blocked", "succeeded", "failed", "skipped"} \subseteq StepStatus
      /\ \A t \in worker.todo \cup worker.now : t.id \in Steps
  BY DEF WorkerType, StepStatus, Snapshot
<1>1. CASE Pick
  BY <1>0, <1>1, StepSet DEF Pick
<1>6. ASSUME NEW t \in worker.now, NEW st \in {"succeeded", "failed"}, SetStep(t.id, st)
      PROVE  row'[s].status = "skipped"
  BY <1>0, <1>6, StepSet
<1>7. CASE Perform \/ Write
  BY <1>6, <1>7 DEF Perform, Write, Outcome
<1>2. CASE Gate
  BY <1>0, <1>2, StepSet DEF Gate
<1>3. CASE Retry \/ Grant
  BY <1>3, RetryRows, GrantRows
<1>4. CASE Claim \/ Hydrate \/ StepsDone \/ Verify \/ Succeed \/ GiveUp \/ Yield
             \/ RecoverStaleClaims \/ UNCHANGED vars
  BY <1>4 DEF Claim, Hydrate, StepsDone, Verify, Succeed, GiveUp, Yield, RecoverStaleClaims, vars
<1>5. ASSUME NEW m \in Mutations, Mutate(m) PROVE row'[s].status = "skipped"
  <2>1. CASE Remove(m) \/ Replace(m)
    BY <1>0, <2>1, StepSet DEF Remove, Replace, Seen
  <2>2. CASE Modify(m)
    BY <2>2 DEF Modify, Seen, RowType
  <2>3. CASE Insert(m)
    BY <2>3 DEF Insert, Existing
  <2>4. CASE Begin(m) \/ Finish(m) \/ Abort(m)
    BY <2>4 DEF Begin, Finish, Abort
  <2> QED
    BY <1>5, <2>1, <2>2, <2>3, <2>4 DEF Mutate
<1> QED
  BY <1>1, <1>2, <1>3, <1>4, <1>5, <1>7 DEF Next

(* A removed step stays removed through retries, resumptions, recoveries   *)
(* and further mutations, unless a worker has it in its snapshot.          *)
THEOREM RemovalHolds == Spec => RemovedStaysRemoved
<1>1. TypeOK /\ [Next]_vars =>
        [\A s \in Steps :
           row[s].status = "skipped" /\ (\A t \in worker.todo \cup worker.now : t.id # s)
             => row'[s].status = "skipped"]_vars
  BY RemovedStep
<1> QED
  BY <1>1, MutationTyped, PTL DEF Spec, RemovedStaysRemoved

-----------------------------------------------------------------------------
(* Reported writes need an approval of their own                           *)

(* Only steps that have a row are known to anybody.                        *)
Known ==
  /\ DOMAIN plan \subseteq Existing /\ settled \subseteq Existing
  /\ modified \subseteq Existing
  /\ \A q \in requests \cup worker.grant : q.step \in Existing
  /\ \A t \in worker.todo \cup worker.now : t.id \in Existing
  /\ worker.settled \subseteq Existing
  /\ \A m \in Mutations : mutation[m].inserted \subseteq Existing /\ Seen(m) \subseteq Existing

(* Unless it was modified, a step does what it did in the plan, in every   *)
(* snapshot and in every request that shows it.                            *)
Unchanged ==
  /\ \A s \in DOMAIN plan : s \in modified \/ row[s].action = plan[s]
  /\ \A t \in worker.todo \cup worker.now : t.id \in modified \/ t.action = row[t.id].action
  /\ \A q \in requests \cup worker.grant : q.step \in modified \/ q.action = row[q.step].action
  /\ \A t \in worker.now, q \in worker.grant : q.step = t.id

Harmless(s) == s \in modified \/ row[s].action \notin Writes

(* The first version of the plan has no reported write; a mutation that    *)
(* inserted one knows it; a worker that relies on the plan's approval took *)
(* the plan up in its first version.                                       *)
Versioned ==
  /\ version = 1 => \A s \in settled : Harmless(s)
  /\ \A m \in Mutations : mutation[m].writes = 0 => \A s \in mutation[m].inserted : Harmless(s)
  /\ worker.byPlan => \A s \in worker.settled : Harmless(s)

(* At the gate and behind it is a write; behind it with an approval.       *)
AtGate ==
  /\ worker.pc \in {"gate", "write"} => \A t \in worker.now : t.action \in Writes
  /\ worker.pc = "write" /\ ~worker.byPlan => worker.grant # {}

MutationInv == TypeOK /\ Known /\ Unchanged /\ Versioned /\ AtGate /\ ReportedWriteNeedsApproval

(* At first nothing is modified, settled or asked for.                     *)
LEMMA MutationInit == Init => MutationInv
<1> SUFFICES ASSUME Init PROVE MutationInv
  OBVIOUS
<1>1. TypeOK
  BY TypeInit
<1>2. plan \in Seq(Actions) /\ Len(plan) \in 1..MaxSteps
  BY MutationAssumption DEF Init
<1>3. DOMAIN plan \subseteq Steps /\ \A s \in DOMAIN plan : plan[s] \in Actions
  BY <1>2, MutationAssumption DEF Steps
<1>4. \A s \in DOMAIN plan : row[s].status = "pending" /\ row[s].action = plan[s]
  BY <1>3 DEF Init
<1>5. \A m \in Mutations : mutation[m].inserted = {} /\ Seen(m) = {}
  BY DEF Init, Ready, Seen
<1> QED
  BY <1>1, <1>3, <1>4, <1>5 DEF Init, MutationInv, Known, Unchanged, Versioned, AtGate,
     ReportedWriteNeedsApproval, Existing, Away

(* Rows do not go away, and change what they do only by being modified.    *)
LEMMA RowsStep ==
  ASSUME TypeOK, Known, [Next]_vars
  PROVE  /\ Existing \subseteq Existing' /\ modified \subseteq modified'
         /\ \A s \in Existing : s \in modified' \/ row'[s].action = row[s].action
         /\ \A s \in Existing : Harmless(s) => Harmless(s)'
         /\ plan' = plan
<1> USE DEF TypeOK
<1>0. /\ {"pending", "running", "blocked", "succeeded", "failed", "skipped"} \subseteq StepStatus
      /\ \A t \in worker.todo \cup worker.now : t.id \in Steps
  BY DEF WorkerType, StepStatus, Snapshot
<1>1. ASSUME /\ row' \in [Steps -> RowType]
             /\ \A u \in Steps : row'[u].action = row[u].action
             /\ \A u \in Steps : row[u].status # "absent" => row'[u].status # "absent"
             /\ modified' = modified
      PROVE  /\ Existing \subseteq Existing' /\ modified \subseteq modified'
             /\ \A s \in Existing : s \in modified' \/ row'[s].action = row[s].action
  BY <1>1 DEF Existing
<1>2. ASSUME NEW s \in Steps, NEW st \in StepStatus \ {"absent"}, SetStep(s, st),
             modified' = modified
      PROVE  /\ Existing \subseteq Existing' /\ modified \subseteq modified'
             /\ \A u \in Existing : u \in modified' \/ row'[u].action = row[u].action
  BY <1>1, <1>2, StepSet
<1>3. /\ Existing \subseteq Existing' /\ modified \subseteq modified'
      /\ \A s \in Existing : s \in modified' \/ row'[s].action = row[s].action
  <2>1. CASE Pick
    BY <1>0, <1>2, <2>1 DEF Pick, StepStatus
  <2>2. CASE Perform \/ Write
    BY <1>0, <1>2, <2>2 DEF Perform, Write, Outcome, StepStatus
  <2>3. CASE Gate
    BY <1>0, <1>2, <2>3 DEF Gate, StepStatus, Existing
  <2>4. CASE Retry
    <3>1. /\ row' \in [Steps -> RowType]
          /\ \A u \in Steps : row'[u].action = row[u].action
          /\ \A u \in Steps : row'[u].status = IF row[u].status = "failed" THEN "pending"
                                                                     ELSE row[u].status
      BY <2>4, RetryRows
    <3> QED
      BY <1>1, <2>4, <3>1 DEF Retry
  <2>5. CASE Grant
    <3>1. /\ row' \in [Steps -> RowType]
          /\ \A u \in Steps : row'[u].action = row[u].action
          /\ \A u \in Steps : row'[u].status = IF row[u].status = "blocked" THEN "pending"
                                                                     ELSE row[u].status
      BY <2>5, GrantRows
    <3> QED
      BY <1>1, <2>5, <3>1 DEF Grant
  <2>6. CASE Claim \/ Hydrate \/ StepsDone \/ Verify \/ Succeed \/ GiveUp \/ Yield
               \/ RecoverStaleClaims \/ UNCHANGED vars
    BY <2>6 DEF Claim, Hydrate, StepsDone, Verify, Succeed, GiveUp, Yield, RecoverStaleClaims,
       vars, Existing
  <2>7. ASSUME NEW m \in Mutations, Mutate(m)
        PROVE  /\ Existing \subseteq Existing' /\ modified \subseteq modified'
               /\ \A s \in Existing : s \in modified' \/ row'[s].action = row[s].action
    <3>1. CASE Remove(m) \/ Replace(m)
      BY <1>0, <1>2, <3>1 DEF Remove, Replace, Seen, StepStatus
    <3>2. CASE Modify(m)
      BY <3>2 DEF Modify, Seen, RowType, Existing
    <3>3. CASE Insert(m)
      BY <3>3 DEF Insert, Existing
    <3>4. CASE Begin(m) \/ Finish(m) \/ Abort(m)
      BY <3>4 DEF Begin, Finish, Abort, Existing
    <3> QED
      BY <2>7, <3>1, <3>2, <3>3, <3>4 DEF Mutate
  <2> QED
    BY <2>1, <2>2, <2>3, <2>4, <2>5, <2>6, <2>7 DEF Next
<1>4. plan' = plan
  BY DEF Next, Mutate, Claim, Hydrate, Pick, Perform, Gate, Write, StepsDone, Verify, Succeed,
     Retry, GiveUp, Yield, RecoverStaleClaims, Grant, Begin, Remove, Modify, Replace, Insert,
     Finish, Abort, WorkerSame, vars
<1> QED
  BY <1>3, <1>4 DEF Harmless

(* Who is known stays known; newcomers come from rows.                     *)
LEMMA WorkerStep ==
  ASSUME TypeOK, Known, Unchanged, Versioned, AtGate, [Next]_vars
  PROVE  /\ \A t \in worker'.todo \cup worker'.now :
              \/ t \in worker.todo \cup worker.now
              \/ t.id \in Existing /\ t.action = row[t.id].action
         /\ \A q \in worker'.grant : q \in requests \cup worker.grant
         /\ \A t \in worker'.now, q \in worker'.grant : q.step = t.id
         /\ worker'.settled \in {worker.settled, settled, {}}
         /\ worker'.byPlan => \/ worker.byPlan /\ worker'.settled = worker.settled
                              \/ version = 1 /\ worker'.settled = settled
         /\ AtGate'
<1> USE DEF TypeOK, AtGate
<1>1. CASE Claim
  BY <1>1, MutationAssumption DEF Claim, Away
<1>2. CASE Hydrate
  <2>1. worker' = [worker EXCEPT !.pc = "pick",
                     !.todo = {[id |-> s, action |-> row[s].action, order |-> row[s].order] :
                                 s \in InStatus("pending")}]
    BY <1>2 DEF Hydrate
  <2>2. InStatus("pending") \subseteq Existing
    BY DEF InStatus, Existing
  <2> QED
    BY <2>1, <2>2 DEF WorkerType, Unchanged
<1>3. CASE Pick
  BY <1>3 DEF Pick, WorkerType
<1>4. CASE Perform
  BY <1>4 DEF Perform, Outcome, WorkerType
<1>5. CASE Gate
  <2>1. CASE worker' = Away
    BY <2>1 DEF Away
  <2>2. CASE worker' = [worker EXCEPT !.pc = "write"]
    BY <1>5, <2>2 DEF Gate, WorkerType, Unchanged, Away
  <2> QED
    BY <1>5, <2>1, <2>2 DEF Gate
<1>6. CASE Write
  BY <1>6 DEF Write, Outcome, WorkerType
<1>7. CASE StepsDone \/ Verify \/ Succeed
  BY <1>7 DEF StepsDone, Verify, Succeed, WorkerType, Unchanged
<1>8. CASE Retry \/ GiveUp \/ Yield
  BY <1>8 DEF Retry, GiveUp, Yield, Away
<1>9. CASE UNCHANGED worker
  BY <1>9 DEF Unchanged
<1> QED
  BY <1>1, <1>2, <1>3, <1>4, <1>5, <1>6, <1>7, <1>8, <1>9
     DEF Next, Mutate, RecoverStaleClaims, Grant, Begin, Remove, Modify, Replace, Insert, Finish,
         Abort, WorkerSame, vars

(* What requests, mutations and reports become.                            *)
LEMMA OthersStep ==
  ASSUME TypeOK, Known, Unchanged, Versioned, [Next]_vars
  PROVE  /\ \A q \in requests' :
              \/ \E r \in requests : r.step = q.step /\ r.action = q.action
              \/ \E t \in worker.now : q.step = t.id /\ q.action = t.action
         /\ \A s \in settled' : s \in settled \/ \E m \in Mutations : s \in mutation[m].inserted
         /\ version' = 1 => /\ version = 1
                            /\ \A s \in settled' : s \in settled \/ \E m \in Mutations :
                                  s \in mutation[m].inserted /\ mutation[m].writes = 0
         /\ \A s \in modified' : s \in modified \/ \E m \in Mutations : s \in Seen(m)
<1> USE DEF TypeOK
<1>1. CASE Gate
  BY <1>1 DEF Gate
<1>2. CASE Grant
  BY <1>2 DEF Grant, Request
<1>3. ASSUME NEW m \in Mutations, Finish(m)
      PROVE  /\ \A s \in settled' : s \in settled \/ s \in mutation[m].inserted
             /\ version' = 1 => version = 1 /\ mutation[m].writes = 0
             /\ requests' = requests /\ modified' = modified
  <2>1. mutation[m].writes \in Nat
    BY DEF MutationType
  <2>2. /\ version' = IF mutation[m].writes > 0 THEN version + 1 ELSE version
        /\ settled' = settled \cup mutation[m].inserted
        /\ requests' = requests /\ modified' = modified
    BY <1>3 DEF Finish, WorkerSame
  <2>3. version' = 1 => version = 1 /\ mutation[m].writes = 0
    BY <2>1, <2>2
  <2> QED
    BY <2>2, <2>3
<1>4. ASSUME NEW m \in Mutations, Modify(m)
      PROVE  /\ \A s \in modified' : s \in modified \/ s \in Seen(m)
             /\ version' = version /\ settled' = settled /\ requests' = requests
  BY <1>4 DEF Modify, WorkerSame
<1>5. CASE UNCHANGED <<requests, settled, version, modified>>
  BY <1>5
<1> QED
  BY <1>1, <1>2, <1>3, <1>4, <1>5
     DEF Next, Mutate, Claim, Hydrate, Pick, Perform, Write, StepsDone, Verify, Succeed, Retry,
         GiveUp, Yield, RecoverStaleClaims, Begin, Remove, Replace, Insert, Abort, WorkerSame, vars

(* What a mutation has inserted has a row, and is counted if it writes.    *)
LEMMA InsertedStep ==
  ASSUME TypeOK, Known, Versioned, [Next]_vars, NEW m \in Mutations
  PROVE  /\ mutation'[m].inserted \subseteq Existing'
         /\ Seen(m)' \subseteq Existing'
         /\ mutation'[m].writes = 0 => \A s \in mutation'[m].inserted : Harmless(s)'
<1> USE DEF TypeOK
<1>0. /\ Existing \subseteq Existing'
      /\ \A s \in Existing : Harmless(s) => Harmless(s)'
  BY RowsStep
<1>1. CASE mutation'[m] = mutation[m]
  BY <1>0, <1>1 DEF Known, Versioned, Seen
<1>2. CASE mutation'[m].inserted = mutation[m].inserted /\ mutation'[m].writes = mutation[m].writes
           /\ mutation'[m].seen = mutation[m].seen
  BY <1>0, <1>2 DEF Known, Versioned, Seen
<1>3. CASE mutation'[m].inserted = {} /\ Seen(m)' \subseteq Existing
  BY <1>0, <1>3
<1>4. ASSUME NEW n \in Mutations, Mutate(n), mutation'[m] # mutation[m]
      PROVE  /\ mutation'[m].inserted \subseteq Existing'
             /\ Seen(m)' \subseteq Existing'
             /\ mutation'[m].writes = 0 => \A s \in mutation'[m].inserted : Harmless(s)'
  <2>1. n = m
    BY <1>4 DEF Mutate, Begin, Remove, Modify, Replace, Insert, Finish, Abort
  <2>2. mutation[m] \in MutationType
    OBVIOUS
  <2>3. CASE Begin(m)
    <3>1. mutation'[m].seen = [s \in Steps |-> row[s].status]
          /\ mutation'[m].inserted = mutation[m].inserted
          /\ mutation'[m].writes = mutation[m].writes
      <4>1. PICK last \in Existing :
              mutation' = [mutation EXCEPT ![m].pc = "apply",
                             ![m].seen = [s \in Steps |-> row[s].status],
                             ![m].last = row[last].order]
        BY <2>3 DEF Begin
      <4> QED
        BY <2>2, <4>1 DEF MutationType
    <3>2. Seen(m)' \subseteq Existing
      BY <3>1 DEF Seen, Existing
    <3> QED
      BY <1>0, <3>1, <3>2 DEF Known, Versioned
  <2>4. CASE Remove(m) \/ Modify(m) \/ Replace(m)
    BY <1>2, <2>2, <2>4 DEF Remove, Modify, Replace, MutationType
  <2>5. CASE Insert(m)
    <3>1. PICK s \in Steps \ Existing, a \in Actions :
            /\ row' = [row EXCEPT ![s] = [status |-> "pending", action |-> a,
                 order |-> IF mutation[m].pc = "insert" THEN mutation[m].at
                                                        ELSE mutation[m].last + 1]]
            /\ mutation' = [mutation EXCEPT ![m].pc = "apply", ![m].made = @ + 1,
                 ![m].inserted = @ \cup {s}, ![m].writes = IF a \in Writes THEN @ + 1 ELSE @]
      BY <2>5 DEF Insert
    <3>2. /\ mutation'[m].inserted = mutation[m].inserted \cup {s}
          /\ mutation'[m].seen = mutation[m].seen
          /\ mutation'[m].writes = IF a \in Writes THEN mutation[m].writes + 1
                                                    ELSE mutation[m].writes
      BY <2>2, <3>1 DEF MutationType
    <3>3. row'[s].status = "pending" /\ row'[s].action = a
      BY <3>1
    <3>4. mutation'[m].writes = 0 => a \notin Writes /\ mutation[m].writes = 0
      BY <2>2, <3>2 DEF MutationType
    <3> QED
      BY <1>0, <3>2, <3>3, <3>4 DEF Known, Versioned, Existing, Seen, Harmless
  <2>6. CASE Finish(m) \/ Abort(m)
    <3>1. mutation'[m] = [Ready EXCEPT !.pc = "done"]
      BY <2>6 DEF Finish, Abort
    <3> QED
      BY <1>3, <3>1 DEF Ready, Seen
  <2> QED
    BY <1>4, <2>1, <2>3, <2>4, <2>5, <2>6 DEF Mutate
<1>5. CASE UNCHANGED mutation
  BY <1>1, <1>5
<1> QED
  BY <1>1, <1>4, <1>5
     DEF Next, Claim, Hydrate, Pick, Perform, Gate, Write, StepsDone, Verify, Succeed, Retry,
         GiveUp, Yield, RecoverStaleClaims, Grant, vars

(* A write is in order when it happens.                                    *)
LEMMA WritesStep ==
  ASSUME MutationInv, [Next]_vars
  PROVE  ReportedWriteNeedsApproval'
<1>1. CASE Write
  <2>1. PICK t \in worker.now :
          writes' = writes \cup {[shown |-> Shown(t), inPlace |-> t.id \in modified,
                                   settled |-> t.id \in worker.settled]}
    BY <1>1 DEF Write
  <2>2. worker.pc = "write" /\ t.action \in Writes
    BY <1>1 DEF Write, MutationInv, AtGate
  <2>3. t.id \in modified \/ t.action = row[t.id].action
    BY DEF MutationInv, Unchanged
  <2>4. ASSUME worker.byPlan PROVE t.id \in modified \/ t.id \notin worker.settled
    BY <2>2, <2>3, <2>4 DEF MutationInv, Versioned, Harmless
  <2>5. ASSUME ~worker.byPlan PROVE Shown(t) \/ t.id \in modified
    <3>1. PICK q \in worker.grant : q.step = t.id
      BY <2>2, <2>5 DEF MutationInv, AtGate, Unchanged
    <3>2. q.step \in modified \/ q.action = row[q.step].action
      BY DEF MutationInv, Unchanged
    <3> QED
      BY <2>3, <2>5, <3>1, <3>2 DEF Shown
  <2>6. Shown(t) \/ t.id \in modified \/ t.id \notin worker.settled
    BY <2>4, <2>5
  <2>7. ASSUME NEW w \in writes' PROVE w.shown \/ w.inPlace \/ ~w.settled
    <3>1. CASE w \in writes
      BY <3>1 DEF ReportedWriteNeedsApproval, MutationInv
    <3>2. CASE w = [shown |-> Shown(t), inPlace |-> t.id \in modified,
                    settled |-> t.id \in worker.settled]
      BY <2>6, <3>2, Zenon
    <3> QED
      BY <2>1, <2>7, <3>1, <3>2
  <2> QED
    BY <2>7 DEF ReportedWriteNeedsApproval
<1>2. CASE UNCHANGED writes
  BY <1>2 DEF ReportedWriteNeedsApproval, MutationInv
<1> QED
  BY <1>1, <1>2
     DEF Next, Mutate, Claim, Hydrate, Pick, Perform, Gate, StepsDone, Verify, Succeed, Retry,
         GiveUp, Yield, RecoverStaleClaims, Grant, Begin, Remove, Modify, Replace, Insert, Finish,
         Abort, WorkerSame, vars

(* Every step keeps the invariant.                                         *)
LEMMA MutationStep == MutationInv /\ [Next]_vars => MutationInv'
<1> SUFFICES ASSUME MutationInv, [Next]_vars PROVE MutationInv'
  OBVIOUS
<1> USE DEF MutationInv
<1>1. TypeOK'
  BY TypeStep
<1>2. /\ Existing \subseteq Existing' /\ modified \subseteq modified'
      /\ \A s \in Existing : s \in modified' \/ row'[s].action = row[s].action
      /\ \A s \in Existing : Harmless(s) => Harmless(s)'
      /\ plan' = plan
  BY RowsStep
<1>3. Known'
  <2>1. modified' \subseteq Existing' /\ settled' \subseteq Existing'
        /\ \A q \in requests' : q.step \in Existing'
    BY <1>2, OthersStep DEF Known
  <2>2. /\ \A q \in worker'.grant : q.step \in Existing'
        /\ \A t \in worker'.todo \cup worker'.now : t.id \in Existing'
        /\ worker'.settled \subseteq Existing'
    BY <1>2, WorkerStep DEF Known
  <2> QED
    BY <1>2, <2>1, <2>2, InsertedStep DEF Known
<1>4. Unchanged'
  <2>1. \A s \in DOMAIN plan' : s \in modified' \/ row'[s].action = plan'[s]
    BY <1>2 DEF Known, Unchanged
  <2>2. ASSUME NEW t \in worker'.todo \cup worker'.now
        PROVE  t.id \in modified' \/ t.action = row'[t.id].action
    BY <1>2, WorkerStep DEF Known, Unchanged
  <2>3. ASSUME NEW q \in requests'
        PROVE  q.step \in modified' \/ q.action = row'[q.step].action
    BY <1>2, OthersStep DEF Known, Unchanged
  <2>4. ASSUME NEW q \in worker'.grant
        PROVE  q.step \in modified' \/ q.action = row'[q.step].action
    BY <1>2, WorkerStep DEF Known, Unchanged
  <2> QED
    BY <2>1, <2>2, <2>3, <2>4, WorkerStep DEF Unchanged
<1>5. Versioned'
  <2>1. version' = 1 => \A s \in settled' : Harmless(s)'
    BY <1>2, OthersStep DEF Known, Versioned
  <2>2. worker'.byPlan => \A s \in worker'.settled : Harmless(s)'
    BY <1>2, WorkerStep DEF Known, Versioned
  <2> QED
    BY <2>1, <2>2, InsertedStep DEF Versioned
<1> QED
  BY <1>1, <1>3, <1>4, <1>5, WorkerStep, WritesStep

(* planMutation.ts: "new external_write step(s) require fresh approval".   *)
(* True of every inserted write that was reported, for any interleaving of *)
(* mutations, workers, crashes and approvals; not of steps modified in     *)
(* place.                                                                  *)
THEOREM FreshApproval == Spec => []ReportedWriteNeedsApproval
<1>1. Init => MutationInv
  BY MutationInit
<1>2. MutationInv /\ [Next]_vars => MutationInv'
  BY MutationStep
<1>3. MutationInv => ReportedWriteNeedsApproval
  BY DEF MutationInv
<1> QED
  BY <1>1, <1>2, <1>3, PTL DEF Spec

-----------------------------------------------------------------------------
(* A run that succeeded forgot no step                                     *)

Done(s) == row[s].status \in {"succeeded", "skipped"}

(* From its verification on a worker holds the steps it verified; all of   *)
(* them are done, and it executes no step any more.                        *)
VerifiedDone ==
  /\ worker.checked # {} => worker.pc \in {"closing", "idle"}
  /\ \A s \in worker.checked : Done(s)

(* While the worker executes nothing, nobody undoes a finished row: a retry*)
(* resets failed steps, a click blocked ones, mutations only remove.       *)
LEMMA DoneStep ==
  ASSUME TypeOK, [Next]_vars, NEW s \in Steps, Done(s),
         worker.pc \in {"closing", "idle"}
  PROVE  Done(s)'
<1> USE DEF TypeOK, Done
<1>0. /\ {"pending", "running", "blocked", "succeeded", "failed", "skipped"} \subseteq StepStatus
      /\ row[s].status # "pending" /\ row[s].status # "absent"
  BY DEF StepStatus
<1>1. CASE Retry \/ Grant
  BY <1>1, RetryRows, GrantRows
<1>2. CASE Pick \/ Perform \/ Gate \/ Write
  BY <1>2 DEF Pick, Perform, Gate, Write
<1>3. CASE Claim \/ Hydrate \/ StepsDone \/ Verify \/ Succeed \/ GiveUp \/ Yield
             \/ RecoverStaleClaims \/ UNCHANGED vars
  BY <1>3 DEF Claim, Hydrate, StepsDone, Verify, Succeed, GiveUp, Yield, RecoverStaleClaims, vars
<1>4. ASSUME NEW m \in Mutations, Mutate(m) PROVE Done(s)'
  \* what a stale snapshot makes a mutation remove is done, too
  <2>1. CASE Remove(m) \/ Replace(m)
    BY <1>0, <2>1, StepSet DEF Remove, Replace, Seen
  <2>2. CASE Modify(m)
    BY <2>2 DEF Modify, Seen, RowType
  <2>3. CASE Insert(m)
    BY <1>0, <2>3 DEF Insert, Existing
  <2>4. CASE Begin(m) \/ Finish(m) \/ Abort(m)
    BY <2>4 DEF Begin, Finish, Abort
  <2> QED
    BY <1>4, <2>1, <2>2, <2>3, <2>4 DEF Mutate
<1> QED
  BY <1>1, <1>2, <1>3, <1>4 DEF Next

(* What becomes of the steps that were verified.                           *)
LEMMA CheckedStep ==
  ASSUME TypeOK, VerifiedDone, [Next]_vars
  PROVE  \/ worker'.checked = {}
         \/ worker'.checked = worker.checked /\ worker.pc \in {"closing", "idle"}
              /\ worker'.pc \in {"closing", "idle"}
         \/ worker'.checked = Existing /\ worker'.pc = "closing" /\ Satisfied /\ UNCHANGED row
<1> USE DEF TypeOK, VerifiedDone, WorkerType
<1>1. CASE Claim
  BY <1>1 DEF Claim, Away
<1>2. CASE Hydrate
  BY <1>2 DEF Hydrate
<1>3. CASE Pick
  BY <1>3 DEF Pick
<1>4. CASE Perform \/ Write
  BY <1>4 DEF Perform, Write, Outcome
<1>5. CASE Gate
  BY <1>5 DEF Gate, Away
<1>6. CASE StepsDone
  BY <1>6 DEF StepsDone
<1>7. CASE Verify
  BY <1>7 DEF Verify
<1>8. CASE Succeed
  BY <1>8 DEF Succeed
<1>9. CASE Retry \/ GiveUp \/ Yield
  BY <1>9 DEF Retry, GiveUp, Yield, Away
<1>10. CASE UNCHANGED worker
  BY <1>10
<1>11. CASE RecoverStaleClaims \/ Grant \/ (\E m \in Mutations : Mutate(m)) \/ UNCHANGED vars
  BY <1>10, <1>11 DEF RecoverStaleClaims, Grant, Mutate, Begin, Remove, Modify, Replace, Insert,
     Finish, Abort, WorkerSame, vars
<1> QED
  BY <1>1, <1>2, <1>3, <1>4, <1>5, <1>6, <1>7, <1>8, <1>9, <1>11 DEF Next

(* The inductive step.                                                     *)
LEMMA VerifiedStep ==
  ASSUME TypeOK, VerifiedDone, [Next]_vars
  PROVE  VerifiedDone'
<1>0. worker.checked \subseteq Steps
  BY DEF TypeOK, WorkerType
<1>1. CASE worker'.checked = {}
  BY <1>1 DEF VerifiedDone
<1>2. CASE /\ worker'.checked = worker.checked
           /\ worker.pc \in {"closing", "idle"} /\ worker'.pc \in {"closing", "idle"}
  BY <1>0, <1>2, DoneStep DEF VerifiedDone
<1>3. CASE worker'.checked = Existing /\ worker'.pc = "closing" /\ Satisfied /\ UNCHANGED row
  BY <1>3 DEF VerifiedDone, Satisfied, Done
<1> QED
  BY <1>1, <1>2, <1>3, CheckedStep

(* agent_runs 'succeeded' is true of every step that existed when the run  *)
(* was verified, however mutations come in between the verification and    *)
(* the status.                                                             *)
THEOREM NothingInsertedForgotten == Spec => []NoInsertedStepForgotten
<1>1. Init => VerifiedDone
  BY DEF Init, VerifiedDone, Away
<1>2. TypeOK /\ VerifiedDone /\ [Next]_vars => VerifiedDone'
  BY VerifiedStep
<1>3. VerifiedDone => NoInsertedStepForgotten
  BY DEF VerifiedDone, NoInsertedStepForgotten, Done
<1> QED
  BY <1>1, <1>2, <1>3, MutationTyped, PTL DEF Spec
=============================================================================
