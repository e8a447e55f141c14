-------------------------- MODULE Scheduler_proofs --------------------------
(***************************************************************************)
(* Proofs about Scheduler and its gate, Readiness, for any pollers,        *)
(* instances, migrations, triggers and failures: the schema is complete    *)
(* for all that pass the gate and no migration takes effect twice; each    *)
(* time a trigger falls due it is fired once at most; and a trigger is     *)
(* lost only by a failure of its own firing.                               *)
(***************************************************************************)
EXTENDS Scheduler, FiniteSetTheorems, SequenceTheorems, TLAPS

-----------------------------------------------------------------------------
(* The gate. A transaction has read only what is committed; so what it     *)
(* read and what it applied, together all versions, is all there is after  *)
(* its COMMIT.                                                             *)
GateInv ==
  /\ Gate!TypeOK /\ SchemaSound
  /\ \A i \in Instances : tx[i].read \subseteq applied

LEMMA GateInit == Gate!Init => GateInv
<1> SUFFICES ASSUME Gate!Init PROVE GateInv
  OBVIOUS
<1>1. Gate!TypeOK
  BY SchedulerAssumption DEF Gate!Init, Gate!TypeOK, Gate!NoTx, Gate!Versions
<1> QED
  BY <1>1 DEF Gate!Init, Gate!NoTx, GateInv, SchemaSound, Gate!SchemaSound,
     Gate!PassedIsMigrated, Gate!AppliedOnce

(* A caller that comes, looks at the stores, or leaves. *)
LEMMA CallerStep ==
  ASSUME GateInv, NEW c \in Pollers, Gate!Call(c) \/ Gate!CheckStores(c) \/ Gate!Leave(c)
  PROVE  GateInv'
<1> USE DEF GateInv, SchemaSound, Gate!SchemaSound, Gate!PassedIsMigrated, Gate!AppliedOnce
<1>1. InstanceOf[c] \in Instances
  BY SchedulerAssumption
<1>2. CASE Gate!Call(c)
  <2>1. Gate!TypeOK' /\ applied' = applied
    <3>1. /\ applied' = applied
          /\ gate' \in [Pollers -> {"out", "waiting", "checking", "passed", "refused"}]
      BY <1>1, <1>2 DEF Gate!Call, Gate!TypeOK
    <3>2. state' \in [Instances -> {"uninitialized", "migrating", "ready", "failed"}]
      BY <1>1, <1>2 DEF Gate!Call, Gate!TypeOK
    <3>3. [Gate!NoTx EXCEPT !.pc = "begun"] \in [pc : {"none", "begun", "applying"},
             read : SUBSET Gate!Versions, done : SUBSET Gate!Versions]
      BY DEF Gate!NoTx
    <3>4. tx' = tx \/ tx' = [tx EXCEPT ![InstanceOf[c]] = [Gate!NoTx EXCEPT !.pc = "begun"]]
      BY <1>2 DEF Gate!Call
    <3> HIDE DEF GateInv, SchemaSound, Gate!SchemaSound, Gate!PassedIsMigrated, Gate!AppliedOnce
    <3>5. /\ applied \subseteq Gate!Versions
          /\ tx \in [Instances -> [pc : {"none", "begun", "applying"},
                                   read : SUBSET Gate!Versions, done : SUBSET Gate!Versions]]
      BY DEF GateInv, Gate!TypeOK
    <3>6. tx' \in [Instances -> [pc : {"none", "begun", "applying"},
                                 read : SUBSET Gate!Versions, done : SUBSET Gate!Versions]]
      BY <1>1, <3>3, <3>4, <3>5
    <3>7. applied' \subseteq Gate!Versions
      BY <3>1, <3>5
    <3> QED
      BY <3>1, <3>2, <3>6, <3>7, Zenon DEF Gate!TypeOK, Gate!Versions
  <2>2. ASSUME NEW i \in Instances
        PROVE  \/ tx'[i] = tx[i]
               \/ tx'[i].done = {} /\ tx'[i].read = {}
    BY <1>1, <1>2 DEF Gate!Call, Gate!TypeOK, Gate!NoTx
  <2>3. ASSUME NEW i \in Instances, state'[i] = "ready" PROVE state[i] = "ready"
    BY <1>1, <1>2, <2>3 DEF Gate!Call, Gate!TypeOK
  <2>4. ASSUME NEW d \in Pollers, gate'[d] \in {"checking", "passed"}
        PROVE  gate[d] \in {"checking", "passed"} \/ state[InstanceOf[c]] = "ready"
    BY <1>1, <1>2, <2>4 DEF Gate!Call, Gate!TypeOK
  <2>5. Gate!PassedIsMigrated'
    BY <1>1, <2>1, <2>3, <2>4
  <2>6. Gate!AppliedOnce'
    BY <2>1, <2>2
  <2> QED
    BY <2>1, <2>2, <2>5, <2>6
<1>3. CASE Gate!CheckStores(c)
  BY <1>3 DEF Gate!CheckStores, Gate!TypeOK
<1>4. CASE Gate!Leave(c)
  BY <1>4 DEF Gate!Leave, Gate!TypeOK
<1> QED
  BY <1>2, <1>3, <1>4

(* What the end of a transaction leaves: its versions are committed or     *)
(* nowhere, and the other transactions' are still their own.               *)
LEMMA TransactionEnds ==
  ASSUME GateInv, NEW i \in Instances, tx' = [tx EXCEPT ![i] = Gate!NoTx],
         applied' \in {applied, applied \cup tx[i].done}
  PROVE  /\ applied \subseteq applied' /\ applied' \subseteq Gate!Versions
         /\ tx' \in [Instances -> [pc : {"none", "begun", "applying"},
                                   read : SUBSET Gate!Versions, done : SUBSET Gate!Versions]]
         /\ Gate!AppliedOnce'
         /\ \A j \in Instances : tx'[j].read \subseteq applied'
<1> USE DEF GateInv, Gate!TypeOK
<1>1. applied \subseteq applied' /\ applied' \subseteq Gate!Versions
  OBVIOUS
<1>2. \A j \in Instances : tx'[j] = IF j = i THEN Gate!NoTx ELSE tx[j]
  OBVIOUS
<1>3. tx' \in [Instances -> [pc : {"none", "begun", "applying"},
                             read : SUBSET Gate!Versions, done : SUBSET Gate!Versions]]
  BY DEF Gate!NoTx
<1>4. Gate!AppliedOnce'
  BY <1>2 DEF SchemaSound, Gate!SchemaSound, Gate!AppliedOnce, Gate!NoTx
<1> QED
  BY <1>1, <1>2, <1>3, <1>4 DEF Gate!NoTx

(* An instance that migrates, fails to, or is restarted. *)
LEMMA InstanceStep ==
  ASSUME GateInv, NEW i \in Instances, Gate!Migrate(i) \/ Gate!Fail(i) \/ Gate!Restart(i)
  PROVE  GateInv'
<1> USE DEF GateInv, SchemaSound, Gate!SchemaSound
<1>1. CASE Gate!ReadVersions(i)
  <2>1. \A j \in Instances : tx'[j].done = tx[j].done
    BY <1>1 DEF Gate!ReadVersions, Gate!TypeOK
  <2>2. Gate!TypeOK' /\ \A j \in Instances : tx'[j].read \subseteq applied'
    BY <1>1 DEF Gate!ReadVersions, Gate!TypeOK
  <2> QED
    BY <1>1, <2>1, <2>2 DEF Gate!ReadVersions, Gate!PassedIsMigrated, Gate!AppliedOnce
<1>2. CASE Gate!Apply(i)
  <2>1. PICK v \in Gate!Versions :
          /\ \A j \in Instances : v \notin tx[j].done
          /\ v \notin applied
          /\ tx' = [tx EXCEPT ![i].done = @ \cup {v}]
    BY <1>2 DEF Gate!Apply
  <2>2. /\ \A j \in Instances : j # i => tx'[j] = tx[j]
        /\ tx'[i].done = tx[i].done \cup {v} /\ tx'[i].read = tx[i].read
    BY <2>1 DEF Gate!TypeOK
  <2>3. Gate!TypeOK'
    BY <1>2, <2>1 DEF Gate!Apply, Gate!TypeOK
  <2>4. Gate!AppliedOnce'
    BY <1>2, <2>1, <2>2 DEF Gate!Apply, Gate!AppliedOnce
  <2>5. \A j \in Instances : tx'[j].read \subseteq applied'
    BY <1>2, <2>2 DEF Gate!Apply
  <2> QED
    BY <1>2, <2>3, <2>4, <2>5 DEF Gate!Apply, Gate!PassedIsMigrated
<1>3. CASE Gate!Commit(i)
  <2>1. applied' = Gate!Versions
    BY <1>3 DEF Gate!Commit, Gate!Missing, Gate!TypeOK
  <2>2. Gate!TypeOK' /\ Gate!AppliedOnce' /\ \A j \in Instances : tx'[j].read \subseteq applied'
    BY <1>3, TransactionEnds DEF Gate!Commit, Gate!Tell, Gate!TypeOK
  <2> QED
    BY <2>1, <2>2 DEF Gate!PassedIsMigrated, Gate!Versions
<1>4. CASE Gate!Fail(i)
  <2>1. applied' \in {applied, applied \cup tx[i].done}
    BY <1>4 DEF Gate!Fail, Gate!Broken
  <2>2. Gate!TypeOK' /\ Gate!AppliedOnce' /\ \A j \in Instances : tx'[j].read \subseteq applied'
    BY <1>4, <2>1, TransactionEnds DEF Gate!Fail, Gate!Tell, Gate!TypeOK
  <2>3. applied \subseteq applied' /\ applied' \subseteq Gate!Versions
    BY <1>4, <2>1, TransactionEnds DEF Gate!Fail
  <2>4. /\ \A j \in Instances : state'[j] = "ready" => state[j] = "ready"
        /\ \A c \in Pollers : gate'[c] \in {"checking", "passed"} => gate'[c] = gate[c]
    BY <1>4 DEF Gate!Fail, Gate!Tell, Gate!TypeOK
  <2> QED
    BY <2>2, <2>3, <2>4 DEF Gate!PassedIsMigrated, Gate!Versions
<1>5. CASE Gate!Restart(i)
  <2>1. applied' \in {applied, applied \cup tx[i].done}
    BY <1>5 DEF Gate!Restart, Gate!Broken
  <2>2. Gate!TypeOK' /\ Gate!AppliedOnce' /\ \A j \in Instances : tx'[j].read \subseteq applied'
    BY <1>5, <2>1, TransactionEnds DEF Gate!Restart, Gate!TypeOK
  <2>3. applied \subseteq applied' /\ applied' \subseteq Gate!Versions
    BY <1>5, <2>1, TransactionEnds DEF Gate!Restart
  <2>4. /\ \A j \in Instances : state'[j] = "ready" => state[j] = "ready"
        /\ \A c \in Pollers : gate'[c] \in {"checking", "passed"} => gate'[c] = gate[c]
    BY <1>5 DEF Gate!Restart, Gate!TypeOK
  <2> QED
    BY <2>2, <2>3, <2>4 DEF Gate!PassedIsMigrated, Gate!Versions
<1> QED
  BY <1>1, <1>2, <1>3, <1>4, <1>5 DEF Gate!Migrate

(* The pollers use the gate by its rules.                                  *)
LEMMA GateUsed == [Next]_vars => [Gate!Next]_readiness
<1> SUFFICES ASSUME [Next]_vars PROVE [Gate!Next]_readiness
  OBVIOUS
<1>1. ASSUME NEW p \in Pollers, Request(p) \/ Poll(p) \/ ClaimUnheard(p)
      PROVE  [Gate!Next]_readiness
  BY <1>1 DEF Request, Poll, Check, Enter, ClaimDue, CreateRun, Reinsert, StartGoal, SendRequest,
     FiringFails, EndPoll, ClaimUnheard, Gate!Next
<1>2. ASSUME NEW i \in Instances, Migrating(i) \/ MigrationFails(i) \/ Kill(i)
      PROVE  [Gate!Next]_readiness
  BY <1>2 DEF Migrating, MigrationFails, Kill, Gate!Next
<1>3. ASSUME NEW t, CreateGoal(t) \/ CreateTrigger(t) \/ Promise(t) \/ TaskFails(t) \/ FallsDue(t)
      PROVE  [Gate!Next]_readiness
  BY <1>3 DEF CreateGoal, CreateTrigger, Promise, TaskFails, FallsDue, pollers
<1> QED
  BY <1>1, <1>2, <1>3 DEF Next, vars

LEMMA GateKept == GateInv /\ [Gate!Next]_readiness => GateInv'
<1> SUFFICES ASSUME GateInv, [Gate!Next]_readiness PROVE GateInv'
  OBVIOUS
<1>1. CASE UNCHANGED readiness
  BY <1>1 DEF readiness, GateInv, SchemaSound, Gate!TypeOK, Gate!SchemaSound,
     Gate!PassedIsMigrated, Gate!AppliedOnce
<1> QED
  BY <1>1, CallerStep, InstanceStep DEF Gate!Next

LEMMA GateInvariant == Spec => []GateInv
<1>1. Init => GateInv
  BY GateInit DEF Init
<1> QED
  BY <1>1, GateUsed, GateKept, PTL DEF Spec

(* Cold starts that migrate at the same time do not spoil the schema,      *)
(* whatever fails, is killed or breaks under a COMMIT: it is complete for  *)
(* all who pass the gate, and no migration takes effect twice.             *)
(* readiness.ts:18-65, migrations.ts:66-106.                               *)
THEOREM SchemaStaysSound == Spec => []SchemaSound
<1>1. GateInv => SchemaSound
  BY DEF GateInv
<1> QED
  BY <1>1, GateInvariant, PTL

-----------------------------------------------------------------------------
(* The pollers use the gate by its rules: on the way of a poll they call,  *)
(* pass and leave it, and migrations run, fail and are killed, as Readiness*)
(* says, so that what holds of it alone holds of it here. maintenance.ts   *)
(* and scheduler.ts behind ensureSchemaReady, readiness.ts.                *)
THEOREM ImplementsGate == Spec => Gate!Spec
<1>1. Init => Gate!Init
  BY DEF Init
<1>2. [Next]_vars => [Gate!Next]_(Gate!vars)
  BY GateUsed DEF readiness, Gate!vars
<1> QED
  BY <1>1, <1>2, PTL DEF Spec, Gate!Spec

-----------------------------------------------------------------------------
(* Sequences of different triggers: rows in the order they are due, and    *)
(* what a poller has in hand.                                              *)
Listed(s) == {s[k] : k \in DOMAIN s}
Distinct(s) == \A j, k \in DOMAIN s : s[j] = s[k] => j = k

LEMMA Emptied == Listed(<<>>) = {} /\ Distinct(<<>>)
BY DEF Listed, Distinct

LEMMA First ==
  ASSUME NEW S, NEW s \in Seq(S), s # <<>>
  PROVE  /\ Head(s) \in Listed(s) /\ Head(s) \in S /\ Tail(s) \in Seq(S)
         /\ Listed(s) = {Head(s)} \cup Listed(Tail(s))
         /\ Distinct(s) => Distinct(Tail(s)) /\ Head(s) \notin Listed(Tail(s))
<1>1. /\ Len(s) \in Nat \ {0} /\ DOMAIN s = 1..Len(s) /\ Head(s) = s[1] /\ Head(s) \in S
      /\ Tail(s) \in Seq(S) /\ Len(Tail(s)) = Len(s) - 1
      /\ \A k \in 1..(Len(s) - 1) : Tail(s)[k] = s[k + 1]
  BY HeadTailProperties
<1>2. DOMAIN Tail(s) = 1..(Len(s) - 1)
  BY <1>1
<1>3. ASSUME NEW k \in DOMAIN s PROVE k = 1 \/ (k - 1 \in DOMAIN Tail(s) /\ Tail(s)[k - 1] = s[k])
  BY <1>1, <1>2
<1>4. Listed(s) = {Head(s)} \cup Listed(Tail(s)) /\ Head(s) \in Listed(s)
  BY <1>1, <1>2, <1>3 DEF Listed
<1>5. Distinct(s) => Distinct(Tail(s)) /\ Head(s) \notin Listed(Tail(s))
  BY <1>1, <1>2 DEF Distinct, Listed
<1> QED
  BY <1>1, <1>4, <1>5

LEMMA Joined ==
  ASSUME NEW S, NEW s \in Seq(S), NEW t \in S
  PROVE  /\ Append(s, t) \in Seq(S) /\ Listed(Append(s, t)) = Listed(s) \cup {t}
         /\ Distinct(s) /\ t \notin Listed(s) => Distinct(Append(s, t))
<1> DEFINE r == Append(s, t)
<1>1. /\ r \in Seq(S) /\ Len(r) = Len(s) + 1 /\ r[Len(s) + 1] = t
      /\ \A k \in 1..Len(s) : r[k] = s[k]
  BY AppendProperties
<1> HIDE DEF r
<1>2. Len(s) \in Nat /\ DOMAIN s = 1..Len(s) /\ DOMAIN r = 1..(Len(s) + 1)
  BY <1>1
<1>3. Listed(r) \subseteq Listed(s) \cup {t}
  BY <1>1, <1>2 DEF Listed
<1>4. Listed(s) \subseteq Listed(r) /\ t \in Listed(r)
  BY <1>1, <1>2 DEF Listed
<1>5. Distinct(s) /\ t \notin Listed(s) => Distinct(r)
  BY <1>1, <1>2 DEF Listed, Distinct
<1> QED
  BY <1>1, <1>3, <1>4, <1>5 DEF r

(* The oldest n rows and the others. *)
LEMMA Divided ==
  ASSUME NEW S, NEW s \in Seq(S), NEW n \in 0..Len(s)
  PROVE  /\ SubSeq(s, 1, n) \in Seq(S) /\ SubSeq(s, n + 1, Len(s)) \in Seq(S)
         /\ Listed(SubSeq(s, 1, n)) = {s[k] : k \in 1..n}
         /\ Listed(s) = Listed(SubSeq(s, 1, n)) \cup Listed(SubSeq(s, n + 1, Len(s)))
         /\ Distinct(s) => /\ Distinct(SubSeq(s, 1, n)) /\ Distinct(SubSeq(s, n + 1, Len(s)))
                           /\ Listed(SubSeq(s, 1, n)) \cap Listed(SubSeq(s, n + 1, Len(s))) = {}
<1> DEFINE a == SubSeq(s, 1, n)
           b == SubSeq(s, n + 1, Len(s))
<1>1. Len(s) \in Nat /\ DOMAIN s = 1..Len(s) /\ n \in Nat /\ n <= Len(s)
  OBVIOUS
<1>2. a \in Seq(S) /\ Len(a) = n /\ \A k \in 1..n : a[k] = s[k]
  BY <1>1, SubSeqProperties
<1>3. b \in Seq(S) /\ Len(b) = Len(s) - n /\ \A k \in 1..(Len(s) - n) : b[k] = s[n + k]
  <2>1. n + 1 \in Int /\ Len(s) \in Int /\ \A i \in (n + 1)..Len(s) : s[i] \in S
    BY <1>1
  <2>2. /\ b \in Seq(S) /\ Len(b) = IF n + 1 <= Len(s) THEN Len(s) - (n + 1) + 1 ELSE 0
        /\ \A i \in 1..(Len(s) - (n + 1) + 1) : b[i] = s[(n + 1) + i - 1]
    BY <2>1, SubSeqProperties
  <2> HIDE DEF b
  <2>3. Len(b) = Len(s) - n
    <3> DEFINE l == Len(s)
    <3>1. l \in Nat /\ n \in Nat /\ n <= l /\ Len(b) = IF n + 1 <= l THEN l - (n + 1) + 1 ELSE 0
      BY <1>1, <2>2
    <3> HIDE DEF l
    <3>2. Len(b) = l - n
      BY <3>1
    <3> QED
      BY <3>2 DEF l
  <2>4. ASSUME NEW k \in 1..(Len(s) - n) PROVE b[k] = s[n + k]
    <3>1. k \in 1..(Len(s) - (n + 1) + 1) /\ (n + 1) + k - 1 = n + k
      BY <1>1
    <3> QED
      BY <2>2, <3>1
  <2> QED
    BY <2>2, <2>3, <2>4
<1> HIDE DEF a, b
<1>4. DOMAIN a = 1..n /\ DOMAIN b = 1..(Len(s) - n)
  BY <1>2, <1>3, <1>1
<1>5. Listed(a) = {s[k] : k \in 1..n}
  BY <1>2, <1>4 DEF Listed
<1>6. ASSUME NEW k \in DOMAIN s PROVE s[k] \in Listed(a) \/ s[k] \in Listed(b)
  <2>1. CASE k <= n
    BY <1>1, <1>2, <1>4, <2>1 DEF Listed
  <2>2. CASE k > n
    <3>1. k - n \in DOMAIN b /\ b[k - n] = s[k]
      BY <1>1, <1>3, <1>4, <2>2
    <3> QED
      BY <3>1 DEF Listed
  <2> QED
    BY <1>1, <2>1, <2>2
<1>7. Listed(a) \subseteq Listed(s) /\ Listed(b) \subseteq Listed(s)
  <2>1. ASSUME NEW k \in DOMAIN b PROVE n + k \in DOMAIN s /\ b[k] = s[n + k]
    BY <1>1, <1>3, <1>4
  <2>2. \A k \in DOMAIN a : k \in DOMAIN s /\ a[k] = s[k]
    BY <1>1, <1>2, <1>4
  <2> QED
    BY <2>1, <2>2 DEF Listed
<1>8. Listed(s) = Listed(a) \cup Listed(b)
  BY <1>6, <1>7 DEF Listed
<1>9. Distinct(s) => Distinct(a) /\ Distinct(b) /\ Listed(a) \cap Listed(b) = {}
  <2> SUFFICES ASSUME Distinct(s) PROVE Distinct(a) /\ Distinct(b) /\ Listed(a) \cap Listed(b) = {}
    OBVIOUS
  <2>1. Distinct(a)
    BY <1>1, <1>2, <1>4 DEF Distinct
  <2>2. ASSUME NEW k \in DOMAIN b PROVE n + k \in DOMAIN s /\ b[k] = s[n + k] /\ k \in Nat \ {0}
    BY <1>1, <1>3, <1>4
  <2>3. ASSUME NEW j \in DOMAIN b, NEW k \in DOMAIN b, b[j] = b[k] PROVE j = k
    <3>1. n + j = n + k
      BY <2>2, <2>3 DEF Distinct
    <3> QED
      BY <1>1, <2>2, <3>1
  <2>4. ASSUME NEW j \in DOMAIN a, NEW k \in DOMAIN b, a[j] = b[k] PROVE FALSE
    <3>1. j \in 1..n /\ j \in DOMAIN s /\ a[j] = s[j]
      BY <1>1, <1>2, <1>4
    <3>2. j = n + k
      BY <2>2, <2>4, <3>1 DEF Distinct
    <3> QED
      BY <1>1, <2>2, <3>1, <3>2
  <2> QED
    BY <2>1, <2>3, <2>4 DEF Distinct, Listed
<1> QED
  BY <1>2, <1>3, <1>5, <1>8, <1>9 DEF a, b

-----------------------------------------------------------------------------
(* The invariant.                                                          *)
Fired(p) == at[p] \in {"reinsert", "goal", "request"}

(* What a poller has in hand and has not put back, or not made a run for.  *)
Owed(p) == {t \in Listed(hand[p]) : at[p] \in {"goal", "request"} => t # Head(hand[p])}
Unfired(p) == {t \in Listed(hand[p]) : Fired(p) => t # Head(hand[p])}

(* Who is on the way to request a run of t; several may be, of a trigger   *)
(* that was put back and fell due again.                                   *)
Firing(t) == {p \in Pollers : Fired(p) /\ Head(hand[p]) = t}
Total(t) == runs[t].unasked + runs[t].asked

Hands ==
  \A p \in Pollers :
    /\ Distinct(hand[p])
    /\ at[p] \in {"idle", "claim"} => hand[p] = <<>>
    /\ Fired(p) => hand[p] # <<>>

(* A trigger is in one place: its row, or one hand.                        *)
OnePlace ==
  \A p \in Pollers :
    /\ \A t \in Owed(p) : t \notin Rows
    /\ \A q \in Pollers \ {p} : Owed(p) \cap Owed(q) = {}

(* A task has no trigger before its row is inserted.                       *)
Ahead ==
  \A t \in Deferred : handler[t] \in {"new", "goal"} =>
    t \notin Rows /\ \A p \in Pollers : t \notin Listed(hand[p])

(* A trigger that is due, or claimed and not fired, has a run to come.     *)
Budget ==
  \A t \in Triggers :
    t \in Listed(due) \/ (\E p \in Pollers : t \in Unfired(p)) => Total(t) < falls[t]

(* Each poller on the way to request a run has made it.                    *)
Asked ==
  \A t \in Triggers : IsFiniteSet(Firing(t)) /\ Cardinality(Firing(t)) <= runs[t].unasked

(* The hand a recurring trigger is in has still to put it back.            *)
Kept == \A t \in Recurring \ hit : t \in Rows \/ \E p \in Pollers : t \in Owed(p)

-----------------------------------------------------------------------------
(* What a step does to rows and hands.                                     *)
Places == {"idle", "claim", "run", "reinsert", "goal", "request"}

LEMMA RowFacts ==
  ASSUME TypeOK
  PROVE  /\ due \in Seq(Triggers) /\ waiting \subseteq Triggers
         /\ Rows = waiting \cup Listed(due) /\ Distinct(due) /\ Listed(due) \cap waiting = {}
         /\ Listed(due) \subseteq Triggers
<1>1. due \in Seq(Triggers) /\ waiting \subseteq Triggers
  BY DEF TypeOK
<1>2. Listed(due) \subseteq Triggers
  BY <1>1 DEF Listed
<1> QED
  BY <1>1, <1>2 DEF TypeOK, Rows, Listed, Distinct

LEMMA HandFacts ==
  ASSUME TypeOK, Hands, NEW p \in Pollers, hand[p] # <<>>
  PROVE  /\ Head(hand[p]) \in Triggers /\ Head(hand[p]) \in Listed(hand[p])
         /\ Tail(hand[p]) \in Seq(Triggers) /\ Distinct(Tail(hand[p]))
         /\ Listed(Tail(hand[p])) = Listed(hand[p]) \ {Head(hand[p])}
<1>1. hand[p] \in Seq(Triggers) /\ Distinct(hand[p])
  BY DEF TypeOK, Hands
<1>2. /\ Head(hand[p]) \in Listed(hand[p]) /\ Head(hand[p]) \in Triggers
      /\ Tail(hand[p]) \in Seq(Triggers)
      /\ Listed(hand[p]) = {Head(hand[p])} \cup Listed(Tail(hand[p]))
      /\ Distinct(Tail(hand[p])) /\ Head(hand[p]) \notin Listed(Tail(hand[p]))
  BY <1>1, First
<1> QED
  BY <1>2

(* A claim divides the due rows.                                           *)
Taken == SubSeq(due, 1, Least(Batch, Len(due)))
Left == SubSeq(due, Least(Batch, Len(due)) + 1, Len(due))

LEMMA ClaimFacts ==
  ASSUME TypeOK
  PROVE  /\ Taken \in Seq(Triggers) /\ Left \in Seq(Triggers)
         /\ Distinct(Taken) /\ Distinct(Left)
         /\ Listed(due) = Listed(Taken) \cup Listed(Left) /\ Listed(Taken) \cap Listed(Left) = {}
         /\ {due[k] : k \in 1..Least(Batch, Len(due))} = Listed(Taken)
<1> DEFINE n == Least(Batch, Len(due))
<1>1. due \in Seq(Triggers) /\ Distinct(due) /\ n \in 0..Len(due)
  BY RowFacts, SchedulerAssumption DEF Least
<1> HIDE DEF n
<1>2. /\ SubSeq(due, 1, n) \in Seq(Triggers) /\ SubSeq(due, n + 1, Len(due)) \in Seq(Triggers)
      /\ Listed(SubSeq(due, 1, n)) = {due[k] : k \in 1..n}
      /\ Listed(due) = Listed(SubSeq(due, 1, n)) \cup Listed(SubSeq(due, n + 1, Len(due)))
      /\ Distinct(SubSeq(due, 1, n)) /\ Distinct(SubSeq(due, n + 1, Len(due)))
      /\ Listed(SubSeq(due, 1, n)) \cap Listed(SubSeq(due, n + 1, Len(due))) = {}
  BY <1>1, Divided
<1> QED
  BY <1>2 DEF n, Taken, Left

LEMMA ClaimTaken ==
  /\ \A p : ClaimDue(p) => /\ at[p] = "claim" /\ at' = [at EXCEPT ![p] = "run"]
                           /\ hand' = [hand EXCEPT ![p] = Taken] /\ due' = Left
                           /\ UNCHANGED <<waiting, handler, goal, runs, falls, hit, failures>>
  /\ \A p : ClaimUnheard(p) => /\ hit' = hit \cup {due[k] : k \in 1..Least(Batch, Len(due))}
                               /\ Fails /\ due' = Left
                               /\ UNCHANGED <<waiting, handler, goal, runs, hand, at, falls>>
BY DEF ClaimDue, ClaimUnheard, Place, NoFailure, Hits, Taken, Left

(* The steps that leave all hands alone.                                   *)
HandsRest == UNCHANGED <<hand, at>>

LEMMA HandCases ==
  ASSUME [Next]_vars
  PROVE  \/ HandsRest
         \/ \E p \in Pollers : Enter(p) \/ EndPoll(p) \/ ClaimDue(p)
         \/ \E p \in Pollers : CreateRun(p) \/ Reinsert(p) \/ StartGoal(p)
         \/ \E p \in Pollers : SendRequest(p) \/ FiringFails(p)
         \/ \E i \in Instances : Kill(i)
<1>1. ASSUME NEW t, CreateGoal(t) \/ CreateTrigger(t) \/ Promise(t) \/ TaskFails(t) \/ FallsDue(t)
      PROVE  HandsRest
  BY <1>1 DEF CreateGoal, CreateTrigger, Promise, TaskFails, FallsDue, pollers, HandsRest
<1>2. ASSUME NEW p, Request(p) \/ Check(p) \/ ClaimUnheard(p) PROVE HandsRest
  BY <1>2 DEF Request, Check, ClaimUnheard, triggers, HandsRest
<1>3. ASSUME NEW i, Migrating(i) \/ MigrationFails(i) PROVE HandsRest
  BY <1>3 DEF Migrating, MigrationFails, triggers, HandsRest
<1> QED
  BY <1>1, <1>2, <1>3 DEF Next, Poll, vars, HandsRest

(* A firing ends: the next trigger.                                        *)
LEMMA EndsFiring ==
  ASSUME TypeOK, Hands, NEW p \in Pollers, SendRequest(p) \/ FiringFails(p)
  PROVE  /\ hand[p] # <<>> /\ hand' = [hand EXCEPT ![p] = Tail(hand[p])]
         /\ at' = [at EXCEPT ![p] = "run"]
<1>1. CASE SendRequest(p)
  BY <1>1 DEF SendRequest, Rest, Place, Hands, Fired
<1>2. CASE FiringFails(p)
  BY <1>2 DEF FiringFails, Rest, Place
<1> QED
  BY <1>1, <1>2

(* Or goes on.                                                             *)
LEMMA GoesOn ==
  ASSUME Hands, NEW p \in Pollers, CreateRun(p) \/ Reinsert(p) \/ StartGoal(p)
  PROVE  /\ hand' = hand /\ hand[p] # <<>>
         /\ \/ CreateRun(p) /\ at[p] = "run" /\ at' = [at EXCEPT ![p] = "reinsert"]
            \/ Reinsert(p) /\ at[p] = "reinsert" /\ at' = [at EXCEPT ![p] = "goal"]
            \/ StartGoal(p) /\ at[p] = "goal" /\ at' = [at EXCEPT ![p] = "request"]
BY DEF CreateRun, Reinsert, StartGoal, Place, Hands, Fired

(* A poll begins, or ends, with nothing in hand.                           *)
LEMMA EmptyHanded ==
  ASSUME TypeOK, Hands, NEW p \in Pollers, Enter(p) \/ EndPoll(p)
  PROVE  /\ hand[p] = <<>> /\ hand' = hand /\ at' \in [Pollers -> Places]
         /\ at[p] \in {"idle", "run"} /\ at'[p] \in {"idle", "claim"}
         /\ \A q \in Pollers \ {p} : at'[q] = at[q]
BY DEF Enter, EndPoll, Place, Hands, Places, TypeOK

LEMMA HandsStep ==
  ASSUME TypeOK, Hands, [Next]_vars
  PROVE  Hands'
<1> USE DEF Hands, Fired
<1>0. hand \in [Pollers -> Seq(Triggers)] /\ at \in [Pollers -> Places]
  BY DEF TypeOK, Places
<1>1. CASE HandsRest
  BY <1>1 DEF HandsRest
<1>2. ASSUME NEW p \in Pollers, Enter(p) \/ EndPoll(p) PROVE Hands'
  BY <1>2, EmptyHanded
<1>3. ASSUME NEW p \in Pollers, ClaimDue(p) PROVE Hands'
  BY <1>0, <1>3, ClaimTaken, ClaimFacts
<1>4. ASSUME NEW p \in Pollers, CreateRun(p) \/ Reinsert(p) \/ StartGoal(p) PROVE Hands'
  BY <1>0, <1>4, GoesOn
<1>5. ASSUME NEW p \in Pollers, SendRequest(p) \/ FiringFails(p) PROVE Hands'
  <2>1. /\ hand[p] # <<>> /\ hand' = [hand EXCEPT ![p] = Tail(hand[p])]
        /\ at' = [at EXCEPT ![p] = "run"]
    BY <1>5, EndsFiring
  <2>2. Distinct(Tail(hand[p]))
    BY <2>1, HandFacts
  <2> QED
    BY <1>0, <2>1, <2>2
<1>6. ASSUME NEW i \in Instances, Kill(i) PROVE Hands'
  BY <1>0, <1>6, Emptied DEF Kill
<1> QED
  BY <1>1, <1>2, <1>3, <1>4, <1>5, <1>6, HandCases

(* What is in hand, owed or unfired comes from a claim.                    *)
LEMMA InHandBefore ==
  ASSUME TypeOK, Hands, [Next]_vars, NEW q \in Pollers, ~ClaimDue(q)
  PROVE  /\ Listed(hand'[q]) \subseteq Listed(hand[q])
         /\ Owed(q)' \subseteq Owed(q) /\ Unfired(q)' \subseteq Unfired(q)
<1> USE DEF Owed, Unfired, Fired
<1>0. hand \in [Pollers -> Seq(Triggers)] /\ at \in [Pollers -> Places]
  BY DEF TypeOK, Places
<1>s. ASSUME hand'[q] = hand[q], at'[q] = at[q]
      PROVE  /\ Listed(hand'[q]) \subseteq Listed(hand[q])
             /\ Owed(q)' \subseteq Owed(q) /\ Unfired(q)' \subseteq Unfired(q)
  BY <1>s
<1>1. CASE HandsRest
  BY <1>1, <1>s DEF HandsRest
<1>2. ASSUME NEW p \in Pollers, Enter(p) \/ EndPoll(p)
      PROVE  /\ Listed(hand'[q]) \subseteq Listed(hand[q])
             /\ Owed(q)' \subseteq Owed(q) /\ Unfired(q)' \subseteq Unfired(q)
  BY <1>2, <1>s, EmptyHanded, Emptied
<1>3. ASSUME NEW p \in Pollers, ClaimDue(p)
      PROVE  /\ Listed(hand'[q]) \subseteq Listed(hand[q])
             /\ Owed(q)' \subseteq Owed(q) /\ Unfired(q)' \subseteq Unfired(q)
  BY <1>0, <1>3, <1>s, ClaimTaken
<1>4. ASSUME NEW p \in Pollers, CreateRun(p) \/ Reinsert(p) \/ StartGoal(p)
      PROVE  /\ Listed(hand'[q]) \subseteq Listed(hand[q])
             /\ Owed(q)' \subseteq Owed(q) /\ Unfired(q)' \subseteq Unfired(q)
  BY <1>0, <1>4, <1>s, GoesOn
<1>5. ASSUME NEW p \in Pollers, SendRequest(p) \/ FiringFails(p)
      PROVE  /\ Listed(hand'[q]) \subseteq Listed(hand[q])
             /\ Owed(q)' \subseteq Owed(q) /\ Unfired(q)' \subseteq Unfired(q)
  <2>1. /\ hand[p] # <<>> /\ hand' = [hand EXCEPT ![p] = Tail(hand[p])]
        /\ at' = [at EXCEPT ![p] = "run"]
    BY <1>5, EndsFiring
  <2>2. Listed(Tail(hand[p])) = Listed(hand[p]) \ {Head(hand[p])}
    BY <2>1, HandFacts
  <2>3. CASE q = p
    BY <1>0, <2>1, <2>2, <2>3
  <2>4. CASE q # p
    BY <1>0, <1>s, <2>1, <2>4
  <2> QED
    BY <2>3, <2>4
<1>6. ASSUME NEW i \in Instances, Kill(i)
      PROVE  /\ Listed(hand'[q]) \subseteq Listed(hand[q])
             /\ Owed(q)' \subseteq Owed(q) /\ Unfired(q)' \subseteq Unfired(q)
  BY <1>0, <1>6, <1>s, Emptied DEF Kill
<1> QED
  BY <1>1, <1>2, <1>3, <1>4, <1>5, <1>6, HandCases

-----------------------------------------------------------------------------
(* The steps that change rows.                                             *)
LEMMA RowCases ==
  ASSUME [Next]_vars
  PROVE  \/ UNCHANGED <<waiting, due>>
         \/ \E t \in Deferred : CreateTrigger(t) \/ TaskFails(t)
         \/ \E t \in Triggers : FallsDue(t)
         \/ \E p \in Pollers : ClaimDue(p) \/ ClaimUnheard(p)
         \/ \E p \in Pollers : Reinsert(p) \/ FiringFails(p)
<1>1. ASSUME NEW t, CreateGoal(t) \/ Promise(t) PROVE UNCHANGED <<waiting, due>>
  BY <1>1 DEF CreateGoal, Promise
<1>2. ASSUME NEW p, Request(p) \/ Check(p) \/ Enter(p) \/ CreateRun(p) \/ StartGoal(p)
                      \/ SendRequest(p) \/ EndPoll(p)
      PROVE  UNCHANGED <<waiting, due>>
  BY <1>2 DEF Request, Check, Enter, CreateRun, StartGoal, SendRequest, EndPoll, triggers
<1>3. ASSUME NEW i, Migrating(i) \/ MigrationFails(i) \/ Kill(i) PROVE UNCHANGED <<waiting, due>>
  BY <1>3 DEF Migrating, MigrationFails, Kill, triggers
<1> QED
  BY <1>1, <1>2, <1>3 DEF Next, Poll, vars

LEMMA RowsAre ==
  Rows = waiting \cup Listed(due) /\ Rows' = waiting' \cup Listed(due')
BY DEF Rows, Listed

(* How a row is inserted: by a task, or by a poller that owes it.          *)
Inserted(t) ==
  t \in Deferred /\ handler[t] = "goal" /\ handler'[t] \in {"trigger", "error"} /\ HandsRest
PutBack(t, p) ==
  t \in Recurring /\ at[p] = "reinsert" /\ t = Head(hand[p]) /\ t \notin Owed(p)'

LEMMA RowsBefore ==
  ASSUME TypeOK, Hands, [Next]_vars, NEW t \in Rows'
  PROVE  t \in Rows \/ Inserted(t) \/ \E p \in Pollers : PutBack(t, p)
<1>1. CASE UNCHANGED <<waiting, due>>
  BY <1>1, RowsAre
<1>2. ASSUME NEW u \in Deferred, CreateTrigger(u) \/ TaskFails(u)
      PROVE  t \in Rows \/ Inserted(t)
  <2>1. due' = due /\ (waiting' = waiting \/ (waiting' = waiting \cup {u} /\ handler[u] = "goal"))
    BY <1>2 DEF CreateTrigger, TaskFails
  <2>2. handler[u] = "goal" => handler'[u] \in {"trigger", "error"} /\ HandsRest
    BY <1>2 DEF CreateTrigger, TaskFails, Reach, pollers, HandsRest, TypeOK
  <2> QED
    BY <2>1, <2>2, RowsAre DEF Inserted
<1>3. ASSUME NEW u \in Triggers, FallsDue(u) PROVE t \in Rows
  <2>1. /\ u \in waiting /\ waiting' = waiting \ {u} /\ Listed(due') = Listed(due) \cup {u}
    BY <1>3, RowFacts, Joined DEF FallsDue
  <2> QED
    BY <2>1, RowsAre
<1>4. ASSUME NEW p \in Pollers, ClaimDue(p) \/ ClaimUnheard(p) PROVE t \in Rows
  <2>1. waiting' = waiting /\ due' = Left
    BY <1>4, ClaimTaken
  <2> QED
    BY <2>1, ClaimFacts, RowsAre
<1>5. ASSUME NEW p \in Pollers, Reinsert(p) \/ FiringFails(p), t \notin Rows PROVE PutBack(t, p)
  <2>1. due' = due
    BY <1>5 DEF Reinsert, FiringFails
  <2>2. t \in waiting' /\ t \notin waiting
    BY <1>5, <2>1, RowsAre
  <2>3. t \in Recurring /\ at[p] = "reinsert" /\ t = Head(hand[p])
    BY <1>5, <2>2 DEF Reinsert, FiringFails
  <2>4. CASE Reinsert(p)
    <3>1. at'[p] = "goal" /\ hand'[p] = hand[p]
      BY <2>4 DEF Reinsert, Place, TypeOK
    <3> QED
      BY <2>3, <3>1 DEF Owed, PutBack
  <2>5. CASE FiringFails(p)
    <3>1. hand[p] # <<>> /\ hand'[p] = Tail(hand[p])
      BY <2>5, EndsFiring DEF TypeOK
    <3>2. Listed(Tail(hand[p])) = Listed(hand[p]) \ {Head(hand[p])}
      BY <3>1, HandFacts
    <3> QED
      BY <2>3, <3>1, <3>2 DEF Owed, PutBack
  <2> QED
    BY <1>5, <2>4, <2>5
<1> QED
  BY <1>1, <1>2, <1>3, <1>4, <1>5, RowCases

LEMMA OnePlaceStep ==
  ASSUME TypeOK, Hands, OnePlace, Ahead, [Next]_vars
  PROVE  OnePlace'
<1>0. \A q \in Pollers : Owed(q) \subseteq Listed(hand[q])
  BY DEF Owed
(* Nobody claims: what is owed was owed before. *)
<1>1. CASE \A q \in Pollers : ~ClaimDue(q)
  <2>1. \A q \in Pollers : Owed(q)' \subseteq Owed(q)
    BY <1>1, InHandBefore
  <2>2. ASSUME NEW q \in Pollers, NEW t \in Owed(q)', t \in Rows' PROVE FALSE
    <3>1. t \in Owed(q) /\ t \notin Rows
      BY <2>1 DEF OnePlace
    <3>2. ~Inserted(t)
      BY <1>0, <3>1 DEF Inserted, Ahead
    <3>3. PICK p \in Pollers : PutBack(t, p)
      BY <2>2, <3>1, <3>2, RowsBefore
    <3>4. hand[p] # <<>> /\ t \in Owed(p)
      BY <3>3, HandFacts DEF PutBack, Owed, Hands, Fired
    <3>5. p = q
      BY <3>1, <3>4 DEF OnePlace
    <3> QED
      BY <2>2, <3>3, <3>5 DEF PutBack
  <2>3. \A p \in Pollers : \A q \in Pollers \ {p} : Owed(p)' \cap Owed(q)' = {}
    BY <2>1 DEF OnePlace
  <2> QED
    BY <2>2, <2>3 DEF OnePlace
(* A claim takes what was in rows, and in no hand. *)
<1>2. ASSUME NEW p \in Pollers, ClaimDue(p) PROVE OnePlace'
  <2>1. /\ hand' = [hand EXCEPT ![p] = Taken] /\ at' = [at EXCEPT ![p] = "run"]
        /\ due' = Left /\ waiting' = waiting
    BY <1>2, ClaimTaken
  <2>2. Owed(p)' = Listed(Taken)
    BY <2>1 DEF Owed, TypeOK
  <2>3. ASSUME NEW q \in Pollers \ {p} PROVE Owed(q)' = Owed(q)
    BY <2>1 DEF Owed, TypeOK
  <2>4. Rows' = waiting \cup Listed(Left) /\ Rows = waiting \cup Listed(due)
    BY <2>1, RowsAre
  <2>5. /\ Listed(Taken) \subseteq Rows /\ Rows' \subseteq Rows
        /\ Listed(Taken) \cap Rows' = {}
    BY <2>4, ClaimFacts, RowFacts
  <2>6. \A q \in Pollers \ {p} : Owed(q)' \cap Rows = {}
    BY <2>3 DEF OnePlace
  <2>7. ASSUME NEW q \in Pollers, NEW r \in Pollers \ {q} PROVE Owed(q)' \cap Owed(r)' = {}
    <3>1. CASE q = p \/ r = p
      BY <2>2, <2>5, <2>6, <3>1
    <3>2. CASE q # p /\ r # p
      BY <2>3, <3>2 DEF OnePlace
    <3> QED
      BY <3>1, <3>2
  <2>8. ASSUME NEW q \in Pollers, NEW t \in Owed(q)' PROVE t \notin Rows'
    BY <2>2, <2>5, <2>6
  <2> QED
    BY <2>7, <2>8 DEF OnePlace
<1> QED
  BY <1>1, <1>2

LEMMA AheadStep ==
  ASSUME TypeOK, Hands, Ahead, [Next]_vars
  PROVE  Ahead'
<1> SUFFICES ASSUME NEW t \in Deferred, handler'[t] \in {"new", "goal"}
             PROVE  t \notin Rows' /\ \A p \in Pollers : t \notin Listed(hand'[p])
  BY DEF Ahead
<1>1. handler[t] \in {"new", "goal"}
  <2>1. ASSUME NEW u \in Deferred, CreateGoal(u) \/ CreateTrigger(u) \/ Promise(u) \/ TaskFails(u)
        PROVE  handler[t] \in {"new", "goal"}
    BY <2>1 DEF CreateGoal, CreateTrigger, Promise, TaskFails, Reach, TypeOK
  <2>2. ASSUME handler' = handler PROVE handler[t] \in {"new", "goal"}
    BY <2>2
  <2>3. ASSUME NEW u, FallsDue(u) PROVE handler' = handler
    BY <2>3 DEF FallsDue
  <2>4. ASSUME NEW p, Request(p) \/ Poll(p) \/ ClaimUnheard(p) PROVE handler' = handler
    BY <2>4 DEF Request, Poll, Check, Enter, ClaimDue, CreateRun, Reinsert, StartGoal, SendRequest,
       FiringFails, EndPoll, ClaimUnheard, triggers
  <2>5. ASSUME NEW i, Migrating(i) \/ MigrationFails(i) \/ Kill(i) PROVE handler' = handler
    BY <2>5 DEF Migrating, MigrationFails, Kill, triggers
  <2> QED
    BY <2>1, <2>2, <2>3, <2>4, <2>5 DEF Next, vars
<1>2. t \notin Rows /\ \A p \in Pollers : t \notin Listed(hand[p])
  BY <1>1 DEF Ahead
<1>3. t \notin Rows'
  <2>1. ~Inserted(t)
    BY DEF Inserted
  <2>2. \A p \in Pollers : ~PutBack(t, p)
    BY SchedulerAssumption DEF PutBack
  <2> QED
    BY <1>2, <2>1, <2>2, RowsBefore
<1>4. ASSUME NEW p \in Pollers PROVE t \notin Listed(hand'[p])
  <2>1. CASE ClaimDue(p)
    <3>1. hand'[p] = Taken
      BY <2>1, ClaimTaken DEF TypeOK
    <3> QED
      BY <1>2, <3>1, ClaimFacts, RowFacts
  <2>2. CASE ~ClaimDue(p)
    BY <1>2, <2>2, InHandBefore
  <2> QED
    BY <2>1, <2>2
<1> QED
  BY <1>3, <1>4

-----------------------------------------------------------------------------
(* The steps that make or request runs, and those by which triggers fall   *)
(* due.                                                                    *)
LEMMA RunCases ==
  ASSUME [Next]_vars
  PROVE  \/ UNCHANGED <<runs, falls>>
         \/ \E t \in Triggers : FallsDue(t)
         \/ \E p \in Pollers : CreateRun(p) \/ SendRequest(p) \/ FiringFails(p)
<1>1. ASSUME NEW t, CreateGoal(t) \/ CreateTrigger(t) \/ Promise(t) \/ TaskFails(t)
      PROVE  UNCHANGED <<runs, falls>>
  BY <1>1 DEF CreateGoal, CreateTrigger, Promise, TaskFails
<1>2. ASSUME NEW p, Request(p) \/ Check(p) \/ Enter(p) \/ ClaimDue(p) \/ ClaimUnheard(p)
                      \/ Reinsert(p) \/ StartGoal(p) \/ EndPoll(p)
      PROVE  UNCHANGED <<runs, falls>>
  BY <1>2 DEF Request, Check, Enter, ClaimDue, ClaimUnheard, Reinsert, StartGoal, EndPoll, triggers
<1>3. ASSUME NEW i, Migrating(i) \/ MigrationFails(i) \/ Kill(i) PROVE UNCHANGED <<runs, falls>>
  BY <1>3 DEF Migrating, MigrationFails, Kill, triggers
<1> QED
  BY <1>1, <1>2, <1>3 DEF Next, Poll, vars

LEMMA DueBefore ==
  ASSUME TypeOK, [Next]_vars, NEW t \in Listed(due')
  PROVE  t \in Listed(due) \/ FallsDue(t)
<1>1. ASSUME NEW u \in Triggers, FallsDue(u) PROVE t \in Listed(due) \/ t = u
  BY <1>1, RowFacts, Joined DEF FallsDue
<1>2. ASSUME NEW p \in Pollers, ClaimDue(p) \/ ClaimUnheard(p) PROVE t \in Listed(due)
  BY <1>2, ClaimTaken, ClaimFacts
<1>3. CASE due' = due
  BY <1>3
<1>4. ASSUME NEW u, CreateTrigger(u) \/ TaskFails(u) PROVE due' = due
  BY <1>4 DEF CreateTrigger, TaskFails
<1>5. ASSUME NEW p, Reinsert(p) \/ FiringFails(p) PROVE due' = due
  BY <1>5 DEF Reinsert, FiringFails
<1> QED
  BY <1>1, <1>2, <1>3, <1>4, <1>5, RowCases

LEMMA Counts ==
  ASSUME TypeOK
  PROVE  /\ \A t \in Triggers : runs[t].unasked \in Nat /\ runs[t].asked \in Nat /\ falls[t] \in Nat
         /\ \A t \in Triggers : Total(t) \in Nat
BY DEF TypeOK, Total

Pending(t) == t \in Listed(due) \/ \E p \in Pollers : t \in Unfired(p)

LEMMA PendingBefore ==
  ASSUME TypeOK, Hands, [Next]_vars, NEW t, Pending(t)'
  PROVE  Pending(t) \/ FallsDue(t)
<1>1. CASE t \in Listed(due')
  BY <1>1, DueBefore DEF Pending
<1>2. ASSUME NEW p \in Pollers, t \in Unfired(p)' PROVE Pending(t)
  <2>1. CASE ClaimDue(p)
    <3>1. hand'[p] = Taken
      BY <2>1, ClaimTaken DEF TypeOK
    <3> QED
      BY <1>2, <3>1, ClaimFacts DEF Unfired, Pending
  <2>2. CASE ~ClaimDue(p)
    BY <1>2, <2>2, InHandBefore DEF Pending
  <2> QED
    BY <2>1, <2>2
<1> QED
  BY <1>1, <1>2 DEF Pending

(* What a poller is about to make a run for is in no other place.          *)
LEMMA FiresAlone ==
  ASSUME TypeOK, Hands, OnePlace, NEW p \in Pollers, at[p] = "run", hand[p] # <<>>
  PROVE  /\ Head(hand[p]) \in Unfired(p) /\ Head(hand[p]) \notin Listed(due)
         /\ \A q \in Pollers \ {p} : Head(hand[p]) \notin Unfired(q)
<1>1. Head(hand[p]) \in Unfired(p) /\ Head(hand[p]) \in Owed(p)
  BY HandFacts DEF Unfired, Owed, Fired
<1>2. \A q \in Pollers : Unfired(q) \subseteq Owed(q)
  BY DEF Unfired, Owed, Fired
<1> QED
  BY <1>1, <1>2, RowsAre DEF OnePlace

LEMMA BudgetStep ==
  ASSUME TypeOK, Hands, OnePlace, Budget, FiredOncePerDue, [Next]_vars
  PROVE  Budget' /\ FiredOncePerDue'
<1> SUFFICES ASSUME NEW t \in Triggers
             PROVE  /\ Total(t)' <= falls'[t]
                    /\ Pending(t)' => Total(t)' < falls'[t]
  BY DEF Budget, FiredOncePerDue, Pending, Total
<1>0. /\ Total(t) \in Nat /\ falls[t] \in Nat /\ Total(t) <= falls[t]
      /\ Pending(t) => Total(t) < falls[t]
      /\ \A u \in Triggers : runs[u].unasked \in Nat /\ runs[u].asked \in Nat
      /\ runs \in [Triggers -> [unasked : Nat, asked : Nat]]
  BY Counts DEF Budget, FiredOncePerDue, Pending, Total, TypeOK
<1>1. CASE FallsDue(t)
  <2>1. falls'[t] = falls[t] + 1 /\ Total(t)' = Total(t)
    BY <1>1 DEF FallsDue, Total, TypeOK
  <2> QED
    BY <1>0, <2>1
<1>2. CASE ~FallsDue(t) /\ Total(t)' = Total(t)
  <2>1. falls'[t] = falls[t]
    <3>1. ASSUME NEW u \in Triggers, FallsDue(u) PROVE falls'[t] = falls[t]
      BY <1>2, <3>1 DEF FallsDue, TypeOK
    <3>2. ASSUME NEW p, CreateRun(p) \/ SendRequest(p) \/ FiringFails(p) PROVE falls' = falls
      BY <3>2 DEF CreateRun, SendRequest, FiringFails
    <3> QED
      BY <3>1, <3>2, RunCases
  <2> QED
    BY <1>0, <1>2, <2>1, PendingBefore
<1>3. ASSUME NEW p \in Pollers, at[p] = "run", hand[p] # <<>>, falls' = falls,
             runs' = [runs EXCEPT ![Head(hand[p])].unasked = @ + 1], due' = due,
             CreateRun(p) \/ FiringFails(p)
      PROVE  /\ Total(t)' <= falls'[t]
             /\ Pending(t)' => Total(t)' < falls'[t]
  <2> DEFINE u == Head(hand[p])
  <2>1. /\ u \in Unfired(p) /\ u \notin Listed(due)
        /\ \A q \in Pollers \ {p} : u \notin Unfired(q)
    BY <1>3, FiresAlone
  <2>2. CASE t # u
    <3>1. Total(t)' = Total(t)
      BY <1>0, <1>3, <2>2 DEF Total
    <3>2. ~FallsDue(t)
      BY <1>0, <1>3 DEF FallsDue, TypeOK
    <3> QED
      BY <1>2, <3>1, <3>2
  <2>3. CASE t = u
    <3>1. Total(t)' = Total(t) + 1
      BY <1>0, <1>3, <2>3 DEF Total
    <3>2. Total(t) < falls[t]
      BY <1>0, <2>1, <2>3 DEF Pending
    <3>3. t \notin Unfired(p)'
      <4>1. CASE CreateRun(p)
        BY <2>3, <4>1 DEF CreateRun, Place, Unfired, Fired, TypeOK
      <4>2. CASE FiringFails(p)
        <5>1. hand'[p] = Tail(hand[p])
          BY <4>2, EndsFiring DEF TypeOK
        <5> QED
          BY <1>3, <2>3, <5>1, HandFacts DEF Unfired
      <4> QED
        BY <1>3, <4>1, <4>2
    <3>4. ASSUME NEW q \in Pollers \ {p} PROVE t \notin Unfired(q)'
      <4>1. ~ClaimDue(q)
        BY <1>3 DEF ClaimDue, CreateRun, FiringFails, Place, TypeOK
      <4> QED
        BY <2>1, <2>3, <4>1, InHandBefore
    <3>5. ~Pending(t)'
      BY <1>3, <2>1, <2>3, <3>3, <3>4 DEF Pending
    <3> QED
      BY <1>0, <1>3, <3>1, <3>2, <3>5
  <2> QED
    BY <2>2, <2>3
<1>4. ASSUME NEW p \in Pollers, CreateRun(p)
      PROVE  /\ Total(t)' <= falls'[t]
             /\ Pending(t)' => Total(t)' < falls'[t]
  BY <1>3, <1>4 DEF CreateRun
<1>5. ASSUME NEW p \in Pollers, FiringFails(p)
      PROVE  /\ Total(t)' <= falls'[t]
             /\ Pending(t)' => Total(t)' < falls'[t]
  <2>1. CASE runs' = runs
    <3>1. Total(t)' = Total(t) /\ ~FallsDue(t)
      BY <1>0, <1>5, <2>1 DEF Total, FiringFails, FallsDue, TypeOK
    <3> QED
      BY <1>2, <3>1
  <2>2. CASE at[p] = "run" /\ runs' = [runs EXCEPT ![Head(hand[p])].unasked = @ + 1]
    BY <1>3, <1>5, <2>2 DEF FiringFails
  <2> QED
    BY <1>5, <2>1, <2>2 DEF FiringFails
<1>6. ASSUME NEW p \in Pollers, SendRequest(p)
      PROVE  Total(t)' = Total(t) /\ ~FallsDue(t)
  <2>1. ~FallsDue(t)
    BY <1>0, <1>6 DEF SendRequest, FallsDue, TypeOK
  <2>2. CASE runs' = runs
    BY <2>1, <2>2 DEF Total
  <2>3. CASE runs' = [runs EXCEPT ![Head(hand[p])] =
                        [unasked |-> @.unasked - 1, asked |-> @.asked + 1]]
    BY <1>0, <2>1, <2>3 DEF Total
  <2> QED
    BY <1>6, <2>2, <2>3 DEF SendRequest
<1>7. ASSUME NEW u \in Triggers, FallsDue(u) PROVE Total(t)' = Total(t)
  BY <1>7 DEF FallsDue, Total
<1>8. CASE UNCHANGED <<runs, falls>>
  <2>1. Total(t)' = Total(t) /\ ~FallsDue(t)
    BY <1>0, <1>8 DEF Total, FallsDue, TypeOK
  <2> QED
    BY <1>2, <2>1
<1> QED
  BY <1>1, <1>2, <1>4, <1>5, <1>6, <1>7, <1>8, RunCases

-----------------------------------------------------------------------------
(* Who is firing t: one more when a run is made, one less when the firing  *)
(* is over.                                                                *)
LEMMA FiringSame ==
  ASSUME TypeOK, Hands, [Next]_vars, NEW t
  PROVE  \/ Firing(t)' \subseteq Firing(t)
         \/ \E p \in Pollers : CreateRun(p) /\ t = Head(hand[p])
<1> USE DEF Firing, Fired
<1>0. hand \in [Pollers -> Seq(Triggers)] /\ at \in [Pollers -> Places]
  BY DEF TypeOK, Places
<1>1. CASE HandsRest
  BY <1>1 DEF HandsRest
<1>2. ASSUME NEW p \in Pollers, Enter(p) \/ EndPoll(p) PROVE Firing(t)' \subseteq Firing(t)
  BY <1>2, EmptyHanded
<1>3. ASSUME NEW p \in Pollers, ClaimDue(p) PROVE Firing(t)' \subseteq Firing(t)
  BY <1>0, <1>3, ClaimTaken
<1>4. ASSUME NEW p \in Pollers, CreateRun(p) \/ Reinsert(p) \/ StartGoal(p),
             ~(CreateRun(p) /\ t = Head(hand[p]))
      PROVE  Firing(t)' \subseteq Firing(t)
  BY <1>0, <1>4, GoesOn
<1>5. ASSUME NEW p \in Pollers, SendRequest(p) \/ FiringFails(p)
      PROVE  Firing(t)' \subseteq Firing(t)
  BY <1>0, <1>5, EndsFiring
<1>6. ASSUME NEW i \in Instances, Kill(i) PROVE Firing(t)' \subseteq Firing(t)
  BY <1>0, <1>6 DEF Kill
<1> QED
  BY <1>1, <1>2, <1>3, <1>4, <1>5, <1>6, HandCases

(* A poller that is about to request a run counts among those firing.      *)
LEMMA RunAsked ==
  ASSUME TypeOK, Hands, Asked, NEW p \in Pollers, at[p] = "request"
  PROVE  LET t == Head(hand[p])
         IN /\ t \in Triggers /\ p \in Firing(t) /\ runs[t].unasked \in Nat \ {0}
            /\ IsFiniteSet(Firing(t) \ {p})
            /\ Cardinality(Firing(t) \ {p}) <= runs[t].unasked - 1
<1> DEFINE t == Head(hand[p])
<1>1. t \in Triggers /\ p \in Firing(t)
  BY HandFacts DEF Hands, Fired, Firing
<1> HIDE DEF t
<1>2. /\ IsFiniteSet(Firing(t)) /\ Cardinality(Firing(t)) \in Nat
      /\ Cardinality(Firing(t)) <= runs[t].unasked /\ runs[t].unasked \in Nat
  BY <1>1, FS_CardinalityType, Counts DEF Asked
<1>3. /\ IsFiniteSet(Firing(t) \ {p}) /\ Cardinality(Firing(t) \ {p}) \in Nat
      /\ Cardinality(Firing(t) \ {p}) = Cardinality(Firing(t)) - 1
  BY <1>1, <1>2, FS_RemoveElement, FS_CardinalityType
<1> QED
  BY <1>1, <1>2, <1>3 DEF t

(* A finite set with a new element has one more. *)
LEMMA OneMore ==
  ASSUME NEW S, IsFiniteSet(S), NEW e, e \notin S
  PROVE  IsFiniteSet(S \cup {e}) /\ Cardinality(S \cup {e}) = Cardinality(S) + 1
BY FS_AddElement

LEMMA AskedStep ==
  ASSUME TypeOK, Hands, Asked, [Next]_vars
  PROVE  Asked'
<1> SUFFICES ASSUME NEW t \in Triggers
             PROVE  IsFiniteSet(Firing(t)') /\ Cardinality(Firing(t)') <= runs'[t].unasked
  BY DEF Asked
<1>0. /\ IsFiniteSet(Firing(t)) /\ Cardinality(Firing(t)) \in Nat
      /\ Cardinality(Firing(t)) <= runs[t].unasked
      /\ runs \in [Triggers -> [unasked : Nat, asked : Nat]]
  BY FS_CardinalityType DEF Asked, TypeOK
(* No run less. *)
<1>1. ASSUME Firing(t)' \subseteq Firing(t), runs'[t].unasked \in Nat,
             runs'[t].unasked >= runs[t].unasked
      PROVE  IsFiniteSet(Firing(t)') /\ Cardinality(Firing(t)') <= runs'[t].unasked
  <2>1. /\ IsFiniteSet(Firing(t)') /\ Cardinality(Firing(t)') <= Cardinality(Firing(t))
        /\ Cardinality(Firing(t)') \in Nat
    BY <1>0, <1>1, FS_Subset, FS_CardinalityType
  <2> QED
    BY <1>0, <1>1, <2>1
<1>2. ASSUME NEW p \in Pollers, CreateRun(p), t = Head(hand[p])
      PROVE  IsFiniteSet(Firing(t)') /\ Cardinality(Firing(t)') <= runs'[t].unasked
  <2>1. Firing(t)' = Firing(t) \cup {p} /\ p \notin Firing(t)
    BY <1>2 DEF CreateRun, Place, Firing, Fired, TypeOK
  <2>2. runs'[t].unasked = runs[t].unasked + 1
    BY <1>0, <1>2 DEF CreateRun
  <2>3. /\ IsFiniteSet(Firing(t) \cup {p})
        /\ Cardinality(Firing(t) \cup {p}) = Cardinality(Firing(t)) + 1
    BY <1>0, <2>1, OneMore
  <2> QED
    BY <1>0, <2>1, <2>2, <2>3
<1>3. ASSUME NEW p \in Pollers, SendRequest(p), t = Head(hand[p])
      PROVE  IsFiniteSet(Firing(t)') /\ Cardinality(Firing(t)') <= runs'[t].unasked
  <2>0. /\ hand \in [Pollers -> Seq(Triggers)] /\ at \in [Pollers -> Places]
        /\ hand' = [hand EXCEPT ![p] = Tail(hand[p])] /\ at' = [at EXCEPT ![p] = "run"]
    BY <1>3, EndsFiring DEF TypeOK, Places
  <2>1. Firing(t)' = Firing(t) \ {p}
    <3>1. ~Fired(p)'
      BY <2>0 DEF Fired
    <3>2. ASSUME NEW q \in Pollers, q # p
          PROVE  (Fired(q)' <=> Fired(q)) /\ hand'[q] = hand[q]
      BY <2>0, <3>2 DEF Fired
    <3> QED
      BY <3>1, <3>2 DEF Firing
  <2>2. /\ IsFiniteSet(Firing(t) \ {p}) /\ Cardinality(Firing(t) \ {p}) <= runs[t].unasked - 1
        /\ Cardinality(Firing(t) \ {p}) \in Nat
    BY <1>3, RunAsked, FS_CardinalityType DEF SendRequest
  <2>3. runs'[t].unasked \in {runs[t].unasked, runs[t].unasked - 1} /\ runs[t].unasked \in Nat
    BY <1>0, <1>3 DEF SendRequest
  <2> QED
    BY <2>1, <2>2, <2>3
<1>4. CASE /\ \A p \in Pollers : ~(CreateRun(p) /\ t = Head(hand[p]))
           /\ \A p \in Pollers : ~(SendRequest(p) /\ t = Head(hand[p]))
  <2>1. Firing(t)' \subseteq Firing(t)
    BY <1>4, FiringSame
  <2>2. ASSUME NEW u, FallsDue(u) PROVE runs' = runs
    BY <2>2 DEF FallsDue
  <2>3. ASSUME NEW p \in Pollers, CreateRun(p) \/ SendRequest(p)
        PROVE  runs'[t] = runs[t]
    BY <1>0, <1>4, <2>3 DEF CreateRun, SendRequest
  <2>4. ASSUME NEW p \in Pollers, FiringFails(p)
        PROVE  runs'[t].unasked \in {runs[t].unasked, runs[t].unasked + 1}
    BY <1>0, <2>4 DEF FiringFails
  <2>5. runs'[t].unasked \in {runs[t].unasked, runs[t].unasked + 1}
    BY <2>2, <2>3, <2>4, RunCases
  <2> QED
    BY <1>0, <1>1, <2>1, <2>5
<1> QED
  BY <1>2, <1>3, <1>4

-----------------------------------------------------------------------------
(* Losses.                                                                 *)
LEMMA HitsStay == [Next]_vars => hit \subseteq hit'
<1> SUFFICES ASSUME [Next]_vars PROVE hit \subseteq hit'
  OBVIOUS
<1>1. ASSUME NEW t, CreateGoal(t) \/ CreateTrigger(t) \/ Promise(t) \/ TaskFails(t) \/ FallsDue(t)
      PROVE  hit \subseteq hit'
  BY <1>1 DEF CreateGoal, CreateTrigger, Promise, TaskFails, FallsDue, Hits, NoFailure
<1>2. ASSUME NEW p, Request(p) \/ Poll(p) \/ ClaimUnheard(p) PROVE hit \subseteq hit'
  BY <1>2 DEF Request, Poll, Check, Enter, ClaimDue, CreateRun, Reinsert, StartGoal, SendRequest,
     FiringFails, EndPoll, ClaimUnheard, triggers, Hits, NoFailure
<1>3. ASSUME NEW i, Migrating(i) \/ MigrationFails(i) \/ Kill(i) PROVE hit \subseteq hit'
  BY <1>3 DEF Migrating, MigrationFails, Kill, triggers, Hits
<1> QED
  BY <1>1, <1>2, <1>3 DEF Next, vars

(* A row goes into a hand, or is hit.                                      *)
LEMMA RowsGo ==
  ASSUME TypeOK, [Next]_vars, NEW t \in Rows, t \notin Rows'
  PROVE  t \in hit' \/ \E p \in Pollers : t \in Listed(hand'[p]) /\ t \in Owed(p)'
<1>1. ~UNCHANGED <<waiting, due>>
  BY RowsAre
<1>2. ASSUME NEW u, CreateTrigger(u) \/ TaskFails(u) PROVE FALSE
  <2>1. due' = due /\ waiting \subseteq waiting'
    BY <1>2 DEF CreateTrigger, TaskFails
  <2> QED
    BY <2>1, RowsAre
<1>3. ASSUME NEW u \in Triggers, FallsDue(u) PROVE FALSE
  <2>1. waiting' = waiting \ {u} /\ Listed(due') = Listed(due) \cup {u}
    BY <1>3, RowFacts, Joined DEF FallsDue
  <2> QED
    BY <2>1, RowsAre
<1>4. ASSUME NEW p \in Pollers, ClaimUnheard(p) PROVE t \in hit'
  BY <1>4, ClaimTaken, ClaimFacts, RowsAre
<1>5. ASSUME NEW p \in Pollers, ClaimDue(p) PROVE t \in Listed(hand'[p]) /\ t \in Owed(p)'
  <2>1. hand'[p] = Taken /\ at'[p] = "run" /\ due' = Left /\ waiting' = waiting
    BY <1>5, ClaimTaken DEF TypeOK
  <2> QED
    BY <2>1, ClaimFacts, RowsAre DEF Owed
<1>6. ASSUME NEW p \in Pollers, Reinsert(p) \/ FiringFails(p) PROVE FALSE
  <2>1. due' = due /\ waiting \subseteq waiting'
    BY <1>6 DEF Reinsert, FiringFails
  <2> QED
    BY <2>1, RowsAre
<1> QED
  BY <1>1, <1>2, <1>3, <1>4, <1>5, <1>6, RowCases

(* What leaves a hand was put back, if it recurs, or its run requested, or *)
(* it is hit.                                                              *)
LEMMA HandsGo ==
  ASSUME TypeOK, Hands, [Next]_vars, NEW p \in Pollers, NEW t \in Listed(hand[p]), t \notin hit'
  PROVE  /\ t \notin Listed(hand'[p])
               => SendRequest(p) /\ t = Head(hand[p]) /\ runs'[t].asked > 0
         /\ t \in Owed(p) /\ t \notin Owed(p)' => Reinsert(p) /\ t = Head(hand[p])
<1>0. hand \in [Pollers -> Seq(Triggers)] /\ at \in [Pollers -> Places]
  BY DEF TypeOK, Places
<1>s. hand'[p] = hand[p] /\ at'[p] = at[p]
        => t \in Listed(hand'[p]) /\ (t \in Owed(p) => t \in Owed(p)')
  BY DEF Owed
<1>1. CASE HandsRest
  BY <1>1, <1>s DEF HandsRest
<1>2. ASSUME NEW q \in Pollers, Enter(q) \/ EndPoll(q)
      PROVE  t \in Listed(hand'[p]) /\ (t \in Owed(p) => t \in Owed(p)')
  BY <1>2, <1>s, EmptyHanded, Emptied
<1>3. ASSUME NEW q \in Pollers, ClaimDue(q)
      PROVE  t \in Listed(hand'[p]) /\ (t \in Owed(p) => t \in Owed(p)')
  <2>1. q # p
    BY <1>3, ClaimTaken, Emptied DEF Hands
  <2> QED
    BY <1>0, <1>3, <1>s, <2>1, ClaimTaken
<1>4. ASSUME NEW q \in Pollers, CreateRun(q) \/ Reinsert(q) \/ StartGoal(q)
      PROVE  /\ t \in Listed(hand'[p])
             /\ t \in Owed(p) /\ t \notin Owed(p)' => Reinsert(p) /\ t = Head(hand[p])
  BY <1>0, <1>4, <1>s, GoesOn DEF Owed
<1>5. ASSUME NEW q \in Pollers, SendRequest(q) \/ FiringFails(q)
      PROVE  /\ t \notin Listed(hand'[p])
               => SendRequest(p) /\ t = Head(hand[p]) /\ runs'[t].asked > 0
             /\ t \in Owed(p) => t \in Owed(p)'
  <2>1. /\ hand[q] # <<>> /\ hand' = [hand EXCEPT ![q] = Tail(hand[q])]
        /\ at' = [at EXCEPT ![q] = "run"]
    BY <1>5, EndsFiring
  <2>2. CASE q # p
    BY <1>0, <1>s, <2>1, <2>2
  <2>3. CASE q = p
    <3>1. Listed(hand'[p]) = Listed(hand[p]) \ {Head(hand[p])}
      BY <1>0, <2>1, <2>3, HandFacts
    <3>2. ASSUME t = Head(hand[p]) PROVE SendRequest(p) /\ at[p] = "request" /\ runs'[t].asked > 0
      <4>1. SendRequest(p) /\ at[p] = "request"
        BY <1>5, <2>3, <3>2 DEF FiringFails, Hits, SendRequest
      <4>2. t \in Triggers /\ runs[t].asked \in Nat
        BY <2>1, <2>3, <3>2, HandFacts, Counts
      <4>3. runs' = [runs EXCEPT ![t] = [unasked |-> @.unasked - 1, asked |-> @.asked + 1]]
        BY <3>2, <4>1 DEF SendRequest, Hits
      <4>4. runs'[t].asked = runs[t].asked + 1
        BY <4>2, <4>3 DEF TypeOK
      <4> QED
        BY <4>1, <4>2, <4>4
    <3>3. t # Head(hand[p]) => t \in Owed(p)'
      BY <1>0, <2>1, <2>3, <3>1 DEF Owed
    <3> QED
      BY <3>1, <3>2, <3>3 DEF Owed
  <2> QED
    BY <2>2, <2>3
<1>6. ASSUME NEW i \in Instances, Kill(i)
      PROVE  t \in Listed(hand'[p]) /\ (t \in Owed(p) => t \in Owed(p)')
  <2>1. InstanceOf[p] # i
    BY <1>6 DEF Kill, Hits, Listed
  <2> QED
    BY <1>6, <1>s, <2>1 DEF Kill
<1> QED
  BY <1>1, <1>2, <1>3, <1>4, <1>5, <1>6, HandCases

LEMMA KeptStep ==
  ASSUME TypeOK, Hands, Kept, [Next]_vars
  PROVE  Kept'
<1> SUFFICES ASSUME NEW t \in Recurring, t \notin hit', t \notin Rows'
             PROVE  \E p \in Pollers : t \in Owed(p)'
  BY DEF Kept
<1>1. t \notin hit
  BY HitsStay
<1>2. CASE t \in Rows
  BY <1>2, RowsGo
<1>3. ASSUME NEW p \in Pollers, t \in Owed(p) PROVE t \in Owed(p)'
  <2>1. ASSUME Reinsert(p), t = Head(hand[p]) PROVE FALSE
    BY <2>1, RowsAre DEF Reinsert
  <2>2. t \in Listed(hand[p])
    BY <1>3 DEF Owed
  <2> QED
    BY <1>3, <2>1, <2>2, HandsGo
<1> QED
  BY <1>1, <1>2, <1>3 DEF Kept

(* A task whose trigger was created is to be fired, or its run requested.  *)
Promised ==
  \A t \in Deferred \ hit : handler[t] \in {"trigger", "promised"} =>
    t \in Rows \/ (\E p \in Pollers : t \in Listed(hand[p])) \/ runs[t].asked > 0

LEMMA AskedStays ==
  ASSUME TypeOK, [Next]_vars, NEW t \in Triggers, runs[t].asked > 0
  PROVE  runs'[t].asked > 0
<1>0. runs \in [Triggers -> [unasked : Nat, asked : Nat]]
  BY DEF TypeOK
<1>1. ASSUME NEW u, FallsDue(u) PROVE runs' = runs
  BY <1>1 DEF FallsDue
<1>2. ASSUME NEW p, CreateRun(p) \/ FiringFails(p) PROVE runs'[t].asked = runs[t].asked
  BY <1>0, <1>2 DEF CreateRun, FiringFails
<1>3. ASSUME NEW p, SendRequest(p) PROVE runs'[t].asked \in {runs[t].asked, runs[t].asked + 1}
  BY <1>0, <1>3 DEF SendRequest
<1> QED
  BY <1>0, <1>1, <1>2, <1>3, RunCases

LEMMA PromisedStep ==
  ASSUME TypeOK, Hands, Promised, [Next]_vars
  PROVE  Promised'
<1> SUFFICES ASSUME NEW t \in Deferred, t \notin hit', handler'[t] \in {"trigger", "promised"}
             PROVE  t \in Rows' \/ (\E p \in Pollers : t \in Listed(hand'[p])) \/ runs'[t].asked > 0
  BY DEF Promised
<1>1. t \notin hit /\ t \in Triggers
  BY HitsStay DEF Triggers
<1>2. handler[t] \in {"trigger", "promised"} \/ t \in Rows'
  <2>1. ASSUME NEW u \in Deferred, CreateGoal(u) \/ Promise(u) \/ TaskFails(u)
        PROVE  handler[t] \in {"trigger", "promised"}
    BY <2>1 DEF CreateGoal, Promise, TaskFails, Reach, TypeOK
  <2>2. ASSUME NEW u \in Deferred, CreateTrigger(u)
        PROVE  handler[t] \in {"trigger", "promised"} \/ t \in Rows'
    BY <2>2, RowsAre DEF CreateTrigger, Reach, TypeOK
  <2>3. ASSUME NEW u, FallsDue(u) PROVE handler' = handler
    BY <2>3 DEF FallsDue
  <2>4. ASSUME NEW p, Request(p) \/ Poll(p) \/ ClaimUnheard(p) PROVE handler' = handler
    BY <2>4 DEF Request, Poll, Check, Enter, ClaimDue, CreateRun, Reinsert, StartGoal, SendRequest,
       FiringFails, EndPoll, ClaimUnheard, triggers
  <2>5. ASSUME NEW i, Migrating(i) \/ MigrationFails(i) \/ Kill(i) PROVE handler' = handler
    BY <2>5 DEF Migrating, MigrationFails, Kill, triggers
  <2> QED
    BY <2>1, <2>2, <2>3, <2>4, <2>5 DEF Next, vars
<1>3. CASE t \in Rows
  BY <1>3, RowsGo
<1>4. ASSUME NEW p \in Pollers, t \in Listed(hand[p])
      PROVE  t \in Listed(hand'[p]) \/ runs'[t].asked > 0
  BY <1>4, HandsGo
<1>5. CASE runs[t].asked > 0
  BY <1>1, <1>5, AskedStays
<1> QED
  BY <1>1, <1>2, <1>3, <1>4, <1>5 DEF Promised

-----------------------------------------------------------------------------
(* Types.                                                                  *)
RowsTyped ==
  /\ waiting \subseteq Triggers /\ due \in Seq(Triggers)
  /\ Distinct(due) /\ Listed(due) \cap waiting = {}

LEMMA RowsTypedStep ==
  ASSUME TypeOK, Hands, OnePlace, Ahead, [Next]_vars
  PROVE  RowsTyped'
<1>0. RowsTyped /\ Listed(due) \subseteq Triggers /\ Rows = waiting \cup Listed(due)
  BY RowFacts DEF RowsTyped
<1>1. CASE UNCHANGED <<waiting, due>>
  BY <1>0, <1>1 DEF RowsTyped
<1>2. ASSUME NEW t \in Deferred, CreateTrigger(t) \/ TaskFails(t) PROVE RowsTyped'
  <2>1. due' = due /\ (waiting' = waiting \/ (waiting' = waiting \cup {t} /\ handler[t] = "goal"))
    BY <1>2 DEF CreateTrigger, TaskFails
  <2>2. t \in Triggers /\ (handler[t] = "goal" => t \notin Listed(due))
    BY <1>0 DEF Triggers, Ahead
  <2> QED
    BY <1>0, <2>1, <2>2 DEF RowsTyped
<1>3. ASSUME NEW t \in Triggers, FallsDue(t) PROVE RowsTyped'
  <2>1. t \in waiting /\ waiting' = waiting \ {t} /\ due' = Append(due, t)
    BY <1>3 DEF FallsDue
  <2>2. /\ due' \in Seq(Triggers) /\ Listed(due') = Listed(due) \cup {t} /\ Distinct(due')
    BY <1>0, <2>1, Joined DEF RowsTyped
  <2> QED
    BY <1>0, <2>1, <2>2 DEF RowsTyped
<1>4. ASSUME NEW p \in Pollers, ClaimDue(p) \/ ClaimUnheard(p) PROVE RowsTyped'
  <2>1. waiting' = waiting /\ due' = Left
    BY <1>4, ClaimTaken
  <2> QED
    BY <1>0, <2>1, ClaimFacts DEF RowsTyped
<1>5. ASSUME NEW p \in Pollers, Reinsert(p) \/ FiringFails(p) PROVE RowsTyped'
  <2> DEFINE t == Head(hand[p])
  <2>1. /\ due' = due
        /\ waiting' = waiting \/ (waiting' = waiting \cup {t} /\ at[p] = "reinsert")
    BY <1>5 DEF Reinsert, FiringFails
  <2>2. at[p] = "reinsert" => t \in Triggers /\ t \in Owed(p)
    BY HandFacts DEF Hands, Fired, Owed
  <2>3. at[p] = "reinsert" => t \notin Listed(due)
    BY <1>0, <2>2 DEF OnePlace
  <2> QED
    BY <1>0, <2>1, <2>2, <2>3 DEF RowsTyped
<1> QED
  BY <1>1, <1>2, <1>3, <1>4, <1>5, RowCases

(* Hands and places. *)
LEMMA HandsTypedStep ==
  ASSUME TypeOK, Hands, [Next]_vars
  PROVE  hand' \in [Pollers -> Seq(Triggers)] /\ at' \in [Pollers -> Places]
<1>0. hand \in [Pollers -> Seq(Triggers)] /\ at \in [Pollers -> Places]
  BY DEF TypeOK, Places
<1>1. CASE HandsRest
  BY <1>0, <1>1 DEF HandsRest
<1>2. ASSUME NEW p \in Pollers, Enter(p) \/ EndPoll(p)
      PROVE  hand' \in [Pollers -> Seq(Triggers)] /\ at' \in [Pollers -> Places]
  BY <1>0, <1>2, EmptyHanded
<1>3. ASSUME NEW p \in Pollers, ClaimDue(p)
      PROVE  hand' \in [Pollers -> Seq(Triggers)] /\ at' \in [Pollers -> Places]
  BY <1>0, <1>3, ClaimTaken, ClaimFacts DEF Places
<1>4. ASSUME NEW p \in Pollers, CreateRun(p) \/ Reinsert(p) \/ StartGoal(p)
      PROVE  hand' \in [Pollers -> Seq(Triggers)] /\ at' \in [Pollers -> Places]
  BY <1>0, <1>4, GoesOn DEF Places
<1>5. ASSUME NEW p \in Pollers, SendRequest(p) \/ FiringFails(p)
      PROVE  hand' \in [Pollers -> Seq(Triggers)] /\ at' \in [Pollers -> Places]
  <2>1. /\ hand[p] # <<>> /\ hand' = [hand EXCEPT ![p] = Tail(hand[p])]
        /\ at' = [at EXCEPT ![p] = "run"]
    BY <1>5, EndsFiring
  <2>2. Tail(hand[p]) \in Seq(Triggers)
    BY <2>1, HandFacts
  <2> QED
    BY <1>0, <2>1, <2>2 DEF Places
<1>6. ASSUME NEW i \in Instances, Kill(i)
      PROVE  hand' \in [Pollers -> Seq(Triggers)] /\ at' \in [Pollers -> Places]
  BY <1>0, <1>6 DEF Kill, Places
<1> QED
  BY <1>1, <1>2, <1>3, <1>4, <1>5, <1>6, HandCases

(* Runs and falls: a run that is requested was made. *)
LEMMA RunsTypedStep ==
  ASSUME TypeOK, Hands, Asked, [Next]_vars
  PROVE  /\ runs' \in [Triggers -> [unasked : Nat, asked : Nat]]
         /\ falls' \in [Triggers -> 0..MaxFirings]
<1>0. /\ runs \in [Triggers -> [unasked : Nat, asked : Nat]]
      /\ falls \in [Triggers -> 0..MaxFirings]
  BY DEF TypeOK
<1>1. ASSUME NEW t \in Triggers, FallsDue(t)
      PROVE  runs' = runs /\ falls' \in [Triggers -> 0..MaxFirings]
  BY <1>0, <1>1, SchedulerAssumption DEF FallsDue
<1>2. ASSUME NEW p \in Pollers, CreateRun(p) \/ FiringFails(p)
      PROVE  runs' \in [Triggers -> [unasked : Nat, asked : Nat]] /\ falls' = falls
  <2> DEFINE t == Head(hand[p])
  <2>1. t \in Triggers /\ falls' = falls
    BY <1>2, HandFacts DEF CreateRun, FiringFails
  <2>2. runs' = runs \/ runs' = [runs EXCEPT ![t].unasked = @ + 1]
    BY <1>2 DEF CreateRun, FiringFails
  <2> HIDE DEF t
  <2> QED
    BY <1>0, <2>1, <2>2
<1>3. ASSUME NEW p \in Pollers, SendRequest(p)
      PROVE  runs' \in [Triggers -> [unasked : Nat, asked : Nat]] /\ falls' = falls
  <2> DEFINE t == Head(hand[p])
  <2>1. t \in Triggers /\ runs[t].unasked \in Nat \ {0} /\ runs[t].asked \in Nat
    BY <1>0, <1>3, RunAsked DEF SendRequest
  <2>2. [unasked |-> runs[t].unasked - 1, asked |-> runs[t].asked + 1]
          \in [unasked : Nat, asked : Nat]
    BY <2>1
  <2>3. /\ falls' = falls
        /\ \/ runs' = runs
           \/ runs' = [runs EXCEPT ![t] =
                         [unasked |-> runs[t].unasked - 1, asked |-> runs[t].asked + 1]]
    BY <1>3 DEF SendRequest
  <2> QED
    BY <1>0, <2>1, <2>2, <2>3
<1> QED
  BY <1>0, <1>1, <1>2, <1>3, RunCases

(* Handlers, goals and failures. *)
LEMMA TasksTypedStep ==
  ASSUME TypeOK, Hands, [Next]_vars
  PROVE  /\ handler' \in [Deferred -> {"new", "goal", "trigger", "promised", "error"}]
         /\ goal' \in [Triggers -> {"none", "created", "running", "failed"}]
         /\ hit' \subseteq Triggers /\ failures' \in 0..MaxFailures
<1> DEFINE Typed == /\ handler \in [Deferred -> {"new", "goal", "trigger", "promised", "error"}]
                    /\ goal \in [Triggers -> {"none", "created", "running", "failed"}]
                    /\ hit \subseteq Triggers /\ failures \in 0..MaxFailures
<1>0. Typed
  BY DEF TypeOK
<1>f. Fails => failures' \in 0..MaxFailures
  BY <1>0, SchedulerAssumption DEF Fails
<1>1. ASSUME NEW t \in Deferred, CreateGoal(t) \/ CreateTrigger(t) \/ Promise(t) \/ TaskFails(t)
      PROVE  Typed'
  <2>1. t \in Triggers
    BY DEF Triggers
  <2>2. CASE CreateGoal(t) \/ CreateTrigger(t) \/ Promise(t)
    BY <1>0, <2>2 DEF CreateGoal, CreateTrigger, Promise, Reach, SetGoal, NoFailure
  <2>3. CASE TaskFails(t)
    BY <1>0, <1>f, <2>1, <2>3 DEF TaskFails, Reach, SetGoal, Hits
  <2> QED
    BY <1>1, <2>2, <2>3
<1>2. ASSUME NEW t, FallsDue(t) PROVE Typed'
  BY <1>0, <1>2 DEF FallsDue, NoFailure
<1>3. ASSUME NEW p, Request(p) \/ Check(p) \/ Enter(p) \/ ClaimDue(p) \/ CreateRun(p) \/ Reinsert(p)
                      \/ EndPoll(p)
      PROVE  Typed'
  BY <1>0, <1>f, <1>3 DEF Request, Check, Enter, ClaimDue, CreateRun, Reinsert, EndPoll, triggers,
     NoFailure
<1>4. ASSUME NEW p \in Pollers, ClaimUnheard(p) PROVE Typed'
  <2>1. /\ hit' = hit \cup Listed(Taken) /\ Fails /\ UNCHANGED <<handler, goal>>
    BY <1>4, ClaimTaken, ClaimFacts
  <2>2. Listed(Taken) \subseteq Triggers
    BY ClaimFacts, RowFacts
  <2> QED
    BY <1>0, <1>f, <2>1, <2>2
<1>5. ASSUME NEW p \in Pollers, StartGoal(p) \/ SendRequest(p) \/ FiringFails(p) PROVE Typed'
  <2>1. Head(hand[p]) \in Triggers
    BY <1>5, HandFacts DEF StartGoal, SendRequest, FiringFails, Hands, Fired
  <2>2. CASE StartGoal(p)
    BY <1>0, <2>1, <2>2 DEF StartGoal, SetGoal, NoFailure
  <2>3. CASE SendRequest(p)
    BY <1>0, <1>f, <2>1, <2>3 DEF SendRequest, NoFailure, Hits
  <2>4. CASE FiringFails(p)
    BY <1>0, <1>f, <2>1, <2>4 DEF FiringFails, SetGoal, Hits
  <2> QED
    BY <1>5, <2>2, <2>3, <2>4
<1>6. ASSUME NEW i, Migrating(i) \/ MigrationFails(i) PROVE Typed'
  BY <1>0, <1>f, <1>6 DEF Migrating, MigrationFails, triggers
<1>7. ASSUME NEW i \in Instances, Kill(i) PROVE Typed'
  <2>1. \A p \in Pollers : Listed(hand[p]) \subseteq Triggers
    BY DEF TypeOK, Listed
  <2> QED
    BY <1>0, <1>f, <1>7, <2>1 DEF Kill, Hits, Listed
<1>8. CASE UNCHANGED vars
  BY <1>0, <1>8 DEF vars
<1> QED
  BY <1>1, <1>2, <1>3, <1>4, <1>5, <1>6, <1>7, <1>8 DEF Next, Poll

LEMMA TypedStep ==
  ASSUME GateInv, TypeOK, Hands, OnePlace, Ahead, Asked, [Next]_vars
  PROVE  TypeOK'
<1>1. Gate!TypeOK'
  <2>1. [Gate!Next]_readiness
    BY GateUsed
  <2> QED
    BY <2>1, GateKept DEF GateInv
<1>2. RowsTyped'
  BY RowsTypedStep
<1>3. \A k \in DOMAIN due' :
        due'[k] \notin waiting' /\ \A l \in DOMAIN due' : k # l => due'[k] # due'[l]
  BY <1>2 DEF RowsTyped, Listed, Distinct
<1> QED
  BY <1>1, <1>2, <1>3, HandsTypedStep, RunsTypedStep, TasksTypedStep DEF TypeOK, RowsTyped, Places

-----------------------------------------------------------------------------
PollInv ==
  /\ GateInv /\ TypeOK
  /\ Hands /\ OnePlace /\ Ahead /\ Budget /\ FiredOncePerDue /\ Asked /\ Kept /\ Promised

LEMMA PollInit == Init => PollInv
<1> SUFFICES ASSUME Init PROVE PollInv
  OBVIOUS
<1>1. GateInv
  BY GateInit DEF Init
<1>2. TypeOK
  <2>1. <<>> \in Seq(Triggers) /\ DOMAIN <<>> = {}
    OBVIOUS
  <2> QED
    BY <1>1, <2>1, SchedulerAssumption DEF Init, GateInv, TypeOK, Triggers
<1>3. Listed(due) = {} /\ \A p \in Pollers : Listed(hand[p]) = {} /\ Distinct(hand[p])
  BY Emptied DEF Init
<1>4. Hands /\ OnePlace
  BY <1>3 DEF Init, Hands, OnePlace, Owed, Fired
<1>5. Ahead /\ Kept /\ Promised
  BY <1>3, RowsAre, SchedulerAssumption DEF Init, Ahead, Kept, Promised, Triggers
<1>6. Budget /\ FiredOncePerDue
  BY <1>3 DEF Init, Budget, FiredOncePerDue, Unfired
<1>7. ASSUME NEW t \in Triggers PROVE Firing(t) = {} /\ runs[t].unasked = 0
  BY <1>7 DEF Init, Firing, Fired
<1>8. Asked
  BY <1>7, FS_EmptySet DEF Asked
<1> QED
  BY <1>1, <1>2, <1>4, <1>5, <1>6, <1>8 DEF PollInv

LEMMA PollStep == PollInv /\ [Next]_vars => PollInv'
<1> SUFFICES ASSUME PollInv, [Next]_vars PROVE PollInv'
  OBVIOUS
<1> USE DEF PollInv
<1>1. GateInv'
  BY GateUsed, GateKept
<1>2. TypeOK' /\ Hands' /\ OnePlace' /\ Ahead'
  BY TypedStep, HandsStep, OnePlaceStep, AheadStep
<1>3. Budget' /\ FiredOncePerDue' /\ Asked'
  BY BudgetStep, AskedStep
<1>4. Kept' /\ Promised'
  BY KeptStep, PromisedStep
<1> QED
  BY <1>1, <1>2, <1>3, <1>4

LEMMA PollInvariant == Spec => []PollInv
BY PollInit, PollStep, PTL DEF Spec

(* Rows, goals, hands and counts keep their types; a trigger is in one row *)
(* at most. scheduler.ts, deferral.ts.                                     *)
THEOREM SchedulerTyped == Spec => []TypeOK
<1>1. PollInv => TypeOK
  BY DEF PollInv
<1> QED
  BY <1>1, PollInvariant, PTL

(* However many pollers of however many instances race for the due rows,   *)
(* are killed or have statements sent twice: each time a trigger falls due *)
(* it gets one run at most.                                                *)
THEOREM NeverFiredTwice == Spec => []FiredOncePerDue
<1>1. PollInv => FiredOncePerDue
  BY DEF PollInv
<1> QED
  BY <1>1, PollInvariant, PTL

(* A trigger that met no failure itself is in its row or in a hand, or its *)
(* run was requested, whatever happened to others.                         *)
THEOREM OnlyHitTriggersAreLost == Spec => []NoTriggerLost
<1>1. PollInv => NoTriggerLost
  BY DEF PollInv, Kept, Promised, NoTriggerLost, InHand, Owed, Listed
<1> QED
  BY <1>1, PollInvariant, PTL
=============================================================================
