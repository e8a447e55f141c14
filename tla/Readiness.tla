------------------------------ MODULE Readiness ------------------------------
(***************************************************************************)
(* The gate before all durable work: requireDurableDependencies. Each      *)
(* instance of a function runs the migrations once, in one transaction, on *)
(* the first call; calls that come meanwhile share that attempt, and a     *)
(* failed attempt is not remembered. Instances that start together migrate *)
(* at the same time: nothing serialises them but the locks of the          *)
(* statements and the primary key of schema_migrations.                    *)
(***************************************************************************)
EXTENDS Naturals, FiniteSets

CONSTANTS
  Callers,     \* invocations, each again and again
  Instances,   \* instances of a function: one readiness state each
  InstanceOf,  \* the instance of a caller
  Latest       \* the last of the migrations, 1..Latest

Versions == 1..Latest

VARIABLES
  applied,   \* schema_migrations, committed
  state,     \* the readiness state of each instance
  tx,        \* its transaction: place, the versions it read, and those it applied
  gate       \* each call: waiting for the migration, checking the stores, let in or not

vars == <<applied, state, tx, gate>>

NoTx == [pc |-> "none", read |-> {}, done |-> {}]

(* States and transactions keep their types.                               *)
TypeOK ==
  /\ applied \subseteq Versions
  /\ state \in [Instances -> {"uninitialized", "migrating", "ready", "failed"}]
  /\ tx \in [Instances -> [pc : {"none", "begun", "applying"}, read : SUBSET Versions,
                           done : SUBSET Versions]]
  /\ gate \in [Callers -> {"out", "waiting", "checking", "passed", "refused"}]

Init ==
  /\ applied \in {1..v : v \in 0..Latest}
  /\ state = [i \in Instances |-> "uninitialized"]
  /\ tx = [i \in Instances |-> NoTx]
  /\ gate = [c \in Callers |-> "out"]

-----------------------------------------------------------------------------
(* Mutant: the state is looked at, not the attempt that is under way. *)
CallUnshared(c) ==
  LET i == InstanceOf[c]
  IN /\ gate[c] \in {"out", "refused"}
     /\ IF state[i] \in {"ready", "migrating"}
          THEN gate' = [gate EXCEPT ![c] = "checking"] /\ UNCHANGED <<state, tx>>
          ELSE /\ gate' = [gate EXCEPT ![c] = "waiting"]
               /\ state' = [state EXCEPT ![i] = "migrating"]
               /\ tx' = [tx EXCEPT ![i] = [NoTx EXCEPT !.pc = "begun"]]
     /\ UNCHANGED applied

(* Mutant: a failed attempt is remembered. *)
CallFailsForGood(c) ==
  LET i == InstanceOf[c]
  IN /\ gate[c] \in {"out", "refused"}
     /\ IF state[i] \in {"ready", "failed"}
          THEN /\ gate' = [gate EXCEPT ![c] = IF state[i] = "ready" THEN "checking" ELSE "refused"]
               /\ UNCHANGED <<state, tx>>
          ELSE /\ gate' = [gate EXCEPT ![c] = "waiting"]
               /\ state' = [state EXCEPT ![i] = "migrating"]
               /\ tx' = IF tx[i].pc # "none" THEN tx
                        ELSE [tx EXCEPT ![i] = [NoTx EXCEPT !.pc = "begun"]]
     /\ UNCHANGED applied

(* ensureSchemaReady: passes, joins the attempt under way, or starts one. *)
Call(c) ==
  LET i == InstanceOf[c]
  IN /\ gate[c] \in {"out", "refused"}
     /\ IF state[i] = "ready"
          THEN gate' = [gate EXCEPT ![c] = "checking"] /\ UNCHANGED <<state, tx>>
          ELSE /\ gate' = [gate EXCEPT ![c] = "waiting"]
               /\ state' = [state EXCEPT ![i] = "migrating"]
               /\ tx' = IF tx[i].pc # "none" THEN tx
                        ELSE [tx EXCEPT ![i] = [NoTx EXCEPT !.pc = "begun"]]
     /\ UNCHANGED applied

(* SELECT version: what is committed by now. *)
ReadVersions(i) ==
  /\ tx[i].pc = "begun"
  /\ tx' = [tx EXCEPT ![i].pc = "applying", ![i].read = applied]
  /\ UNCHANGED <<applied, state, gate>>

Missing(i) == Versions \ (tx[i].read \cup tx[i].done)
Due(i, v) == v \in Missing(i) /\ \A w \in Missing(i) : v <= w

(* The SQL of the next version, and its row: both wait for a transaction   *)
(* that has applied the version and not ended, and the row's key must be   *)
(* new.                                                                    *)
Apply(i) ==
  /\ tx[i].pc = "applying"
  /\ \E v \in Versions :
       /\ Due(i, v)
       /\ \A j \in Instances : v \notin tx[j].done
       /\ v \notin applied
       /\ tx' = [tx EXCEPT ![i].done = @ \cup {v}]
  /\ UNCHANGED <<applied, state, gate>>

(* What the callers that share the attempt of instance i are told. *)
Tell(i, result) ==
  gate' = [c \in Callers |-> IF InstanceOf[c] = i /\ gate[c] = "waiting" THEN result ELSE gate[c]]

Commit(i) ==
  /\ tx[i].pc = "applying" /\ Missing(i) = {}
  /\ applied' = applied \cup tx[i].done
  /\ tx' = [tx EXCEPT ![i] = NoTx]
  /\ state' = [state EXCEPT ![i] = "ready"]
  /\ Tell(i, "checking")

(* A connection that breaks while the COMMIT is under way leaves open      *)
(* whether it took effect.                                                 *)
Broken(i) ==
  IF tx[i].pc = "applying" /\ Missing(i) = {} THEN {applied, applied \cup tx[i].done} ELSE {applied}

(* ROLLBACK after an error of a statement or of the connection; 503.       *)
Fail(i) ==
  /\ tx[i].pc # "none"
  /\ applied' \in Broken(i)
  /\ tx' = [tx EXCEPT ![i] = NoTx]
  /\ state' = [state EXCEPT ![i] = "failed"]
  /\ Tell(i, "refused")

(* The key of a version that another instance has committed since.         *)
Collides(i) == tx[i].pc = "applying" /\ \E v \in applied : Due(i, v)

(* isDbAvailable and pingRedis. *)
CheckStores(c) ==
  /\ gate[c] = "checking"
  /\ \E result \in {"passed", "refused"} : gate' = [gate EXCEPT ![c] = result]
  /\ UNCHANGED <<applied, state, tx>>

(* An invocation ends. *)
Leave(c) ==
  /\ gate[c] = "passed"
  /\ gate' = [gate EXCEPT ![c] = "out"]
  /\ UNCHANGED <<applied, state, tx>>

(* An instance is killed, or recycled: the database rolls back. *)
Restart(i) ==
  /\ state' = [state EXCEPT ![i] = "uninitialized"]
  /\ tx' = [tx EXCEPT ![i] = NoTx]
  /\ gate' = [c \in Callers |-> IF InstanceOf[c] = i THEN "out" ELSE gate[c]]
  /\ applied' \in Broken(i)

-----------------------------------------------------------------------------
Migrate(i) == ReadVersions(i) \/ Apply(i) \/ Commit(i) \/ (Collides(i) /\ Fail(i))

Next ==
  \/ \E c \in Callers : Call(c) \/ CheckStores(c) \/ Leave(c)
  \/ \E i \in Instances : Migrate(i) \/ Fail(i) \/ Restart(i)

Spec == Init /\ [][Next]_vars

-----------------------------------------------------------------------------
(* Properties                                                              *)

(* No work is done on a schema that is not complete: whoever passed the    *)
(* gate, on whichever instance and after however many failed, concurrent   *)
(* or broken-off attempts, passed it with all migrations committed.        *)
PassedIsMigrated ==
  /\ \A i \in Instances : state[i] = "ready" => applied = Versions
  /\ \A c \in Callers : gate[c] \in {"checking", "passed"} => applied = Versions

(* The SQL of a migration takes effect once: no transaction has applied a  *)
(* version that is committed, or that another open transaction applied.    *)
AppliedOnce ==
  \A i \in Instances :
    /\ tx[i].done \cap applied = {}
    /\ \A j \in Instances \ {i} : tx[i].done \cap tx[j].done = {}

(* Cold starts that migrate at the same time do not spoil the schema: it   *)
(* is complete for all who passed, and no migration ran twice.             *)
SchemaSound == PassedIsMigrated /\ AppliedOnce
=============================================================================
