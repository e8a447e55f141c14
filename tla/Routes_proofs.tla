--------------------------- MODULE Routes_proofs ---------------------------
(***************************************************************************)
(* Proofs about what comes in over HTTP: the events of Slack, for any      *)
(* deliveries, events and messages, and the dashboard's requests, for any  *)
(* pages and limits; any number of instances, and whatever fails. The two  *)
(* share no state.                                                         *)
(***************************************************************************)
EXTENDS EventIngress, Dashboard, FiniteSetTheorems, TLAPS

-----------------------------------------------------------------------------
(* Events, messages and intents.                                           *)

(* Every delivery has its keys. *)
LEMMA KeysOf ==
  ASSUME NEW d \in Deliveries
  PROVE  EventOf[d] \in Events /\ Message(d) \in Messages /\ Intent(d) \in Intents
  BY DEF Events, Messages, Intents, Message, Intent

(* At first every variable has its type. *)
LEMMA TypeInit == Init => TypeOK
  BY DEF Init, TypeOK

(* Every step keeps the types. *)
LEMMA TypeStep == TypeOK /\ [Next]_vars => TypeOK'
<1> SUFFICES ASSUME TypeOK, [Next]_vars PROVE TypeOK'
  OBVIOUS
<1> USE DEF TypeOK, Ingress, Goto, Reply, Remember, Fails, NotSet, KeyAt, stores
<1>1. ASSUME NEW d \in Deliveries, Handle(d) PROVE TypeOK'
  <2> USE KeysOf
  <2>1. CASE Deliver(d)
    BY <2>1 DEF Deliver
  <2>2. CASE SetEventKey(d)
    BY <2>2 DEF SetEventKey
  <2>3. CASE InsertEventRow(d)
    BY <2>3 DEF InsertEventRow
  <2>4. CASE SetMessageKey(d)
    BY <2>4 DEF SetMessageKey, AdmitOn
  <2>5. CASE InsertMessageRow(d)
    BY <2>5 DEF InsertMessageRow
  <2>6. CASE RedisFails(d)
    BY <2>6 DEF RedisFails
  <2>7. CASE StoresAway(d)
    BY <2>7 DEF StoresAway
  <2>8. CASE InsertFails(d)
    BY <2>8 DEF InsertFails
  <2>9. CASE Admit(d)
    BY <2>9 DEF Admit
  <2>10. CASE Trigger(d)
    BY <2>10 DEF Trigger
  <2>11. CASE ClaimIntent(d)
    BY <2>11 DEF ClaimIntent
  <2>12. CASE Complete(d)
    BY <2>12 DEF Complete
  <2> QED
    BY <1>1, <2>1, <2>2, <2>3, <2>4, <2>5, <2>6, <2>7, <2>8, <2>9, <2>10, <2>11, <2>12
       DEF Handle
<1>2. CASE IntentExpires
  BY <1>2 DEF IntentExpires
<1>3. ASSUME NEW i \in Instances, Restart(i) PROVE TypeOK'
  BY <1>3 DEF Restart
<1>4. CASE UNCHANGED vars
  BY <1>4 DEF vars
<1> QED
  BY <1>1, <1>2, <1>3, <1>4 DEF Next

(* Keys and deliveries keep their types, whatever fails. *)
THEOREM IngressTyped == Spec => []TypeOK
  BY TypeInit, TypeStep, PTL DEF Spec

-----------------------------------------------------------------------------
(* Once per store, one at a time                                           *)

(* What a store admitted it still has, and who executes an intent has its  *)
(* key in Redis.                                                           *)
Keyed ==
  /\ \A d \in Deliveries : admittedBy[d] = "redis" => Message(d) \in redis
  /\ \A d \in Deliveries : admittedBy[d] = "database" => Message(d) \in rows
  /\ \A d \in Deliveries : pc[d] = "executing" => Intent(d) \in redis

Exclusive == Keyed /\ AdmittedOncePerStore /\ OneAtATime

(* At first nothing is admitted, nothing executed. *)
LEMMA ExclusiveInit == Init => Exclusive
  BY DEF Init, Exclusive, Keyed, AdmittedOncePerStore, Admitted, OneAtATime

(* Every step keeps the keys, and what they exclude. *)
LEMMA ExclusiveStep == TypeOK /\ Exclusive /\ [Next]_vars => Exclusive'
<1> SUFFICES ASSUME TypeOK, Exclusive, [Next]_vars PROVE Exclusive'
  OBVIOUS
<1> USE DEF Exclusive, Keyed, AdmittedOncePerStore, Admitted, OneAtATime, Message, Intent
<1>1. ASSUME NEW d \in Deliveries, Handle(d) PROVE Exclusive'
  <2> USE DEF TypeOK, Goto, Reply, Fails, NotSet, stores
  <2>1. CASE Deliver(d)
    BY <2>1 DEF Deliver
  <2>2. CASE SetEventKey(d)
    BY <2>2 DEF SetEventKey
  <2>3. CASE InsertEventRow(d)
    BY <2>3 DEF InsertEventRow
  <2>4. CASE SetMessageKey(d)
    <3> USE <2>4 DEF SetMessageKey, AdmitOn
    <3>1. CASE Message(d) \in redis
      <4>1. UNCHANGED <<redis, rows, admittedBy>> /\ pc'[d] # "executing"
        BY <3>1
      <4>2. \A c \in Deliveries : pc'[c] = "executing" => pc[c] = "executing"
        BY <3>1
      <4> QED
        BY <4>1, <4>2
    <3>2. CASE Message(d) \notin redis
      <4>1. \A c \in Deliveries : pc'[c] = "executing" => pc[c] = "executing"
        BY <3>2
      <4>2. Keyed'
        BY <3>2, <4>1
      <4>3. AdmittedOncePerStore'
        BY <3>2
      <4>4. OneAtATime'
        BY <4>1
      <4> QED
        BY <4>2, <4>3, <4>4
    <3> QED
      BY <3>1, <3>2
  <2>5. CASE InsertMessageRow(d)
    <3> USE <2>5 DEF InsertMessageRow
    <3>1. \A c \in Deliveries : pc'[c] = "executing" => pc[c] = "executing"
      OBVIOUS
    <3>2. Keyed'
      BY <3>1
    <3>3. AdmittedOncePerStore'
      OBVIOUS
    <3>4. OneAtATime'
      BY <3>1
    <3> QED
      BY <3>2, <3>3, <3>4
  <2>6. CASE RedisFails(d)
    BY <2>6 DEF RedisFails
  <2>7. CASE StoresAway(d)
    BY <2>7 DEF StoresAway
  <2>8. CASE InsertFails(d)
    BY <2>8 DEF InsertFails
  <2>9. CASE Admit(d)
    BY <2>9 DEF Admit
  <2>10. CASE Trigger(d)
    BY <2>10 DEF Trigger
  <2>11. CASE ClaimIntent(d)
    BY <2>11 DEF ClaimIntent
  <2>12. CASE Complete(d)
    BY <2>12, KeysOf, IngressAssumption DEF Complete
  <2> QED
    BY <1>1, <2>1, <2>2, <2>3, <2>4, <2>5, <2>6, <2>7, <2>8, <2>9, <2>10, <2>11, <2>12
       DEF Handle
<1>2. CASE IntentExpires
  BY <1>2, KeysOf, IngressAssumption DEF IntentExpires
<1>3. ASSUME NEW i \in Instances, Restart(i) PROVE Exclusive'
  BY <1>3 DEF Restart, Ingress
<1>4. CASE UNCHANGED vars
  BY <1>4 DEF vars, stores
<1> QED
  BY <1>1, <1>2, <1>3, <1>4 DEF Next

(* So both exclusions always hold. *)
LEMMA AlwaysExclusive == Spec => []Exclusive
  BY IngressTyped, ExclusiveInit, ExclusiveStep, PTL DEF Spec

(* Redis admits a message at most once, and so does the database, however  *)
(* often and through however many instances Slack sends it.                *)
THEOREM OncePerStore == Spec => []AdmittedOncePerStore
<1>1. Exclusive => AdmittedOncePerStore
  BY DEF Exclusive
<1> QED
  BY <1>1, AlwaysExclusive, PTL

(* No intent is executed by two invocations at the same time.              *)
THEOREM IntentsExclusive == Spec => []OneAtATime
<1>1. Exclusive => OneAtATime
  BY DEF Exclusive
<1> QED
  BY <1>1, AlwaysExclusive, PTL

-----------------------------------------------------------------------------
(* Nothing is lost                                                         *)

(* A delivery that keeps the message alive, for good or for the time being. *)
Answered(m) == \E c \in Deliveries : Message(c) = m /\ (Admitted(c) \/ c \in hit)
OnItsWay(c) == pc[c] \in {"message", "messageRow"}
Carried(m) ==
  \E c \in Deliveries : Message(c) = m /\ (Admitted(c) \/ OnItsWay(c) \/ c \in hit)

Known(k) == k \in redis \/ k \in rows \/ \E i \in Instances : k \in memory[i]

(* A key is set by a delivery that carries its message on; the key of a    *)
(* message by one that was admitted.                                       *)
Traced ==
  /\ \A e \in Events : Known(e) => Carried(MessageOf[e])
  /\ \A m \in Messages : Known(m) => Answered(m)
  /\ NothingLost

(* What a step must do to keep the trace: admit or fail no fewer, carry on *)
(* what is on its way, and answer for the keys it sets and the deliveries  *)
(* it drops.                                                               *)
LEMMA TraceKept ==
  ASSUME Traced,
         \A c \in Deliveries : Admitted(c) => Admitted(c)',
         hit \subseteq hit',
         \A c \in Deliveries : OnItsWay(c) => OnItsWay(c)' \/ Answered(Message(c))',
         \A e \in Events : Known(e)' => Known(e) \/ Carried(MessageOf[e])',
         \A m \in Messages : Known(m)' => Known(m) \/ Answered(m)',
         \A d \in Deliveries :
           answer'[d] = "duplicate" => answer[d] = "duplicate" \/ Carried(Message(d))'
  PROVE  Traced'
<1>1. ASSUME NEW m, Answered(m) PROVE Answered(m)'
  BY <1>1 DEF Answered, Message
<1>2. ASSUME NEW m, Answered(m)' PROVE Carried(m)'
  BY <1>2 DEF Answered, Carried
<1>3. ASSUME NEW m, Carried(m) PROVE Carried(m)'
  <2>1. PICK c \in Deliveries : Message(c) = m /\ (Admitted(c) \/ OnItsWay(c) \/ c \in hit)
    BY <1>3 DEF Carried
  <2>2. Message(c)' = Message(c)
    BY DEF Message
  <2> QED
    BY <1>2, <2>1, <2>2 DEF Carried
<1>4. NothingLost'
  <2>1. ASSUME NEW d \in Deliveries, answer'[d] = "duplicate" PROVE Carried(Message(d))'
    <3>1. answer[d] = "duplicate" => Carried(Message(d))
      BY DEF Traced, NothingLost, Carried, OnItsWay
    <3> QED
      BY <1>3, <2>1, <3>1 DEF Message
  <2> QED
    BY <2>1 DEF NothingLost, Carried, OnItsWay
<1> QED
  BY <1>1, <1>3, <1>4 DEF Traced

(* At first no key is set, and nothing is dropped. *)
LEMMA TraceInit == Init => Traced
  BY DEF Init, Traced, Known, NothingLost

(* Every step keeps the trace. *)
LEMMA TraceStep == TypeOK /\ Traced /\ [Next]_vars => Traced'
<1> SUFFICES ASSUME TypeOK, Traced, [Next]_vars PROVE Traced'
  OBVIOUS
<1> DEFINE Persist ==
      /\ \A c \in Deliveries : Admitted(c) => Admitted(c)'
      /\ hit \subseteq hit'
      /\ \A c \in Deliveries : OnItsWay(c) => OnItsWay(c)' \/ Answered(Message(c))'
    EventsTraced ==
      \A e \in Events : Known(e)' => Known(e) \/ Carried(MessageOf[e])'
    MessagesTraced ==
      \A m \in Messages : Known(m)' => Known(m) \/ Answered(m)'
    DropsTraced ==
      \A d \in Deliveries :
        answer'[d] = "duplicate" => answer[d] = "duplicate" \/ Carried(Message(d))'
<1>k. ASSUME Persist, EventsTraced, MessagesTraced, DropsTraced PROVE Traced'
  BY <1>k, TraceKept
<1> HIDE DEF Persist, EventsTraced, MessagesTraced, DropsTraced
<1>1. ASSUME NEW d \in Deliveries, Handle(d) PROVE Traced'
  <2>m. EventOf[d] \in Events /\ Message(d) \in Messages /\ Intent(d) \in Intents
        /\ MessageOf[EventOf[d]] = Message(d) /\ Message(d)' = Message(d)
    BY KeysOf DEF Message
  <2> USE <2>m, IngressAssumption
      DEF TypeOK, Goto, Reply, Remember, Fails, NotSet, KeyAt, stores, Admitted, OnItsWay, Known
  <2>1. CASE Deliver(d)
    <3>1. Persist /\ EventsTraced /\ MessagesTraced /\ DropsTraced
      BY <2>1 DEF Deliver, Persist, EventsTraced, MessagesTraced, DropsTraced
    <3> QED
      BY <1>k, <3>1
  <2>2. CASE SetEventKey(d)
    <3>1. EventOf[d] \in redis => Carried(Message(d))
      BY DEF Traced
    <3>2. Persist /\ MessagesTraced
      BY <2>2 DEF SetEventKey, Persist, MessagesTraced
    <3>3. Carried(Message(d))'
      BY <2>2, <3>1, <3>2 DEF SetEventKey, Carried, Message, Persist
    <3>4. EventsTraced /\ DropsTraced
      BY <2>2, <3>3 DEF SetEventKey, EventsTraced, DropsTraced
    <3> QED
      BY <1>k, <3>2, <3>4
  <2>3. CASE InsertEventRow(d)
    <3>1. EventOf[d] \in rows => Carried(Message(d))
      BY DEF Traced
    <3>2. Persist /\ MessagesTraced
      BY <2>3 DEF InsertEventRow, Persist, MessagesTraced
    <3>3. Carried(Message(d))'
      BY <2>3, <3>1, <3>2 DEF InsertEventRow, Carried, Message, Persist
    <3>4. EventsTraced /\ DropsTraced
      BY <2>3, <3>3 DEF InsertEventRow, EventsTraced, DropsTraced
    <3> QED
      BY <1>k, <3>2, <3>4
  <2>4. CASE SetMessageKey(d)
    <3>1. Message(d) \in redis => Answered(Message(d))
      BY DEF Traced
    <3>2. Answered(Message(d))'
      BY <2>4, <3>1 DEF SetMessageKey, AdmitOn, Answered, Message
    <3>3. Persist /\ EventsTraced /\ MessagesTraced
      BY <2>4, <3>2 DEF SetMessageKey, AdmitOn, Persist, EventsTraced, MessagesTraced
    <3>4. DropsTraced
      BY <2>4, <3>2 DEF SetMessageKey, AdmitOn, DropsTraced, Answered, Carried
    <3> QED
      BY <1>k, <3>3, <3>4
  <2>5. CASE InsertMessageRow(d)
    <3>1. Message(d) \in rows => Answered(Message(d))
      BY DEF Traced
    <3>2. Answered(Message(d))'
      BY <2>5, <3>1 DEF InsertMessageRow, Answered, Message
    <3>3. Persist /\ EventsTraced /\ MessagesTraced
      BY <2>5, <3>2 DEF InsertMessageRow, Persist, EventsTraced, MessagesTraced
    <3>4. DropsTraced
      BY <2>5, <3>2 DEF InsertMessageRow, DropsTraced, Answered, Carried
    <3> QED
      BY <1>k, <3>3, <3>4
  <2>6. CASE RedisFails(d) \/ StoresAway(d) \/ InsertFails(d)
    <3>1. Answered(Message(d))' /\ Carried(Message(d))'
      BY <2>6 DEF RedisFails, StoresAway, InsertFails, Answered, Carried
    <3>2. Persist
      BY <2>6, <3>1 DEF RedisFails, StoresAway, InsertFails, Persist
    <3>3. EventsTraced
      BY <2>6, <3>1 DEF RedisFails, StoresAway, InsertFails, EventsTraced
    <3>4. MessagesTraced
      BY <2>6, <3>1 DEF RedisFails, StoresAway, InsertFails, MessagesTraced
    <3>5. DropsTraced
      BY <2>6, <3>1 DEF RedisFails, StoresAway, InsertFails, DropsTraced
    <3> QED
      BY <1>k, <3>2, <3>3, <3>4, <3>5
  <2>7. CASE Admit(d) \/ Trigger(d)
    <3>1. Persist /\ EventsTraced /\ MessagesTraced /\ DropsTraced
      BY <2>7 DEF Admit, Trigger, Persist, EventsTraced, MessagesTraced, DropsTraced
    <3> QED
      BY <1>k, <3>1
  <2>8. CASE ClaimIntent(d) \/ Complete(d)
    <3>1. Persist /\ EventsTraced /\ MessagesTraced /\ DropsTraced
      BY <2>8 DEF ClaimIntent, Complete, Persist, EventsTraced, MessagesTraced, DropsTraced
    <3> QED
      BY <1>k, <3>1
  <2> QED
    BY <1>1, <2>1, <2>2, <2>3, <2>4, <2>5, <2>6, <2>7, <2>8 DEF Handle
<1>2. CASE IntentExpires
  <2>1. Persist /\ EventsTraced /\ MessagesTraced /\ DropsTraced
    BY <1>2 DEF IntentExpires, Known, Admitted, OnItsWay,
                Persist, EventsTraced, MessagesTraced, DropsTraced
  <2> QED
    BY <1>k, <2>1
<1>3. ASSUME NEW i \in Instances, Restart(i) PROVE Traced'
  <2>1. EventsTraced /\ MessagesTraced /\ DropsTraced
    BY <1>3 DEF TypeOK, Restart, Known, EventsTraced, MessagesTraced, DropsTraced
  <2>2. \A c \in Deliveries : OnItsWay(c) => OnItsWay(c)' \/ c \in hit'
    BY <1>3 DEF TypeOK, Restart, OnItsWay
  <2>3. Persist
    BY <1>3, <2>2 DEF Restart, Admitted, Answered, Message, Persist
  <2> QED
    BY <1>k, <2>1, <2>3
<1>4. CASE UNCHANGED vars
  <2>1. Persist /\ EventsTraced /\ MessagesTraced /\ DropsTraced
    BY <1>4 DEF vars, stores, Known, Admitted, OnItsWay,
                Persist, EventsTraced, MessagesTraced, DropsTraced
  <2> QED
    BY <1>k, <2>1
<1> QED
  BY <1>1, <1>2, <1>3, <1>4 DEF Next

(* A delivery is dropped as a duplicate only if its message was admitted,  *)
(* still may be, or met a failure on one of its ways.                      *)
THEOREM NothingLostWithoutFailure == Spec => []NothingLost
<1>1. Traced => NothingLost
  BY DEF Traced
<1> QED
  BY <1>1, IngressTyped, TraceInit, TraceStep, PTL DEF Spec

-----------------------------------------------------------------------------
(* The dashboard: rate limit, passwords and locks.                         *)

(* What a request can be. *)
Request ==
  [pc : {"idle"} \cup InLimiter \cup InAuth \cup Answers, pw : Password, typed : BOOLEAN,
   over : BOOLEAN, at : Servers \cup {None}, hold : {0} \cup Objects]

(* The requests whose wrong password is not counted in Redis yet. *)
Pending == {q \in Requests : req[q].pc \in {"failed", "count"}}

(* Who is past the lock check is at an instance; who has compared a wrong  *)
(* password holds the attempt it is counted in.                            *)
Served ==
  \A q \in Requests :
    /\ req[q].pc \in InAuth \ {"auth"} => req[q].at \in Servers
    /\ req[q].pc \in {"failed", "count", "lock"} => req[q].hold # 0

(* As long as fewer wrong passwords than lock an address were compared, no *)
(* counter has more of them, those still to be counted included, and       *)
(* nobody is about to lock it.                                             *)
Counted ==
  wrongs < MaxFailed =>
    /\ failed.n + Cardinality(Pending) <= wrongs
    /\ \A o \in Objects : attempt[o].count <= wrongs
    /\ \A q \in Requests : req[q].pc # "lock"

LockInv == DashTyped /\ LockNeedsFailures /\ Served /\ Counted

(* The sets are finite, and there are as many names for attempts as        *)
(* instances and requests, none of them 0.                                 *)
LEMMA Finiteness ==
  /\ IsFiniteSet(Requests) /\ IsFiniteSet(Servers) /\ IsFiniteSet(Objects)
  /\ Cardinality(Requests) \in Nat /\ Cardinality(Servers) \in Nat
  /\ Cardinality(Objects) = Cardinality(Servers) + Cardinality(Requests)
  /\ Objects \subseteq Nat \ {0}
<1>1. IsFiniteSet({"status", "logs"})
  <2>1. IsFiniteSet({"status"} \cup {"logs"})
    BY FS_Singleton, FS_AddElement
  <2> QED BY <2>1
<1>2. IsFiniteSet(Requests)
  BY <1>1, FS_Product, DashboardAssumption DEF Requests
<1>3. Cardinality(Requests) \in Nat /\ Cardinality(Servers) \in Nat
  BY <1>2, FS_CardinalityType, DashboardAssumption
<1>4. IsFiniteSet(Objects) /\ Cardinality(Objects) = Cardinality(Servers) + Cardinality(Requests)
  <2> DEFINE n == Cardinality(Servers) + Cardinality(Requests)
  <2>1. n \in Nat
    BY <1>3
  <2> HIDE DEF n
  <2>2. IsFiniteSet(1..n) /\ Cardinality(1..n) = n
    BY <2>1, FS_Interval
  <2> QED BY <2>2 DEF n, Objects
<1>5. Objects \subseteq Nat \ {0}
  BY <1>3 DEF Objects
<1> QED BY <1>2, <1>3, <1>4, <1>5, DashboardAssumption

(* An instance that knows no attempt of the address leaves a name free.    *)
LEMMA UnusedIsFree ==
  ASSUME DashTyped, NEW i \in Servers, attempts[i] = 0
  PROVE  Unused \in Objects
<1> DEFINE A == {attempts[j] : j \in Servers \ {i}}
           B == {req[q].hold : q \in Requests}
           f == [j \in Servers \ {i} |-> attempts[j]]
           g == [q \in Requests |-> req[q].hold]
<1>1. IsFiniteSet(Servers \ {i}) /\ Cardinality(Servers \ {i}) = Cardinality(Servers) - 1
  BY Finiteness, FS_RemoveElement
<1>2. f \in Surjection(Servers \ {i}, A)
  BY DEF Surjection
<1>3. IsFiniteSet(A) /\ Cardinality(A) <= Cardinality(Servers) - 1
  <2> HIDE DEF f, A
  <2> QED BY <1>1, <1>2, FS_Surjection
<1>4. g \in Surjection(Requests, B)
  BY DEF Surjection
<1>5. IsFiniteSet(B) /\ Cardinality(B) <= Cardinality(Requests)
  <2> HIDE DEF g, B
  <2> QED BY <1>4, Finiteness, FS_Surjection
<1>6. IsFiniteSet(A \cup B) /\ Cardinality(A \cup B) < Cardinality(Objects)
  <2> HIDE DEF A, B
  <2>1. IsFiniteSet(A \cup B)
        /\ Cardinality(A \cup B) = Cardinality(A) + Cardinality(B) - Cardinality(A \cap B)
    BY <1>3, <1>5, FS_Union
  <2>2. IsFiniteSet(A \cap B)
    BY <1>3, FS_Intersection
  <2>3. Cardinality(A) \in Nat /\ Cardinality(B) \in Nat /\ Cardinality(A \cap B) \in Nat
    BY <1>3, <1>5, <2>2, FS_CardinalityType
  <2> QED BY <1>3, <1>5, <2>1, <2>3, Finiteness
<1>7. ~(Objects \subseteq A \cup B)
  <2> HIDE DEF A, B
  <2>1. SUFFICES ASSUME Objects \subseteq A \cup B PROVE FALSE
    OBVIOUS
  <2>2. Cardinality(Objects) <= Cardinality(A \cup B)
    BY <1>6, <2>1, FS_Subset
  <2>3. Cardinality(A \cup B) \in Nat
    BY <1>6, FS_CardinalityType
  <2> QED BY <1>6, <2>2, <2>3, Finiteness
<1>8. PICK o \in Objects : o \notin A \cup B
  BY <1>7
<1>9. o # 0
  BY <1>8, Finiteness
<1>10. \A j \in Servers : attempts[j] # o
  BY <1>8, <1>9
<1>11. \A q \in Requests : req[q].hold # o
  BY <1>8
<1> QED BY <1>8, <1>10, <1>11 DEF Unused

(* The pending requests are finitely many; one that leaves them makes room *)
(* for one.                                                                *)
LEMMA Counting ==
  ASSUME NEW P \in SUBSET Requests, NEW Q \in SUBSET Requests, NEW q
  PROVE  /\ Cardinality(P) \in Nat /\ Cardinality(Q) \in Nat
         /\ Q \subseteq P => Cardinality(Q) <= Cardinality(P)
         /\ Q \subseteq P \cup {q} => Cardinality(Q) <= Cardinality(P) + 1
         /\ q \in P /\ Q \subseteq P \ {q} => Cardinality(Q) <= Cardinality(P) - 1
         /\ q \in P => Cardinality(P) >= 1
<1>1. IsFiniteSet(P) /\ IsFiniteSet(Q)
  BY Finiteness, FS_Subset
<1>2. Cardinality(P) \in Nat /\ Cardinality(Q) \in Nat
  BY <1>1, FS_CardinalityType
<1>3. Q \subseteq P => Cardinality(Q) <= Cardinality(P)
  BY <1>1, FS_Subset
<1>4. Q \subseteq P \cup {q} => Cardinality(Q) <= Cardinality(P) + 1
  <2> DEFINE R == P \cup {q}
  <2>0. IsFiniteSet(R) /\ Cardinality(R) = IF q \in P THEN Cardinality(P) ELSE Cardinality(P) + 1
    BY <1>1, FS_AddElement
  <2>1. IsFiniteSet(R) /\ Cardinality(R) <= Cardinality(P) + 1
    <3> HIDE DEF R
    <3> QED BY <1>2, <2>0
  <2>2. Q \subseteq R => Cardinality(Q) <= Cardinality(R)
    BY <2>1, FS_Subset
  <2>3. Cardinality(R) \in Nat
    BY <2>1, FS_CardinalityType
  <2> HIDE DEF R
  <2>4. Q \subseteq R => Cardinality(Q) <= Cardinality(P) + 1
    BY <1>2, <2>1, <2>2, <2>3
  <2> QED BY <2>4 DEF R
<1>5. q \in P /\ Q \subseteq P \ {q} => Cardinality(Q) <= Cardinality(P) - 1
  <2>1. IsFiniteSet(P \ {q}) /\ (q \in P => Cardinality(P \ {q}) = Cardinality(P) - 1)
    BY <1>1, FS_RemoveElement
  <2>2. Q \subseteq P \ {q} => Cardinality(Q) <= Cardinality(P \ {q})
    BY <2>1, FS_Subset
  <2> QED BY <2>1, <2>2
<1>6. q \in P => Cardinality(P) >= 1
  <2>1. q \in P => Cardinality(P) # 0
    BY <1>1, FS_EmptySet
  <2> QED BY <1>2, <2>1
<1> QED BY <1>2, <1>3, <1>4, <1>5, <1>6

-----------------------------------------------------------------------------
(* A step that changes one request leaves the others served.               *)
LEMMA OneRequest ==
  ASSUME DashTyped, Served, NEW q \in Requests, NEW r \in Request,
         req' = [req EXCEPT ![q] = r],
         r.pc \in InAuth \ {"auth"} => r.at \in Servers,
         r.pc \in {"failed", "count", "lock"} => r.hold # 0
  PROVE  /\ req' \in [Requests -> Request] /\ Served'
         /\ req'[q] = r /\ \A o \in Requests \ {q} : req'[o] = req[o]
<1>1. req \in [Requests -> Request]
  BY DEF DashTyped, Request
<1>2. req' \in [Requests -> Request] /\ req'[q] = r /\ \A o \in Requests \ {q} : req'[o] = req[o]
  BY <1>1
<1>3. \A o \in Requests : o = q \/ o \in Requests \ {q}
  OBVIOUS
<1> QED BY <1>2, <1>3 DEF Served

(* A step that compares no wrong password, and nobody goes to count or to  *)
(* lock by it, keeps the counters below what was compared.                 *)
LEMMA QuietStep ==
  ASSUME LockInv, wrongs' = wrongs, failed' = failed \/ failed' = Gone,
         \A q \in Requests :
           /\ req'[q].pc \in {"failed", "count"} => req[q].pc \in {"failed", "count"}
           /\ req'[q].pc = "lock" => req[q].pc = "lock",
         lock' => lock,
         \A o \in Objects :
           /\ attempt'[o].count = 0 \/ attempt'[o].count = attempt[o].count
           /\ attempt'[o].locked => attempt[o].locked
  PROVE  Counted' /\ LockNeedsFailures'
<1>1. LockNeedsFailures'
  BY DEF LockInv, LockNeedsFailures
<1>2. CASE wrongs < MaxFailed
  <2>1. Pending \in SUBSET Requests /\ Pending' \in SUBSET Requests /\ Pending' \subseteq Pending
    BY DEF Pending
  <2>2. Cardinality(Pending') <= Cardinality(Pending)
        /\ Cardinality(Pending') \in Nat /\ Cardinality(Pending) \in Nat
    BY <2>1, Counting
  <2>3. failed.n \in Nat /\ failed'.n \in Nat /\ failed'.n <= failed.n /\ wrongs \in Nat
    BY DashboardAssumption DEF LockInv, DashTyped, Counter, Gone
  <2>4. failed'.n + Cardinality(Pending') <= wrongs
    BY <1>2, <2>2, <2>3 DEF LockInv, Counted
  <2>5. \A o \in Objects : attempt'[o].count <= wrongs
    BY <1>2, <2>3 DEF LockInv, Counted
  <2>6. \A q \in Requests : req'[q].pc # "lock"
    BY <1>2 DEF LockInv, Counted
  <2> QED BY <1>1, <2>4, <2>5, <2>6 DEF Counted
<1> QED BY <1>1, <1>2 DEF Counted

(* What happens at the pages and on the way keeps the invariant.           *)
LEMMA PageStep ==
  ASSUME LockInv,
         \/ \E p \in Pages : Refresh(p) \/ PollLogs(p) \/ Logout(p) \/ Reload(p)
         \/ \E p \in Pages, pw \in {"wrong", "right"} : Type(p, pw)
         \/ \E q \in Requests : Receive(q) \/ Lost(q)
  PROVE  LockInv'
<1>1. req \in [Requests -> Request] /\ Served /\ DashTyped /\ LockNeedsFailures /\ Counted
  BY DEF LockInv, DashTyped, Request
<1>2. \A p \in Pages : Status(p) \in Requests /\ Logs(p) \in Requests
  BY DEF Requests, Status, Logs
<1>3. \A q \in Requests : q[1] \in Pages /\ q[2] \in {"status", "logs"}
  BY DEF Requests
<1>4. Idle \in Request /\ \A pw \in Password, t \in BOOLEAN :
        Asking(pw, t) \in Request /\ Asking(pw, t).pc = "limit"
  BY DEF Idle, Request, Asking, Password, InLimiter
<1>5. ASSUME NEW q \in Requests, NEW pw \in Password, NEW t \in BOOLEAN, Send(q, pw, t),
             slips' \in 0..MaxSlips
      PROVE  LockInv'
  <2>1. req' = [req EXCEPT ![q] = Asking(pw, t)]
    BY <1>5 DEF Send
  <2>2. /\ req' \in [Requests -> Request] /\ Served'
        /\ req'[q] = Asking(pw, t) /\ \A o \in Requests \ {q} : req'[o] = req[o]
    BY <1>1, <1>4, <2>1, OneRequest DEF InAuth
  <2>3. DashTyped'
    BY <1>1, <1>5, <2>2 DEF DashTyped, Send, pages, counters, remembered, Request
  <2>4. \A o \in Requests : req'[o].pc \in {"failed", "count", "lock"} => req'[o] = req[o]
    BY <1>4, <2>2
  <2>5. Counted' /\ LockNeedsFailures'
    BY <1>5, <2>4, QuietStep DEF Send, counters, remembered
  <2> QED BY <2>2, <2>3, <2>5 DEF LockInv
<1>6. ASSUME NEW p \in Pages, Refresh(p) \/ PollLogs(p)
      PROVE  LockInv'
  <2>1. stored[p] \in Password /\ slips \in 0..MaxSlips
    BY <1>1 DEF DashTyped
  <2>2. slips' \in 0..MaxSlips
    <3>1. slips' = slips \/ Slip
      BY <1>6 DEF Refresh, PollLogs
    <3> QED BY <2>1, <3>1, DashboardAssumption DEF Slip
  <2> QED BY <1>2, <1>5, <1>6, <2>1, <2>2 DEF Refresh, PollLogs
<1>7. ASSUME NEW p \in Pages, NEW pw \in {"wrong", "right"}, Type(p, pw)
      PROVE  LockInv'
  <2>1. pw \in Password /\ slips \in 0..MaxSlips
    BY <1>1 DEF DashTyped, Password
  <2>2. slips' \in 0..MaxSlips
    BY <1>7, <2>1, DashboardAssumption DEF Type, Slip
  <2> QED BY <1>2, <1>5, <1>7, <2>1, <2>2 DEF Type
<1>8. ASSUME NEW p \in Pages, Logout(p)
      PROVE  LockInv'
  <2>1. DashTyped'
    BY <1>1, <1>8, DashboardAssumption
    DEF DashTyped, Logout, Slip, counters, remembered, Password
  <2>2. Served' /\ req' = req
    BY <1>1, <1>8 DEF Logout, Served
  <2>3. Counted' /\ LockNeedsFailures'
    BY <1>8, <2>2, QuietStep DEF Logout, counters, remembered
  <2> QED BY <2>1, <2>2, <2>3 DEF LockInv
<1>9. ASSUME NEW p \in Pages, Reload(p)
      PROVE  LockInv'
  <2>1. kept \in Password
    BY <1>1 DEF DashTyped
  <2>2. \A k \in {"status", "logs"} :
          Mounted(kept)[k] \in Request /\ Mounted(kept)[k].pc \in {"idle", "limit"}
    <3>1. Idle.pc = "idle" /\ Asking(kept, FALSE) \in Request /\ Asking(kept, FALSE).pc = "limit"
      BY <1>4, <2>1 DEF Idle
    <3>2. \A k \in {"status", "logs"} : Mounted(kept)[k] \in {Idle, Asking(kept, FALSE)}
      BY DEF Mounted
    <3> QED BY <1>4, <3>1, <3>2
  <2>3. \A q \in Requests :
          /\ req'[q] \in Request
          /\ req'[q] = req[q] \/ req'[q].pc \in {"idle", "limit"}
    BY <1>1, <1>3, <1>9, <2>2 DEF Reload
  <2>4. req' \in [Requests -> Request]
    BY <1>9, <2>3 DEF Reload
  <2>5. DashTyped'
    BY <1>1, <1>9, <2>4, DashboardAssumption
    DEF DashTyped, Reload, Slip, counters, remembered, Request
  <2>6. Served'
    BY <1>1, <2>3 DEF Served, InAuth
  <2>7. Counted' /\ LockNeedsFailures'
    BY <1>9, <2>3, QuietStep DEF Reload, counters, remembered
  <2> QED BY <2>5, <2>6, <2>7 DEF LockInv
<1>10. ASSUME NEW q \in Requests, Receive(q)
       PROVE  LockInv'
  <2>1. PICK r \in {Idle, Asking(req[q].pw, FALSE)} : req' = [req EXCEPT ![q] = r]
    BY <1>10 DEF Receive
  <2>2. req[q].pw \in Password /\ q[1] \in Pages
    BY <1>1, <1>3 DEF Request
  <2>3. r \in Request /\ r.pc \in {"idle", "limit"}
    <3>1. Idle.pc = "idle"
          /\ Asking(req[q].pw, FALSE) \in Request /\ Asking(req[q].pw, FALSE).pc = "limit"
      BY <1>4, <2>2 DEF Idle
    <3> QED BY <1>4, <2>1, <3>1
  <2>4. /\ req' \in [Requests -> Request] /\ Served'
        /\ req'[q] = r /\ \A o \in Requests \ {q} : req'[o] = req[o]
    BY <1>1, <2>1, <2>3, OneRequest DEF InAuth
  <2>5. gate' \in [Pages -> BOOLEAN] /\ stored' \in [Pages -> Password] /\ kept' \in Password
    BY <1>1, <1>10, <2>2 DEF DashTyped, Receive
  <2>6. DashTyped'
    BY <1>1, <1>10, <2>4, <2>5 DEF DashTyped, Receive, counters, remembered, Request
  <2>7. \A o \in Requests : req'[o].pc \in {"failed", "count", "lock"} => req'[o] = req[o]
    BY <2>3, <2>4
  <2>8. Counted' /\ LockNeedsFailures'
    BY <1>10, <2>7, QuietStep DEF Receive, counters, remembered
  <2> QED BY <2>4, <2>6, <2>8 DEF LockInv
<1>11. ASSUME NEW q \in Requests, Lost(q)
       PROVE  LockInv'
  <2>1. req' = [req EXCEPT ![q] = Idle]
    BY <1>11 DEF Lost
  <2>2. /\ req' \in [Requests -> Request] /\ Served'
        /\ req'[q] = Idle /\ \A o \in Requests \ {q} : req'[o] = req[o]
    BY <1>1, <1>4, <2>1, OneRequest DEF InAuth, Idle
  <2>3. DashTyped'
    BY <1>1, <1>11, <2>2, DashboardAssumption
    DEF DashTyped, Lost, Fault, pages, counters, remembered, Request
  <2>4. \A o \in Requests : req'[o].pc \in {"failed", "count", "lock"} => req'[o] = req[o]
    BY <2>2 DEF Idle
  <2>5. Counted' /\ LockNeedsFailures'
    BY <1>11, <2>4, QuietStep DEF Lost, counters, remembered
  <2> QED BY <2>2, <2>3, <2>5 DEF LockInv
<1> QED BY <1>6, <1>7, <1>8, <1>9, <1>10, <1>11

(* The rate limit keeps the invariant.                                     *)
LEMMA LimiterStep ==
  ASSUME LockInv, NEW q \in Requests, SetHit(q) \/ IncrHit(q) \/ TtlOfHits(q) \/ Closed(q)
  PROVE  LockInv'
<1>1. req \in [Requests -> Request] /\ Served /\ DashTyped
  BY DEF LockInv, DashTyped, Request
<1>2. PICK r : /\ r \in Request
               /\ req' = [req EXCEPT ![q] = r]
               /\ r.pc \in {"incr", "pttl", "429", "auth", "503"}
  <2>1. SetHit(q) \/ TtlOfHits(q) \/ Closed(q) =>
          \E x \in {"incr", "pttl", "429", "auth", "503"} : Proceed(q, x)
    BY DEF SetHit, TtlOfHits, Closed
  <2>2. ASSUME NEW x \in {"incr", "pttl", "429", "auth", "503"}, Proceed(q, x)
        PROVE  req' = [req EXCEPT ![q] = [req[q] EXCEPT !.pc = x]]
               /\ [req[q] EXCEPT !.pc = x] \in Request
               /\ [req[q] EXCEPT !.pc = x].pc = x
    BY <1>1, <2>2 DEF Proceed, Request, InLimiter, InAuth, Answers
  <2>3. ASSUME IncrHit(q)
        PROVE  LET r == [req[q] EXCEPT !.pc = "pttl", !.over = hits.n + 1 > MaxHits]
               IN  req' = [req EXCEPT ![q] = r] /\ r \in Request /\ r.pc = "pttl"
    <3> DEFINE b == hits.n + 1 > MaxHits
    <3>1. b \in BOOLEAN /\ req' = [req EXCEPT ![q].pc = "pttl", ![q].over = b]
      BY <2>3 DEF IncrHit
    <3> HIDE DEF b
    <3>2. [req[q] EXCEPT !.pc = "pttl", !.over = b] \in Request
          /\ [req[q] EXCEPT !.pc = "pttl", !.over = b].pc = "pttl"
      BY <1>1, <3>1 DEF Request, InLimiter
    <3> QED BY <3>1, <3>2 DEF b
  <2> QED BY <2>1, <2>2, <2>3
<1>3. /\ req' \in [Requests -> Request] /\ Served'
      /\ req'[q] = r /\ \A o \in Requests \ {q} : req'[o] = req[o]
  BY <1>1, <1>2, OneRequest DEF InAuth
<1>4. hits' \in Counter(MaxHits + 1)
  <2>1. hits \in Counter(MaxHits + 1)
    BY <1>1 DEF DashTyped
  <2>2. SetHit(q) => hits' = hits \/ hits' = [n |-> 1, ttl |-> TRUE]
    BY DEF SetHit
  <2>3. IncrHit(q) => hits' \in Counter(MaxHits + 1)
    BY <2>1, DashboardAssumption DEF IncrHit, Counter, AtMost
  <2>4. TtlOfHits(q) => hits' \in Counter(MaxHits + 1)
    BY <2>1 DEF TtlOfHits, Counter
  <2>5. Closed(q) => hits' = hits
    BY DEF Closed
  <2>6. [n |-> 1, ttl |-> TRUE] \in Counter(MaxHits + 1)
    BY DashboardAssumption DEF Counter
  <2> QED BY <2>1, <2>2, <2>3, <2>4, <2>5, <2>6
<1>5. UNCHANGED <<pages, failed, lock, remembered, slips, wrongs>> /\ failures' \in 0..MaxFailures
  BY <1>1, DashboardAssumption
  DEF DashTyped, SetHit, IncrHit, TtlOfHits, Closed, Limiter, Fault
<1>6. DashTyped'
  BY <1>1, <1>3, <1>4, <1>5 DEF DashTyped, pages, remembered, Request
<1>7. \A o \in Requests : req'[o].pc \in {"failed", "count", "lock"} => req'[o] = req[o]
  BY <1>2, <1>3
<1>8. Counted' /\ LockNeedsFailures'
  BY <1>5, <1>7, QuietStep DEF remembered
<1> QED BY <1>3, <1>6, <1>8 DEF LockInv

-----------------------------------------------------------------------------
(* An answer ends a request.                                               *)
LEMMA AnswerEnds ==
  ASSUME DashTyped, Served, NEW q \in Requests, NEW a \in Answers, Answer(q, a)
  PROVE  /\ req' \in [Requests -> Request] /\ Served'
         /\ req'[q].pc = a /\ \A o \in Requests \ {q} : req'[o] = req[o]
<1> DEFINE r == [Idle EXCEPT !.pc = a, !.typed = req[q].typed,
                             !.pw = IF req[q].typed THEN req[q].pw ELSE "none"]
<1>1. req \in [Requests -> Request]
  BY DEF DashTyped, Request
<1>2. r \in Request /\ r.pc = a
  BY <1>1 DEF Idle, Request, Password
<1>3. req' = [req EXCEPT ![q] = r]
  BY DEF Answer
<1>4. r.pc \notin InAuth
  BY <1>2 DEF Answers, InAuth
<1> HIDE DEF r
<1> QED BY <1>2, <1>3, <1>4, OneRequest DEF InAuth

(* The collection of attempts leaves an attempt as it is, or blank.        *)
LEMMA Collected ==
  ASSUME NEW x \in [Objects -> [count : 0..MaxFailed, locked : BOOLEAN]], attempt' = Live(x)
  PROVE  /\ attempt' \in [Objects -> [count : 0..MaxFailed, locked : BOOLEAN]]
         /\ \A o \in Objects : attempt'[o] = x[o] \/ attempt'[o] = Blank
         /\ Blank.count = 0 /\ Blank.locked = FALSE
<1>1. Blank \in [count : 0..MaxFailed, locked : BOOLEAN] /\ Blank.count = 0 /\ Blank.locked = FALSE
  BY DashboardAssumption DEF Blank
<1>2. \A o \in Objects : attempt'[o] = x[o] \/ attempt'[o] = Blank
  BY DEF Live
<1>3. attempt' = [o \in Objects |-> attempt'[o]]
  BY DEF Live
<1> QED BY <1>1, <1>2, <1>3

(* The lock check, a password that is missing or right, and the reset keep *)
(* the invariant.                                                          *)
LEMMA LetInStep ==
  ASSUME LockInv, NEW q \in Requests,
         \/ \E i \in Servers, heard \in BOOLEAN : LockCheck(q, i, heard)
         \/ NoPassword(q) \/ RightPassword(q)
         \/ \E heard \in BOOLEAN : Reset(q, heard)
  PROVE  LockInv'
<1>1. req \in [Requests -> Request] /\ Served /\ DashTyped
  BY DEF LockInv, DashTyped, Request
<1> DEFINE Kept == /\ UNCHANGED <<pages, hits, slips, wrongs>> /\ failures' \in 0..MaxFailures
                   /\ failed' = failed \/ failed' = Gone
                   /\ lock' \in BOOLEAN /\ (lock' => lock)
<1>2. Kept
  <2>1. failures \in 0..MaxFailures /\ lock \in BOOLEAN
    BY <1>1 DEF DashTyped
  <2>2. Fault \/ failures' = failures => failures' \in 0..MaxFailures
    BY <2>1, DashboardAssumption DEF Fault
  <2>3. ASSUME NEW i \in Servers, NEW heard \in BOOLEAN, LockCheck(q, i, heard)
        PROVE  Kept
    BY <2>1, <2>2, <2>3 DEF LockCheck, AuthStep
  <2>4. NoPassword(q) \/ RightPassword(q) => Kept
    BY <2>1 DEF NoPassword, RightPassword, AuthStep
  <2>5. ASSUME NEW heard \in BOOLEAN, Reset(q, heard)
        PROVE  Kept
    <3>1. UNCHANGED <<pages, hits, slips, wrongs>> /\ failures' \in 0..MaxFailures
      BY <2>2, <2>5 DEF Reset, AuthStep
    <3>2. failed' = failed \/ failed' = Gone
      BY <2>5 DEF Reset
    <3>3. lock' = (lock /\ ~heard)
      BY <2>5 DEF Reset
    <3> QED BY <2>1, <3>1, <3>2, <3>3
  <2> HIDE DEF Kept
  <2> QED BY <2>3, <2>4, <2>5
<1> DEFINE Handled ==
             /\ req' \in [Requests -> Request] /\ Served'
             /\ req'[q].pc \notin {"failed", "count", "lock"}
             /\ \A o \in Requests \ {q} : req'[o] = req[o]
<1>3. Handled
  <2>1. ASSUME NEW a \in Answers, Answer(q, a)
        PROVE  Handled
    BY <1>1, <2>1, AnswerEnds DEF Answers
  <2>2. ASSUME NEW i \in Servers, req' = [req EXCEPT ![q].pc = "compare", ![q].at = i]
        PROVE  Handled
    <3> DEFINE r == [req[q] EXCEPT !.pc = "compare", !.at = i]
    <3>1. r \in Request /\ r.pc = "compare" /\ r.at = i
      BY <1>1 DEF Request, InAuth
    <3>2. req' = [req EXCEPT ![q] = r]
      BY <2>2
    <3> HIDE DEF r
    <3> QED BY <1>1, <3>1, <3>2, OneRequest DEF InAuth
  <2>3. ASSUME req[q].pc = "compare", Proceed(q, "reset")
        PROVE  Handled
    <3> DEFINE r == [req[q] EXCEPT !.pc = "reset"]
    <3>1. r \in Request /\ r.pc = "reset" /\ r.at \in Servers
      BY <1>1, <2>3 DEF Request, InAuth, Served
    <3>2. req' = [req EXCEPT ![q] = r]
      BY <2>3 DEF Proceed
    <3> HIDE DEF r
    <3> QED BY <1>1, <3>1, <3>2, OneRequest DEF InAuth
  <2> QED BY <2>1, <2>2, <2>3 DEF LockCheck, NoPassword, RightPassword, Reset, Answers
<1>4. /\ attempts' \in [Servers -> {0} \cup Objects]
      /\ attempt' \in [Objects -> [count : 0..MaxFailed, locked : BOOLEAN]]
      /\ \A o \in Objects :
           /\ attempt'[o].count = 0 \/ attempt'[o].count = attempt[o].count
           /\ attempt'[o].locked => attempt[o].locked
  <2>1. CASE UNCHANGED remembered
    BY <1>1, <2>1 DEF remembered, DashTyped
  <2>2. CASE RightPassword(q)
    BY <1>1, <2>2, Collected DEF RightPassword, DashTyped
  <2> QED BY <2>1, <2>2 DEF LockCheck, NoPassword, Reset
<1>5. failed' \in Counter(MaxFailed)
  <2>1. failed \in Counter(MaxFailed) /\ Gone \in Counter(MaxFailed)
    BY <1>1, DashboardAssumption DEF DashTyped, Counter, Gone
  <2> QED BY <1>2, <2>1
<1>6. DashTyped'
  BY <1>1, <1>2, <1>3, <1>4, <1>5 DEF DashTyped, pages, Request
<1>7. \A o \in Requests : req'[o].pc \in {"failed", "count", "lock"} => req'[o] = req[o]
  BY <1>3
<1>8. Counted' /\ LockNeedsFailures'
  BY <1>2, <1>4, <1>7, QuietStep
<1> QED BY <1>3, <1>6, <1>8 DEF LockInv

(* A wrong password is one more that was compared, one more in its attempt *)
(* and one more that is pending.                                           *)
LEMMA WrongStep ==
  ASSUME LockInv, NEW q \in Requests, WrongPassword(q)
  PROVE  LockInv'
<1>1. req \in [Requests -> Request] /\ Served /\ DashTyped /\ Counted /\ LockNeedsFailures
  BY DEF LockInv, DashTyped, Request
<1> DEFINE mine == IF attempts[req[q].at] = 0 THEN Unused ELSE attempts[req[q].at]
           r == [req[q] EXCEPT !.pc = "failed", !.hold = mine]
<1>2. req[q].pc = "compare" /\ req[q].at \in Servers
  BY <1>1 DEF WrongPassword, Served, InAuth
<1>3. mine \in Objects
  <2>1. CASE attempts[req[q].at] = 0
    BY <1>1, <1>2, <2>1, UnusedIsFree
  <2>2. CASE attempts[req[q].at] # 0
    BY <1>1, <1>2, <2>2 DEF DashTyped
  <2> QED BY <2>1, <2>2
<1>4. /\ req' = [req EXCEPT ![q] = r]
      /\ attempt' = [attempt EXCEPT ![mine].count = AtMost(@ + 1, MaxFailed)]
      /\ wrongs' = AtMost(wrongs + 1, MaxFailed)
      /\ UNCHANGED <<pages, hits, slips, attempts, failed, lock, failures>>
  BY DEF WrongPassword, AuthStep
<1> HIDE DEF mine
<1>5. r \in Request /\ r.pc = "failed" /\ r.at \in Servers /\ r.hold # 0
  BY <1>1, <1>2, <1>3, Finiteness DEF Request, InAuth
<1> HIDE DEF r
<1>6. /\ req' \in [Requests -> Request] /\ Served'
      /\ req'[q] = r /\ \A o \in Requests \ {q} : req'[o] = req[o]
  BY <1>1, <1>4, <1>5, OneRequest
<1>7. wrongs \in 0..MaxFailed /\ wrongs' \in 0..MaxFailed /\ MaxFailed \in Nat \ {0}
  BY <1>1, <1>4, DashboardAssumption DEF DashTyped, AtMost
<1>8. /\ attempt' \in [Objects -> [count : 0..MaxFailed, locked : BOOLEAN]]
      /\ \A o \in Objects : attempt'[o].locked = attempt[o].locked
      /\ \A o \in Objects : attempt'[o].count <= attempt[o].count + 1
                            /\ attempt[o].count \in Nat /\ attempt'[o].count \in Nat
  BY <1>1, <1>3, <1>4, <1>7 DEF DashTyped, AtMost
<1>9. DashTyped'
  BY <1>1, <1>4, <1>6, <1>7, <1>8 DEF DashTyped, pages, Request
<1>10. wrongs' = IF wrongs < MaxFailed THEN wrongs + 1 ELSE MaxFailed
  BY <1>4, <1>7 DEF AtMost
<1>11. LockNeedsFailures'
  BY <1>1, <1>4, <1>7, <1>8, <1>10 DEF LockNeedsFailures
<1>12. ASSUME wrongs' < MaxFailed
       PROVE  /\ failed'.n + Cardinality(Pending') <= wrongs'
              /\ \A o \in Objects : attempt'[o].count <= wrongs'
              /\ \A o \in Requests : req'[o].pc # "lock"
  <2>1. wrongs < MaxFailed /\ wrongs' = wrongs + 1
    BY <1>7, <1>10, <1>12
  <2>2. Pending \in SUBSET Requests /\ Pending' \in SUBSET Requests /\ Pending' \subseteq Pending \cup {q}
    BY <1>6 DEF Pending
  <2>3. Cardinality(Pending') <= Cardinality(Pending) + 1
        /\ Cardinality(Pending') \in Nat /\ Cardinality(Pending) \in Nat
    BY <2>2, Counting
  <2>4. failed'.n = failed.n /\ failed.n \in Nat
    BY <1>1, <1>4 DEF DashTyped, Counter
  <2>5. /\ failed.n + Cardinality(Pending) <= wrongs
        /\ \A o \in Objects : attempt[o].count <= wrongs
        /\ \A o \in Requests : req[o].pc # "lock"
    BY <1>1, <2>1 DEF Counted
  <2>6. failed'.n + Cardinality(Pending') <= wrongs'
    BY <1>7, <2>1, <2>3, <2>4, <2>5
  <2>7. \A o \in Objects : attempt'[o].count <= wrongs'
    BY <1>7, <1>8, <2>1, <2>5
  <2>8. ASSUME NEW o \in Requests PROVE req'[o].pc # "lock"
    <3>1. CASE o = q
      BY <1>5, <1>6, <3>1
    <3>2. CASE o # q
      BY <1>6, <2>5, <3>2
    <3> QED BY <3>1, <3>2
  <2> QED BY <2>6, <2>7, <2>8
<1>13. Counted'
  BY <1>12 DEF Counted
<1> QED BY <1>6, <1>9, <1>11, <1>13 DEF LockInv

(* Whoever judges a failure by a number that is no larger than what was    *)
(* compared locks only when it may, and is no longer pending.              *)
LEMMA Judged ==
  ASSUME LockInv, NEW q \in Requests, req[q].pc \in {"failed", "count"},
         NEW n \in Nat, Judge(q, n), n >= MaxFailed => wrongs = MaxFailed,
         failed' \in Counter(MaxFailed), failed'.n <= failed.n + 1,
         failures' \in 0..MaxFailures, UNCHANGED <<pages, hits, slips, lock, wrongs>>
  PROVE  LockInv'
<1>1. req \in [Requests -> Request] /\ Served /\ DashTyped /\ Counted /\ LockNeedsFailures
  BY DEF LockInv, DashTyped, Request
<1> DEFINE Attempts == [Objects -> [count : 0..MaxFailed, locked : BOOLEAN]]
<1>2. req[q].at \in Servers /\ req[q].hold \in Objects
  BY <1>1 DEF Served, InAuth, Request
<1>3. /\ attempt \in Attempts /\ attempts \in [Servers -> {0} \cup Objects]
      /\ wrongs \in 0..MaxFailed /\ MaxFailed \in Nat \ {0}
  BY <1>1, DashboardAssumption DEF DashTyped
<1>4. CASE n >= MaxFailed
  <2> DEFINE r == [req[q] EXCEPT !.pc = "lock"]
  <2>1. /\ req' = [req EXCEPT ![q] = r] /\ attempts' = attempts
        /\ attempt' = [attempt EXCEPT ![req[q].hold].locked = TRUE]
    BY <1>4 DEF Judge, Proceed
  <2>2. r \in Request /\ r.pc = "lock" /\ r.at \in Servers /\ r.hold # 0
    BY <1>1, <1>2, Finiteness DEF Request, InAuth
  <2> HIDE DEF r
  <2>3. req' \in [Requests -> Request] /\ Served'
    BY <1>1, <2>1, <2>2, OneRequest
  <2>4. attempt' \in Attempts
    BY <1>2, <1>3, <2>1
  <2>5. DashTyped'
    BY <1>1, <2>1, <2>3, <2>4 DEF DashTyped, pages, Request
  <2>6. LockNeedsFailures' /\ Counted'
    BY <1>3, <1>4 DEF LockNeedsFailures, Counted
  <2> QED BY <2>3, <2>5, <2>6 DEF LockInv
<1>5. CASE ~(n >= MaxFailed)
  <2>1. /\ Answer(q, "401") /\ attempt' = Live(attempt)
        /\ attempts' = [attempts EXCEPT ![req[q].at] = req[q].hold]
    BY <1>5 DEF Judge
  <2>2. /\ req' \in [Requests -> Request] /\ Served'
        /\ req'[q].pc = "401" /\ \A o \in Requests \ {q} : req'[o] = req[o]
    BY <1>1, <2>1, AnswerEnds DEF Answers
  <2>3. /\ attempt' \in Attempts
        /\ \A o \in Objects :
             /\ attempt'[o].count = 0 \/ attempt'[o].count = attempt[o].count
             /\ attempt'[o].locked => attempt[o].locked
    BY <1>3, <2>1, Collected
  <2>4. attempts' \in [Servers -> {0} \cup Objects]
    BY <1>2, <1>3, <2>1
  <2>5. DashTyped'
    BY <1>1, <2>2, <2>3, <2>4 DEF DashTyped, pages, Request
  <2>6. LockNeedsFailures'
    BY <1>1, <2>3 DEF LockNeedsFailures
  <2>7. ASSUME wrongs < MaxFailed
        PROVE  /\ failed'.n + Cardinality(Pending') <= wrongs
               /\ \A o \in Objects : attempt'[o].count <= wrongs
               /\ \A o \in Requests : req'[o].pc # "lock"
    <3>1. /\ failed.n + Cardinality(Pending) <= wrongs
          /\ \A o \in Objects : attempt[o].count <= wrongs
          /\ \A o \in Requests : req[o].pc # "lock"
      BY <1>1, <2>7 DEF Counted
    <3>2. /\ Pending \in SUBSET Requests /\ Pending' \in SUBSET Requests
          /\ q \in Pending /\ Pending' \subseteq Pending \ {q}
      BY <2>2 DEF Pending
    <3>3. Cardinality(Pending') <= Cardinality(Pending) - 1
          /\ Cardinality(Pending') \in Nat /\ Cardinality(Pending) \in Nat
      BY <3>2, Counting
    <3>4. failed.n \in Nat /\ failed'.n \in Nat
      BY <1>1 DEF DashTyped, Counter
    <3>5. failed'.n + Cardinality(Pending') <= wrongs
      BY <1>3, <3>1, <3>3, <3>4
    <3>6. \A o \in Objects : attempt'[o].count <= wrongs
      BY <1>3, <2>3, <3>1
    <3>7. ASSUME NEW o \in Requests PROVE req'[o].pc # "lock"
      <4>1. CASE o = q
        BY <2>2, <4>1
      <4>2. CASE o # q
        BY <2>2, <3>1, <4>2
      <4> QED BY <4>1, <4>2
    <3> QED BY <3>5, <3>6, <3>7
  <2>8. Counted'
    BY <2>7 DEF Counted
  <2> QED BY <2>2, <2>5, <2>6, <2>8 DEF LockInv
<1> QED BY <1>4, <1>5

(* A failure is judged by what Redis counts or, if it is not heard, by the *)
(* attempt of the instance. Redis has one less than is compared as long as *)
(* the failure at hand is pending.                                         *)
LEMMA FailureStep ==
  ASSUME LockInv, NEW q \in Requests, SetFailure(q) \/ CountFailure(q) \/ CountAlone(q)
  PROVE  LockInv'
<1>1. req \in [Requests -> Request] /\ Served /\ DashTyped /\ Counted
  BY DEF LockInv, DashTyped, Request
<1>2. /\ req[q].pc \in {"failed", "count"} /\ req[q].hold \in Objects /\ req[q].at \in Servers
      /\ UNCHANGED <<pages, hits, slips, lock, wrongs>>
  BY <1>1 DEF SetFailure, CountFailure, CountAlone, Served, InAuth, Request, AuthStep
<1>3. /\ failed \in Counter(MaxFailed) /\ failed.n \in 0..MaxFailed /\ failures \in 0..MaxFailures
      /\ wrongs \in 0..MaxFailed /\ MaxFailed \in Nat \ {0} /\ MaxFailures \in Nat
      /\ attempt[req[q].hold].count \in 0..MaxFailed
  BY <1>1, <1>2, DashboardAssumption DEF DashTyped, Counter
<1>4. wrongs < MaxFailed => failed.n + 1 <= wrongs /\ attempt[req[q].hold].count <= wrongs
  <2>1. Pending \in SUBSET Requests /\ q \in Pending
    BY <1>2 DEF Pending
  <2>2. Cardinality(Pending) \in Nat /\ Cardinality(Pending) >= 1
    BY <2>1, Counting
  <2> QED BY <1>1, <1>2, <1>3, <2>2 DEF Counted
<1>5. CASE SetFailure(q) /\ failed = Gone
  <2>1. /\ failed' = [n |-> 1, ttl |-> TRUE] /\ Judge(q, 1) /\ failures' = failures
    BY <1>5 DEF SetFailure
  <2>2. failed.n = 0 /\ failed'.n = 1 /\ failed' \in Counter(MaxFailed)
    BY <1>3, <1>5, <2>1 DEF Gone, Counter
  <2>3. 1 >= MaxFailed => wrongs = MaxFailed
    BY <1>3, <1>4, <2>2
  <2> QED BY <1>2, <1>3, <2>1, <2>2, <2>3, Judged
<1>6. CASE SetFailure(q) /\ failed # Gone
  <2> DEFINE r == [req[q] EXCEPT !.pc = "count"]
  <2>1. req' = [req EXCEPT ![q] = r] /\ UNCHANGED <<failed, remembered, failures>>
    BY <1>6 DEF SetFailure, Proceed
  <2>2. r \in Request /\ r.pc = "count" /\ r.at \in Servers /\ r.hold # 0
    BY <1>1, <1>2, Finiteness DEF Request, InAuth
  <2> HIDE DEF r
  <2>3. /\ req' \in [Requests -> Request] /\ Served'
        /\ req'[q] = r /\ \A o \in Requests \ {q} : req'[o] = req[o]
    BY <1>1, <2>1, <2>2, OneRequest
  <2>4. DashTyped'
    BY <1>1, <1>2, <2>1, <2>3 DEF DashTyped, pages, remembered, Request
  <2>5. ASSUME NEW o \in Requests
        PROVE  /\ req'[o].pc \in {"failed", "count"} => req[o].pc \in {"failed", "count"}
               /\ req'[o].pc = "lock" => req[o].pc = "lock"
    <3>1. CASE o = q
      BY <1>2, <2>2, <2>3, <3>1
    <3>2. CASE o # q
      BY <2>3, <3>2
    <3> QED BY <3>1, <3>2
  <2>6. Counted' /\ LockNeedsFailures'
    BY <1>2, <2>1, <2>5, QuietStep DEF remembered
  <2> QED BY <2>3, <2>4, <2>6 DEF LockInv
<1>7. CASE CountFailure(q)
  <2>1. /\ failed' = [failed EXCEPT !.n = AtMost(@ + 1, MaxFailed)]
        /\ Judge(q, failed.n + 1) /\ failures' = failures
    BY <1>7 DEF CountFailure
  <2>2. failed'.n <= failed.n + 1 /\ failed' \in Counter(MaxFailed)
    BY <1>3, <2>1 DEF AtMost, Counter
  <2>3. failed.n + 1 >= MaxFailed => wrongs = MaxFailed
    BY <1>3, <1>4
  <2>4. failed.n + 1 \in Nat
    BY <1>3
  <2> QED BY <1>2, <1>3, <2>1, <2>2, <2>3, <2>4, Judged
<1>8. CASE CountAlone(q)
  <2>1. failed' = failed /\ Judge(q, attempt[req[q].hold].count) /\ Fault
    BY <1>8 DEF CountAlone
  <2>2. failures' \in 0..MaxFailures /\ failed'.n <= failed.n + 1 /\ failed' \in Counter(MaxFailed)
    BY <1>3, <2>1 DEF Fault
  <2>3. attempt[req[q].hold].count >= MaxFailed => wrongs = MaxFailed
    BY <1>3, <1>4
  <2>4. attempt[req[q].hold].count \in Nat
    BY <1>3
  <2> QED BY <1>2, <2>1, <2>2, <2>3, <2>4, Judged
<1> QED BY <1>5, <1>6, <1>7, <1>8

(* The address is locked by whoever was about to.                          *)
LEMMA LockOutStep ==
  ASSUME LockInv, NEW q \in Requests, NEW heard \in BOOLEAN, LockOut(q, heard)
  PROVE  LockInv'
<1>1. req \in [Requests -> Request] /\ Served /\ DashTyped /\ Counted
  BY DEF LockInv, DashTyped, Request
<1>2. /\ Answer(q, "401") /\ attempt' = Live(attempt)
      /\ attempts' = [attempts EXCEPT ![req[q].at] = req[q].hold]
      /\ lock' = (lock \/ heard) /\ req[q].pc = "lock"
      /\ UNCHANGED <<pages, hits, slips, failed, wrongs>>
      /\ failures' = failures \/ Fault
  BY DEF LockOut, AuthStep
<1>3. req' \in [Requests -> Request] /\ Served'
  BY <1>1, <1>2, AnswerEnds DEF Answers
<1>4. attempts' \in [Servers -> {0} \cup Objects]
  <2>1. req[q].at \in Servers /\ req[q].hold \in Objects
    BY <1>1, <1>2 DEF Served, InAuth, Request
  <2> QED BY <1>1, <1>2, <2>1 DEF DashTyped
<1>5. attempt' \in [Objects -> [count : 0..MaxFailed, locked : BOOLEAN]]
  BY <1>1, <1>2, Collected DEF DashTyped
<1>6. failures' \in 0..MaxFailures
  BY <1>1, <1>2, DashboardAssumption DEF Fault, DashTyped
<1>7. lock' \in BOOLEAN
  BY <1>2
<1>8. DashTyped'
  BY <1>1, <1>2, <1>3, <1>4, <1>5, <1>6, <1>7 DEF DashTyped, pages, Request
<1>9. wrongs = MaxFailed
  <2>1. wrongs \in 0..MaxFailed /\ MaxFailed \in Nat
    BY <1>1, DashboardAssumption DEF DashTyped
  <2> QED BY <1>1, <1>2, <2>1 DEF Counted
<1>10. MaxFailed \in Nat
  BY DashboardAssumption
<1>11. LockNeedsFailures' /\ Counted'
  BY <1>2, <1>9, <1>10 DEF LockNeedsFailures, Counted
<1> QED BY <1>3, <1>8, <1>11 DEF LockInv

(* Expiries and recycled instances keep the invariant.                     *)
LEMMA ElapseStep ==
  ASSUME LockInv,
         \/ HitsExpire \/ FailuresExpire \/ LockExpires
         \/ \E o \in Objects : MemoryLockExpires(o)
         \/ \E i \in Servers : Recycle(i)
  PROVE  LockInv'
<1>1. req \in [Requests -> Request] /\ Served /\ DashTyped
  BY DEF LockInv, DashTyped, Request
<1>2. Gone \in Counter(MaxHits + 1) /\ Gone \in Counter(MaxFailed)
  BY DashboardAssumption DEF Counter, Gone
<1>3. CASE HitsExpire \/ FailuresExpire \/ LockExpires
  <2>1. UNCHANGED <<pages, req, remembered, slips, failures, wrongs>>
    BY <1>3 DEF HitsExpire, FailuresExpire, LockExpires
  <2>2. /\ hits' = hits \/ hits' = Gone
        /\ failed' = failed \/ failed' = Gone
        /\ lock' = lock \/ lock' = FALSE
    BY <1>3 DEF HitsExpire, FailuresExpire, LockExpires
  <2>3. hits' \in Counter(MaxHits + 1) /\ failed' \in Counter(MaxFailed) /\ lock' \in BOOLEAN
    BY <1>1, <1>2, <2>2 DEF DashTyped
  <2>4. DashTyped'
    BY <1>1, <2>1, <2>3 DEF DashTyped, pages, remembered
  <2>5. Served'
    BY <1>1, <2>1 DEF Served
  <2>6. lock' => lock
    BY <2>2
  <2>7. Counted' /\ LockNeedsFailures'
    BY <2>1, <2>2, <2>6, QuietStep DEF remembered
  <2> QED BY <2>4, <2>5, <2>7 DEF LockInv
<1>4. ASSUME NEW o \in Objects, MemoryLockExpires(o)
      PROVE  LockInv'
  <2>1. /\ UNCHANGED <<pages, req, counters, attempts, slips, failures, wrongs>>
        /\ attempt' = [attempt EXCEPT ![o].locked = FALSE]
    BY <1>4 DEF MemoryLockExpires
  <2>2. DashTyped'
    BY <1>1, <2>1 DEF DashTyped, pages, counters
  <2>3. Served'
    BY <1>1, <2>1 DEF Served
  <2>4. \A a \in Objects : /\ attempt'[a].count = attempt[a].count
                           /\ attempt'[a].locked => attempt[a].locked
    BY <1>1, <2>1 DEF DashTyped
  <2>5. Counted' /\ LockNeedsFailures'
    BY <2>1, <2>4, QuietStep DEF counters
  <2> QED BY <2>2, <2>3, <2>5 DEF LockInv
<1>5. ASSUME NEW i \in Servers, Recycle(i)
      PROVE  LockInv'
  <2>1. /\ req' = [q \in Requests |-> IF req[q].at = i THEN Idle ELSE req[q]]
        /\ attempt' = Live(attempt) /\ attempts' = [attempts EXCEPT ![i] = 0]
        /\ UNCHANGED <<pages, counters, slips, wrongs>> /\ Fault
    BY <1>5 DEF Recycle
  <2>2. Idle \in Request /\ Idle.pc = "idle"
    BY DEF Idle, Request, Password
  <2>3. \A q \in Requests : req'[q] = Idle \/ req'[q] = req[q]
    BY <2>1
  <2>4. req' \in [Requests -> Request]
    BY <1>1, <2>1, <2>2
  <2>5. Served'
    BY <1>1, <2>2, <2>3 DEF Served, InAuth
  <2>6. attempts' \in [Servers -> {0} \cup Objects] /\ failures' \in 0..MaxFailures
    BY <1>1, <2>1, DashboardAssumption DEF DashTyped, Fault
  <2>7. /\ attempt' \in [Objects -> [count : 0..MaxFailed, locked : BOOLEAN]]
        /\ \A o \in Objects :
             /\ attempt'[o].count = 0 \/ attempt'[o].count = attempt[o].count
             /\ attempt'[o].locked => attempt[o].locked
    BY <1>1, <2>1, Collected DEF DashTyped
  <2>8. DashTyped'
    BY <1>1, <2>1, <2>4, <2>6, <2>7 DEF DashTyped, pages, counters, Request
  <2>9. Counted' /\ LockNeedsFailures'
    BY <2>1, <2>2, <2>3, <2>7, QuietStep DEF counters
  <2> QED BY <2>5, <2>8, <2>9 DEF LockInv
<1> QED BY <1>3, <1>4, <1>5

-----------------------------------------------------------------------------
(* A page is opened at an address without failures.                        *)
LEMMA LockStart == DashInit => LockInv
<1> SUFFICES ASSUME DashInit PROVE LockInv
  OBVIOUS
<1>1. \A q \in Requests : q[1] \in Pages /\ q[2] \in {"status", "logs"}
  BY DEF Requests
<1>2. \A q \in Requests : req[q] \in Request /\ req[q].pc \in {"idle", "limit"}
  <2>1. /\ Idle \in Request /\ Idle.pc = "idle"
        /\ Asking(kept, FALSE) \in Request /\ Asking(kept, FALSE).pc = "limit"
    BY DEF DashInit, Idle, Request, Asking, Password, InLimiter
  <2>2. \A k \in {"status", "logs"} : Mounted(kept)[k] \in {Idle, Asking(kept, FALSE)}
    BY DEF Mounted
  <2>3. \A q \in Requests : req[q] = Mounted(kept)[q[2]]
    BY DEF DashInit
  <2> QED BY <1>1, <2>1, <2>2, <2>3
<1>3. req \in [Requests -> Request]
  BY <1>2 DEF DashInit
<1>4. /\ Gone \in Counter(MaxHits + 1) /\ Gone \in Counter(MaxFailed) /\ Gone.n = 0
      /\ Blank \in [count : 0..MaxFailed, locked : BOOLEAN]
      /\ Blank.count = 0 /\ Blank.locked = FALSE
  BY DashboardAssumption DEF Counter, Gone, Blank
<1>5. DashTyped
  <2>1. kept \in Password /\ stored \in [Pages -> Password] /\ gate \in [Pages -> BOOLEAN]
    BY DEF DashInit
  <2>2. /\ attempts \in [Servers -> {0} \cup Objects]
        /\ attempt \in [Objects -> [count : 0..MaxFailed, locked : BOOLEAN]]
    BY <1>4 DEF DashInit
  <2>3. /\ hits \in Counter(MaxHits + 1) /\ failed \in Counter(MaxFailed) /\ lock \in BOOLEAN
        /\ slips \in 0..MaxSlips /\ failures \in 0..MaxFailures /\ wrongs \in 0..MaxFailed
    <3>1. hits = Gone /\ failed = Gone /\ lock = FALSE
      BY DEF DashInit
    <3>2. slips \in 0..MaxSlips /\ failures \in 0..MaxFailures /\ wrongs \in 0..MaxFailed
      BY DashboardAssumption DEF DashInit
    <3> QED BY <1>4, <3>1, <3>2
  <2> QED BY <1>3, <2>1, <2>2, <2>3 DEF DashTyped, Request
<1>6. Served
  BY <1>2 DEF Served, InAuth
<1>7. LockNeedsFailures
  BY <1>4 DEF DashInit, LockNeedsFailures
<1>8. Counted
  <2>1. Pending = {}
    BY <1>2 DEF Pending
  <2>2. Cardinality(Pending) = 0
    BY <2>1, FS_EmptySet
  <2> QED BY <1>2, <1>4, <2>2 DEF DashInit, Counted
<1> QED BY <1>5, <1>6, <1>7, <1>8 DEF LockInv

(* Every step keeps the invariant.                                         *)
LEMMA LockStep == LockInv /\ [DashNext]_dashboard => LockInv'
<1> SUFFICES ASSUME LockInv, [DashNext]_dashboard PROVE LockInv'
  OBVIOUS
<1>1. ASSUME NEW q \in Requests, Serve(q) \/ Trouble(q)
      PROVE  LockInv'
  <2>1. CASE Lost(q)
    BY <2>1, PageStep
  <2>2. CASE SetHit(q) \/ IncrHit(q) \/ TtlOfHits(q) \/ Closed(q)
    BY <2>2, LimiterStep
  <2>3. CASE \/ \E i \in Servers, heard \in BOOLEAN : LockCheck(q, i, heard)
             \/ NoPassword(q) \/ RightPassword(q)
             \/ \E heard \in BOOLEAN : Reset(q, heard)
    BY <2>3, LetInStep
  <2>4. CASE WrongPassword(q)
    BY <2>4, WrongStep
  <2>5. CASE SetFailure(q) \/ CountFailure(q) \/ CountAlone(q)
    BY <2>5, FailureStep
  <2>6. CASE LockOut(q, TRUE) \/ LockOut(q, FALSE)
    BY <2>6, LockOutStep
  <2> QED BY <1>1, <2>1, <2>2, <2>3, <2>4, <2>5, <2>6 DEF Serve, Trouble
<1>2. CASE UNCHANGED dashboard
  <2>1. UNCHANGED <<req, failed, lock, attempts, attempt, wrongs>>
        /\ UNCHANGED <<kept, stored, gate, hits, slips, failures>>
    BY <1>2 DEF dashboard, pages, counters, remembered
  <2>2. DashTyped' /\ Served'
    BY <2>1 DEF LockInv, DashTyped, Served
  <2>3. Counted' /\ LockNeedsFailures'
    BY <2>1, QuietStep
  <2> QED BY <2>2, <2>3 DEF LockInv
<1>3. CASE DashNext
  BY <1>1, <1>3, PageStep, ElapseStep DEF DashNext
<1> QED BY <1>2, <1>3

(* An address is locked, at an instance or in Redis, only after            *)
(* MAX_FAILED_ATTEMPTS wrong passwords were compared, whatever expires,    *)
(* fails or is recycled between the commands of however many requests, on  *)
(* any number of instances; and all state keeps its type.                  *)
(* requireDashboardAuth and recordAuthFailure, auth.ts.                    *)
THEOREM LockedByFailures == DashSpec => []Safety
<1>1. LockInv => Safety
  BY DEF LockInv, Safety
<1> QED BY <1>1, LockStart, LockStep, PTL DEF DashSpec
=============================================================================
