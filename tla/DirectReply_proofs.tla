------------------------- MODULE DirectReply_proofs -------------------------
(***************************************************************************)
(* Proofs about Semaphore and about DirectReply, which is built on it.     *)
(*                                                                         *)
(* Semaphore, for any callers: permits are conserved, nobody waits while   *)
(* one is free, and nobody is overtaken.                                   *)
(*                                                                         *)
(* DirectReply, for any replies, readers, permits and window: the replies  *)
(* use the semaphore by its rules, so that all that is proved of it holds  *)
(* of them; a reply works with a permit only and gives it back; settled    *)
(* exchanges are not forgotten, and what was posted and noted is not       *)
(* posted again.                                                           *)
(***************************************************************************)
EXTENDS DirectReply, FiniteSetTheorems, SequenceTheorems, TLAPS

USE DEF Local

-----------------------------------------------------------------------------
(* The semaphore. The elements of a queue.                                 *)
Queued(q) == {q[k] : k \in DOMAIN q}

(* The queue names every waiter, once. Without "once" a release could hand *)
(* the permit to a caller that holds one.                                  *)
QueueInv ==
  /\ Waiters = Queued(queue)
  /\ \A j, k \in DOMAIN queue : queue[j] = queue[k] => j = k

SemaphoreInv ==
  /\ SemTypeOK /\ QueueInv
  /\ queue # <<>> => permits = 0
  /\ IsFiniteSet(Holders) /\ PermitsConserved

-----------------------------------------------------------------------------
(* Taking one element out of a queue of distinct elements leaves a queue   *)
(* of the other ones.                                                      *)
LEMMA RemoveOne ==
  ASSUME NEW q \in Seq(Callers), \A j, k \in DOMAIN q : q[j] = q[k] => j = k,
         NEW i \in DOMAIN q
  PROVE  /\ RemoveAt(q, i) \in Seq(Callers)
         /\ Queued(RemoveAt(q, i)) = Queued(q) \ {q[i]}
         /\ \A j, k \in DOMAIN RemoveAt(q, i) : RemoveAt(q, i)[j] = RemoveAt(q, i)[k] => j = k
<1> DEFINE a == SubSeq(q, 1, i - 1)
           b == SubSeq(q, i + 1, Len(q))
           r == RemoveAt(q, i)
<1>1. i \in 1..Len(q) /\ DOMAIN q = 1..Len(q) /\ Len(q) \in Nat
  OBVIOUS
<1>2. a \in Seq(Callers) /\ Len(a) = i - 1 /\ \A k \in 1..(i - 1) : a[k] = q[k]
  BY <1>1, SubSeqProperties
<1>3. /\ b \in Seq(Callers) /\ Len(b) = Len(q) - i
      /\ \A k \in 1..(Len(q) - i) : b[k] = q[i + k]
  BY <1>1, SubSeqProperties
<1>joined. r = a \o b
  BY DEF RemoveAt
<1> HIDE DEF a, b, r
<1>both. /\ r \in Seq(Callers) /\ Len(r) = Len(a) + Len(b)
         /\ \A k \in 1..(Len(a) + Len(b)) : r[k] = IF k <= Len(a) THEN a[k] ELSE b[k - Len(a)]
  <2>1. a \in Seq(Callers) /\ b \in Seq(Callers)
    BY <1>2, <1>3
  <2> QED
    BY <1>joined, <2>1, ConcatProperties, Zenon
<1>4. /\ r \in Seq(Callers) /\ Len(r) = Len(q) - 1
      /\ \A k \in 1..(Len(q) - 1) : r[k] = IF k < i THEN q[k] ELSE q[k + 1]
  <2>1. r \in Seq(Callers) /\ Len(r) = Len(q) - 1
    BY <1>1, <1>2, <1>3, <1>both
  <2>2. ASSUME NEW k \in 1..(Len(q) - 1) PROVE r[k] = IF k < i THEN q[k] ELSE q[k + 1]
    <3>1. r[k] = IF k <= i - 1 THEN a[k] ELSE b[k - (i - 1)]
      BY <1>1, <1>2, <1>3, <1>both, <2>2
    <3>2. CASE k < i
      BY <1>1, <1>2, <3>1, <3>2
    <3>3. CASE k >= i
      <4>1. k - (i - 1) \in 1..(Len(q) - i) /\ i + (k - (i - 1)) = k + 1
        BY <1>1, <3>3, <2>2
      <4> QED
        BY <1>1, <1>3, <3>1, <3>3, <4>1
    <3> QED
      BY <1>1, <2>2, <3>2, <3>3
  <2> QED
    BY <2>1, <2>2
<1>5. DOMAIN r = 1..(Len(q) - 1)
  BY <1>4
<1>6. Queued(r) \subseteq Queued(q) \ {q[i]}
  BY <1>1, <1>4, <1>5 DEF Queued
<1>7. ASSUME NEW k \in DOMAIN q, k # i PROVE q[k] \in Queued(r)
  <2>1. CASE k < i
    BY <1>1, <1>4, <1>5, <2>1 DEF Queued
  <2>2. CASE k > i
    <3>1. k - 1 \in DOMAIN r /\ r[k - 1] = q[k]
      BY <1>1, <1>4, <1>5, <2>2
    <3> QED
      BY <3>1 DEF Queued
  <2> QED
    BY <1>1, <1>7, <2>1, <2>2
<1>8. Queued(q) \ {q[i]} \subseteq Queued(r)
  BY <1>7 DEF Queued
<1>9. ASSUME NEW j \in DOMAIN r, NEW k \in DOMAIN r, r[j] = r[k] PROVE j = k
  <2> DEFINE at(n) == IF n < i THEN n ELSE n + 1
  <2>1. at(j) \in DOMAIN q /\ at(k) \in DOMAIN q /\ r[j] = q[at(j)] /\ r[k] = q[at(k)]
    BY <1>1, <1>4, <1>5
  <2>2. at(j) = at(k)
    BY <1>9, <2>1
  <2> QED
    BY <1>1, <1>5, <2>2
<1> QED
  BY <1>4, <1>6, <1>8, <1>9 DEF r

(* So does serving its head. *)
LEMMA ServeHead ==
  ASSUME NEW q \in Seq(Callers), \A j, k \in DOMAIN q : q[j] = q[k] => j = k, q # <<>>
  PROVE  /\ Head(q) \in Queued(q) /\ Tail(q) \in Seq(Callers)
         /\ Queued(Tail(q)) = Queued(q) \ {Head(q)}
         /\ \A j, k \in DOMAIN Tail(q) : Tail(q)[j] = Tail(q)[k] => j = k
<1>1. /\ Len(q) \in Nat \ {0} /\ DOMAIN q = 1..Len(q) /\ Head(q) = q[1]
      /\ Tail(q) \in Seq(Callers) /\ Len(Tail(q)) = Len(q) - 1
      /\ \A k \in 1..(Len(q) - 1) : Tail(q)[k] = q[k + 1]
  BY HeadTailProperties
<1>2. DOMAIN Tail(q) = 1..(Len(q) - 1)
  BY <1>1
<1>3. Head(q) \in Queued(q)
  BY <1>1 DEF Queued
<1>4. Queued(Tail(q)) \subseteq Queued(q) \ {Head(q)}
  BY <1>1, <1>2 DEF Queued
<1>5. ASSUME NEW k \in DOMAIN q, k # 1 PROVE q[k] \in Queued(Tail(q))
  <2>1. k - 1 \in DOMAIN Tail(q) /\ Tail(q)[k - 1] = q[k]
    BY <1>1, <1>2, <1>5
  <2> QED
    BY <2>1 DEF Queued
<1>6. Queued(q) \ {Head(q)} \subseteq Queued(Tail(q))
  BY <1>1, <1>5 DEF Queued
<1>7. \A j, k \in DOMAIN Tail(q) : Tail(q)[j] = Tail(q)[k] => j = k
  BY <1>1, <1>2
<1> QED
  BY <1>1, <1>3, <1>4, <1>6, <1>7

(* And a caller that joins is the one more. *)
LEMMA JoinQueue ==
  ASSUME NEW q \in Seq(Callers), \A j, k \in DOMAIN q : q[j] = q[k] => j = k,
         NEW c \in Callers, c \notin Queued(q)
  PROVE  /\ Append(q, c) \in Seq(Callers) /\ Append(q, c) # <<>>
         /\ Queued(Append(q, c)) = Queued(q) \cup {c}
         /\ \A j, k \in DOMAIN Append(q, c) : Append(q, c)[j] = Append(q, c)[k] => j = k
<1> DEFINE r == Append(q, c)
<1>1. /\ r \in Seq(Callers) /\ r # <<>> /\ Len(r) = Len(q) + 1 /\ r[Len(q) + 1] = c
      /\ \A k \in 1..Len(q) : r[k] = q[k]
  BY AppendProperties
<1> HIDE DEF r
<1>2. Len(q) \in Nat /\ DOMAIN q = 1..Len(q) /\ DOMAIN r = 1..(Len(q) + 1)
  BY <1>1
<1>3. Queued(r) \subseteq Queued(q) \cup {c}
  BY <1>1, <1>2 DEF Queued
<1>4. Queued(q) \subseteq Queued(r) /\ c \in Queued(r)
  BY <1>1, <1>2 DEF Queued
<1>5. \A j, k \in DOMAIN r : r[j] = r[k] => j = k
  BY <1>1, <1>2 DEF Queued
<1> QED
  BY <1>1, <1>3, <1>4, <1>5 DEF r

-----------------------------------------------------------------------------
(* A release by a holder: its permit goes to the first waiter or back.     *)
LEMMA ReleaseStep ==
  ASSUME SemaphoreInv, NEW c \in Callers, lease[c] = "held",
         Release([lease EXCEPT ![c] = "released"])
  PROVE  SemaphoreInv'
<1> DEFINE d == Head(queue)
<1>1. /\ permits \in 0..MaxPermits /\ queue \in Seq(Callers)
      /\ lease \in [Callers -> {"none", "waiting", "held", "released", "refused"}]
      /\ MaxPermits \in Nat \ {0}
  BY SemaphoreAssumption DEF SemaphoreInv, SemTypeOK
<1>2. c \in Holders /\ IsFiniteSet(Holders) /\ Cardinality(Holders) \in Nat
      /\ permits + Cardinality(Holders) = MaxPermits
  BY FS_CardinalityType DEF SemaphoreInv, PermitsConserved, Holders
<1>3. /\ IsFiniteSet(Holders \ {c}) /\ Cardinality(Holders \ {c}) = Cardinality(Holders) - 1
      /\ Cardinality(Holders \ {c}) \in Nat
  BY <1>2, FS_RemoveElement, FS_CardinalityType
<1>4. CASE queue = <<>>
  <2>1. permits' = permits + 1 /\ permits' \in 0..MaxPermits
    BY <1>1, <1>2, <1>3, <1>4 DEF Release
  <2>2. lease' = [lease EXCEPT ![c] = "released"] /\ queue' = queue
    BY <1>4 DEF Release
  <2>3. SemTypeOK' /\ Holders' = Holders \ {c} /\ Waiters' = Waiters
    BY <1>1, <1>2, <2>1, <2>2 DEF SemTypeOK, Holders, Waiters
  <2>4. PermitsConserved' /\ IsFiniteSet(Holders')
    BY <1>1, <1>2, <1>3, <2>1, <2>3 DEF PermitsConserved
  <2> QED
    BY <1>4, <2>2, <2>3, <2>4 DEF SemaphoreInv, QueueInv
<1>5. CASE queue # <<>>
  <2>1. /\ queue' = Tail(queue) /\ permits' = permits /\ permits = 0
        /\ lease' = [[lease EXCEPT ![c] = "released"] EXCEPT ![d] = "held"]
    BY <1>5 DEF Release, SemaphoreInv
  <2>2. /\ d \in Queued(queue) /\ Tail(queue) \in Seq(Callers)
        /\ Queued(Tail(queue)) = Queued(queue) \ {d}
        /\ \A j, k \in DOMAIN Tail(queue) : Tail(queue)[j] = Tail(queue)[k] => j = k
    BY <1>1, <1>5, ServeHead DEF SemaphoreInv, QueueInv
  <2>3. d \in Waiters /\ d \in Callers /\ lease[d] = "waiting" /\ d # c
    BY <2>2 DEF SemaphoreInv, QueueInv, Waiters
  <2> HIDE DEF d
  <2>4. SemTypeOK' /\ Holders' = (Holders \ {c}) \cup {d} /\ Waiters' = Waiters \ {d}
    BY <1>1, <2>1, <2>2, <2>3 DEF SemTypeOK, Holders, Waiters
  <2>5. /\ IsFiniteSet((Holders \ {c}) \cup {d})
        /\ Cardinality((Holders \ {c}) \cup {d}) = Cardinality(Holders \ {c}) + 1
    <3>1. d \notin Holders \ {c}
      BY <2>3 DEF Holders
    <3> QED
      BY <1>3, <3>1, FS_AddElement
  <2>6. PermitsConserved' /\ IsFiniteSet(Holders')
    BY <1>1, <1>2, <1>3, <2>1, <2>4, <2>5 DEF PermitsConserved
  <2>7. QueueInv'
    BY <2>1, <2>2, <2>4 DEF SemaphoreInv, QueueInv, Queued
  <2> QED
    BY <2>1, <2>4, <2>6, <2>7 DEF SemaphoreInv
<1> QED
  BY <1>4, <1>5

(* A call that finds a permit, gives up at once, or joins the queue.       *)
LEMMA AcquireStep ==
  ASSUME SemaphoreInv, NEW c \in Callers, Acquire(c)
  PROVE  SemaphoreInv'
<1>1. /\ permits \in 0..MaxPermits /\ queue \in Seq(Callers) /\ MaxPermits \in Nat \ {0}
      /\ lease \in [Callers -> {"none", "waiting", "held", "released", "refused"}]
      /\ lease[c] \notin {"waiting", "held"}
  BY SemaphoreAssumption DEF SemaphoreInv, SemTypeOK, Acquire
<1>2. /\ IsFiniteSet(Holders) /\ Cardinality(Holders) \in Nat /\ c \notin Holders
      /\ permits + Cardinality(Holders) = MaxPermits
  BY <1>1, FS_CardinalityType DEF SemaphoreInv, PermitsConserved, Holders
<1>3. ASSUME permits > 0, permits' = permits - 1, lease' = [lease EXCEPT ![c] = "held"],
             queue' = queue
      PROVE  SemaphoreInv'
  <2>1. queue = <<>>
    BY <1>3 DEF SemaphoreInv
  <2>2. SemTypeOK' /\ Holders' = Holders \cup {c} /\ Waiters' = Waiters
    BY <1>1, <1>3 DEF SemTypeOK, Holders, Waiters
  <2>3. /\ IsFiniteSet(Holders \cup {c})
        /\ Cardinality(Holders \cup {c}) = Cardinality(Holders) + 1
    BY <1>2, FS_AddElement
  <2>4. PermitsConserved' /\ IsFiniteSet(Holders')
    BY <1>1, <1>2, <1>3, <2>2, <2>3 DEF PermitsConserved
  <2> QED
    BY <1>3, <2>1, <2>2, <2>4 DEF SemaphoreInv, QueueInv
<1>4. ASSUME lease' = [lease EXCEPT ![c] = "refused"], permits' = permits, queue' = queue
      PROVE  SemaphoreInv'
  <2>1. SemTypeOK' /\ Holders' = Holders /\ Waiters' = Waiters
    BY <1>1, <1>4 DEF SemTypeOK, Holders, Waiters
  <2> QED
    BY <1>4, <2>1 DEF SemaphoreInv, QueueInv, PermitsConserved
<1>5. ASSUME permits = 0, lease' = [lease EXCEPT ![c] = "waiting"], permits' = permits,
             queue' = Append(queue, c)
      PROVE  SemaphoreInv'
  <2>1. c \notin Queued(queue)
    BY <1>1 DEF SemaphoreInv, QueueInv, Waiters
  <2>2. /\ Append(queue, c) \in Seq(Callers)
        /\ Queued(Append(queue, c)) = Queued(queue) \cup {c}
        /\ \A j, k \in DOMAIN Append(queue, c) :
              Append(queue, c)[j] = Append(queue, c)[k] => j = k
    BY <1>1, <2>1, JoinQueue DEF SemaphoreInv, QueueInv
  <2>3. SemTypeOK' /\ Holders' = Holders /\ Waiters' = Waiters \cup {c}
    BY <1>1, <1>5, <2>2 DEF SemTypeOK, Holders, Waiters
  <2>4. QueueInv'
    BY <1>5, <2>2, <2>3 DEF SemaphoreInv, QueueInv, Queued
  <2> QED
    BY <1>5, <2>3, <2>4 DEF SemaphoreInv, PermitsConserved
<1> QED
  BY <1>3, <1>4, <1>5 DEF Acquire

(* A waiter whose time-out fires leaves the queue and nothing else.        *)
LEMMA TimeOutStep ==
  ASSUME SemaphoreInv, NEW c \in Callers, TimeOut(c)
  PROVE  SemaphoreInv'
<1>1. PICK i \in DOMAIN queue : queue[i] = c /\ queue' = RemoveAt(queue, i)
  BY DEF TimeOut
<1>2. /\ permits \in 0..MaxPermits /\ queue \in Seq(Callers)
      /\ lease \in [Callers -> {"none", "waiting", "held", "released", "refused"}]
      /\ lease[c] = "waiting" /\ lease' = [lease EXCEPT ![c] = "refused"] /\ permits' = permits
  BY DEF SemaphoreInv, SemTypeOK, TimeOut
<1>3. /\ queue' \in Seq(Callers) /\ Queued(queue') = Queued(queue) \ {c}
      /\ \A j, k \in DOMAIN queue' : queue'[j] = queue'[k] => j = k
  BY <1>1, <1>2, RemoveOne DEF SemaphoreInv, QueueInv
<1>4. SemTypeOK' /\ Holders' = Holders /\ Waiters' = Waiters \ {c}
  BY <1>2, <1>3 DEF SemTypeOK, Holders, Waiters
<1>5. QueueInv'
  BY <1>3, <1>4 DEF SemaphoreInv, QueueInv, Queued
<1>6. permits' = 0
  <2>1. queue # <<>>
    BY <1>1
  <2> QED
    BY <1>2, <2>1 DEF SemaphoreInv
<1> QED
  BY <1>4, <1>5, <1>6, <1>2 DEF SemaphoreInv, PermitsConserved

(* Every step preserves the invariant. *)
LEMMA SemaphoreStep == SemaphoreInv /\ [SemNext]_admission => SemaphoreInv'
<1> SUFFICES ASSUME SemaphoreInv, [SemNext]_admission PROVE SemaphoreInv'
  OBVIOUS
<1>1. CASE UNCHANGED admission
  BY <1>1 DEF admission, SemaphoreInv, SemTypeOK, QueueInv, Waiters, Holders, Queued, PermitsConserved
<1>2. ASSUME NEW c \in Callers, ReleasePermit(c) PROVE SemaphoreInv'
  BY <1>1, <1>2, ReleaseStep DEF ReleasePermit
<1> QED
  BY <1>1, <1>2, AcquireStep, TimeOutStep DEF SemNext

(* The invariant in every reachable state. *)
LEMMA SemaphoreInvariant == SemSpec => []SemaphoreInv
<1>1. SemInit => SemaphoreInv
  <2> SUFFICES ASSUME SemInit PROVE SemaphoreInv
    OBVIOUS
  <2>1. SemTypeOK /\ Holders = {} /\ Waiters = {}
    BY SemaphoreAssumption DEF SemInit, SemTypeOK, Holders, Waiters
  <2>2. QueueInv
    BY <2>1 DEF SemInit, QueueInv, Queued
  <2>3. PermitsConserved /\ IsFiniteSet(Holders)
    BY <2>1, SemaphoreAssumption, FS_EmptySet DEF SemInit, PermitsConserved
  <2> QED
    BY <2>1, <2>2, <2>3 DEF SemInit, SemaphoreInv
<1> QED
  BY <1>1, SemaphoreStep, PTL DEF SemSpec

(* Every permit, queue and lease keeps its type.                           *)
THEOREM SemaphoreTyped == SemSpec => []SemTypeOK
<1>1. SemaphoreInv => SemTypeOK
  BY DEF SemaphoreInv
<1> QED
  BY <1>1, SemaphoreInvariant, PTL

(* No permit leaks and none is made up, whatever order calls, time-outs    *)
(* and (repeated) releases come in.                                        *)
THEOREM NoPermitLeaks == SemSpec => []PermitsConserved
<1>1. SemaphoreInv => PermitsConserved
  BY DEF SemaphoreInv
<1> QED
  BY <1>1, SemaphoreInvariant, PTL

(* A free permit has no waiter, and the queue holds just the waiters.      *)
THEOREM WaitersAreServed == SemSpec => []NoIdlePermit
<1>1. SemaphoreInv => NoIdlePermit
  BY DEF SemaphoreInv, QueueInv, Queued, NoIdlePermit, SemTypeOK
<1> QED
  BY <1>1, SemaphoreInvariant, PTL

(* Permits are handed over in the order of the queue, and a call finds a   *)
(* free permit only when nobody waits.                                     *)
THEOREM FirstComeFirstServed == SemSpec => NoOvertaking
<1> DEFINE Fair == \A c \in Callers : lease[c] # "held" /\ lease'[c] = "held"
                     => queue = <<>> \/ Head(queue) = c
<1>1. SemaphoreInv /\ [SemNext]_admission => [Fair]_admission
  <2> SUFFICES ASSUME SemaphoreInv, [SemNext]_admission, NEW c \in Callers,
                      lease[c] # "held", lease'[c] = "held", queue # <<>>
               PROVE  Head(queue) = c
    OBVIOUS
  <2>1. lease \in [Callers -> {"none", "waiting", "held", "released", "refused"}]
        /\ permits = 0
    BY DEF SemaphoreInv, SemTypeOK
  <2>2. ASSUME NEW d \in Callers, Acquire(d) PROVE Head(queue) = c
    BY <2>1, <2>2 DEF Acquire
  <2>3. ASSUME NEW d \in Callers, TimeOut(d) PROVE Head(queue) = c
    BY <2>1, <2>3 DEF TimeOut
  <2>4. ASSUME NEW d \in Callers, ReleasePermit(d) PROVE Head(queue) = c
    BY <2>1, <2>4 DEF ReleasePermit, Release, admission
  <2> QED
    BY <2>2, <2>3, <2>4 DEF SemNext, admission
<1> QED
  BY <1>1, SemaphoreInvariant, PTL DEF SemSpec, NoOvertaking

-----------------------------------------------------------------------------
(* Direct replies. What an action of a reply does to the semaphore.         *)
Uses(r) ==
  \/ UNCHANGED admission
  \/ r \in Local /\ (Acquire(r) \/ TimeOut(r) \/ ReleasePermit(r))

LEMMA EndUses ==
  ASSUME NEW r, NEW place, End(r, place)
  PROVE  Uses(r)
BY DEF End, Uses, admission, ReleasePermit, Release

LEMMA GotUses ==
  ASSUME NEW r, NEW history, Got(r, history)
  PROVE  Uses(r)
BY EndUses DEF Got, Uses

LEMMA ArriveUses ==
  ASSUME NEW r, Arrive(r)
  PROVE  Uses(r)
BY DEF Arrive, Uses, admission, Acquire

LEMMA RefuseUses ==
  ASSUME NEW r, Refuse(r)
  PROVE  Uses(r)
BY DEF Refuse, Uses, TimeOut, RemoveAt

LEMMA ReadUses ==
  ASSUME NEW r, Read(r)
  PROVE  Uses(r)
<1>1. CASE ReadCache(r)
  BY <1>1, GotUses DEF ReadCache, Uses
<1>2. CASE ReadRow(r)
  BY <1>2, GotUses, EndUses DEF ReadRow
<1>3. CASE ReadFallback(r)
  BY <1>3, GotUses, EndUses DEF ReadFallback
<1> QED
  BY <1>1, <1>2, <1>3 DEF Read

LEMMA ReplyUses ==
  ASSUME NEW r, Reply(r)
  PROVE  Uses(r)
<1>1. CASE Admitted(r) \/ SaveCache(r) \/ LoadPrints(r) \/ PrintsUnread(r)
  BY <1>1 DEF Admitted, SaveCache, LoadPrints, PrintsUnread, Uses
<1>2. CASE Refuse(r)
  BY <1>2, RefuseUses
<1>3. CASE Generate(r) \/ SaveRow(r) \/ CheckDuplicate(r) \/ Post(r) \/ StorePrint(r)
  BY <1>3, EndUses DEF Generate, SaveRow, CheckDuplicate, Post, StorePrint, Uses
<1> QED
  BY <1>1, <1>2, <1>3 DEF Reply

(* Every step of the replies is a step of the semaphore, or leaves it.     *)
LEMMA AdmissionStep == [Next]_vars => [SemNext]_admission
<1> SUFFICES ASSUME [Next]_vars PROVE [SemNext]_admission
  OBVIOUS
<1>1. ASSUME NEW r, Uses(r) PROVE [SemNext]_admission
  BY <1>1 DEF Uses, admission, SemNext
<1>2. ASSUME NEW r \in Readers, Arrive(r) \/ Read(r) PROVE [SemNext]_admission
  BY <1>1, <1>2, ArriveUses, ReadUses
<1>3. ASSUME NEW r \in Readers, Refill(r) PROVE [SemNext]_admission
  BY <1>3 DEF Refill, admission
<1>4. ASSUME NEW r \in Replies, Reply(r) PROVE [SemNext]_admission
  BY <1>1, <1>4, ReplyUses
<1>5. CASE ExpireHistory \/ ExpirePrints \/ UNCHANGED vars
  BY <1>5 DEF ExpireHistory, ExpirePrints, admission, vars
<1> QED
  BY <1>2, <1>3, <1>4, <1>5 DEF Next

(* The replies implement the semaphore: permits are asked for, waited for, *)
(* timed out and given back by its rules, whatever fails in between. The   *)
(* handler of the workflow, api/workflows/agentRun.ts:130-177.             *)
THEOREM ImplementsSemaphore == Spec => AdmissionSpec
<1>1. Init => SemInit
  BY DEF Init
<1> QED
  BY <1>1, AdmissionStep, PTL DEF Spec, AdmissionSpec, SemSpec

(* So what is proved of the semaphore holds here.                          *)
LEMMA SemaphoreHolds == Spec => []SemaphoreInv
BY ImplementsSemaphore, SemaphoreInvariant, PTL DEF AdmissionSpec

-----------------------------------------------------------------------------
(* Types. A history names an exchange once, because a reply is in no       *)
(* history before it has saved its own.                                    *)
Unsaved == {"new", "cache", "row", "model", "saveCache"}

Nowhere(e) ==
  /\ ~Has(cached, e) /\ ~Has(row, e) /\ ~Has(memory, e)
  /\ \A r \in Readers : ~Has(refill[r], e)
  /\ \A r \in Replies : ~Has(seen[r], e)

PlacesTyped == pc \in [Readers -> Places]
StoresTyped ==
  /\ cached \in Histories \cup {None} /\ row \in Histories \cup {None}
  /\ memory \in Histories
  /\ refill \in [Readers -> Histories \cup {None}]
  /\ seen \in [Replies -> Histories]
PrintsTyped ==
  /\ prints \in Seq(Texts) /\ Len(prints) <= Window
  /\ near \in [Replies -> Seq(Texts)]
  /\ \A r \in Replies : Len(near[r]) <= Window

ReplyInv ==
  /\ PlacesTyped /\ StoresTyped /\ PrintsTyped
  /\ \A e \in Replies : pc[e] \in Unsaved => Nowhere(e)
  /\ \A e \in Replies : ~Has(seen[e], e)

(* No history is None, and the empty one has nothing.                      *)
LEMMA HistoryFacts ==
  /\ None \notin Histories
  /\ <<>> \in Histories
  /\ \A e : ~Has(None, e) /\ ~Has(<<>>, e)
  /\ \A h \in Histories : h \in Seq(Replies) /\ Len(h) \in 0..MaxKept
  /\ \A h \in Histories : \A e : Has(h, e) <=> e \in ToSet(h)
<1>1. None \notin Seq(Replies) /\ MaxKept \in Nat \ {0}
  BY ReplyAssumption
<1>2. None \notin Histories
  BY <1>1 DEF Histories
<1>3. <<>> \in Seq(Replies) /\ Len(<<>>) = 0 /\ DOMAIN <<>> = {}
  OBVIOUS
<1>4. <<>> \in Histories
  BY <1>1, <1>3 DEF Histories, IsInjective
<1>5. \A e : ~Has(None, e) /\ ~Has(<<>>, e)
  BY <1>3 DEF Has, ToSet
<1>6. \A h \in Histories : h \in Seq(Replies) /\ Len(h) \in 0..MaxKept
  BY <1>1 DEF Histories
<1>7. \A h \in Histories : \A e : Has(h, e) <=> e \in ToSet(h)
  BY <1>2 DEF Has
<1> QED
  BY <1>2, <1>4, <1>5, <1>6, <1>7

(* The exchange of r is appended, and the oldest one gives way if it must. *)
LEMMA ExtendedHistory ==
  ASSUME NEW r \in Replies, seen[r] \in Histories, ~Has(seen[r], r)
  PROVE  /\ Extended(r) \in Histories
         /\ \A e : Has(Extended(r), e) => Has(seen[r], e) \/ e = r
         /\ \A e : Has(seen[r], e) =>
              Has(Extended(r), e) \/ (Len(seen[r]) = MaxKept /\ seen[r][1] = e)
<1> DEFINE h == seen[r]
           long == Append(h, r)
<1>1. /\ h \in Seq(Replies) /\ Len(h) \in Nat /\ Len(h) <= MaxKept /\ MaxKept \in Nat \ {0}
      /\ DOMAIN h = 1..Len(h) /\ \A j, k \in 1..Len(h) : h[j] = h[k] => j = k
      /\ \A k \in 1..Len(h) : h[k] # r
  BY HistoryFacts, ReplyAssumption DEF Histories, IsInjective, ToSet
<1>2. /\ long \in Seq(Replies) /\ Len(long) = Len(h) + 1 /\ DOMAIN long = 1..(Len(h) + 1)
      /\ long[Len(h) + 1] = r /\ \A k \in 1..Len(h) : long[k] = h[k]
  BY <1>1, AppendProperties
<1>3. \A j, k \in 1..(Len(h) + 1) : long[j] = long[k] => j = k
  BY <1>1, <1>2
<1> HIDE DEF long
<1>4. Extended(r) = IF Len(long) > MaxKept THEN Tail(long) ELSE long
  BY DEF Extended, Kept, long
<1>5. CASE Len(long) <= MaxKept
  <2>1. Extended(r) = long
    BY <1>1, <1>2, <1>4, <1>5
  <2>2. long \in Histories
    BY <1>2, <1>3, <1>5 DEF Histories, IsInjective
  <2>3. ASSUME NEW e PROVE Has(long, e) <=> Has(h, e) \/ e = r
    <3>1. e \in ToSet(long) <=> e \in ToSet(h) \/ e = r
      BY <1>1, <1>2 DEF ToSet
    <3> QED
      BY <2>2, <3>1, HistoryFacts
  <2> QED
    BY <2>1, <2>2, <2>3
<1>6. CASE Len(long) > MaxKept
  <2> DEFINE tail == Tail(long)
  <2>1. Extended(r) = tail /\ Len(h) = MaxKept
    BY <1>1, <1>2, <1>4, <1>6
  <2>2. /\ tail \in Seq(Replies) /\ Len(tail) = Len(h) /\ DOMAIN tail = 1..Len(h)
        /\ \A k \in 1..Len(h) : tail[k] = long[k + 1]
    BY <1>1, <1>2, HeadTailProperties
  <2> HIDE DEF tail
  <2>3. \A j, k \in 1..Len(h) : tail[j] = tail[k] => j = k
    <3> SUFFICES ASSUME NEW j \in 1..Len(h), NEW k \in 1..Len(h), tail[j] = tail[k]
                 PROVE  j = k
      OBVIOUS
    <3>1. j + 1 \in 1..(Len(h) + 1) /\ k + 1 \in 1..(Len(h) + 1) /\ long[j + 1] = long[k + 1]
      BY <1>1, <2>2
    <3>2. j + 1 = k + 1
      BY <1>3, <3>1
    <3> QED
      BY <1>1, <3>2
  <2>4. tail \in Histories
    BY <2>1, <2>2, <2>3 DEF Histories, IsInjective
  <2>5. ASSUME NEW e, Has(tail, e) PROVE Has(h, e) \/ e = r
    <3>1. PICK k \in 1..Len(h) : tail[k] = e
      BY <2>2, <2>4, <2>5, HistoryFacts DEF ToSet
    <3>2. long[k + 1] = e /\ k + 1 \in 1..(Len(h) + 1)
      BY <1>1, <2>2, <3>1
    <3>3. CASE k + 1 = Len(h) + 1
      BY <1>2, <3>2, <3>3
    <3>4. CASE k + 1 # Len(h) + 1
      <4>1. k + 1 \in 1..Len(h) /\ h[k + 1] = e
        BY <1>1, <1>2, <3>2, <3>4
      <4> QED
        BY <1>1, <4>1, HistoryFacts DEF ToSet
    <3> QED
      BY <3>3, <3>4
  <2>6. ASSUME NEW e, Has(h, e), h[1] # e PROVE Has(tail, e)
    <3>1. PICK k \in 1..Len(h) : h[k] = e
      BY <1>1, <2>6, HistoryFacts DEF ToSet
    <3>2. k - 1 \in 1..Len(h) /\ (k - 1) + 1 = k
      BY <1>1, <2>6, <3>1
    <3>3. tail[k - 1] = e
      BY <1>2, <2>2, <3>1, <3>2
    <3> QED
      BY <2>2, <2>4, <3>2, <3>3, HistoryFacts DEF ToSet
  <2> QED
    BY <2>1, <2>4, <2>5, <2>6
<1> QED
  BY <1>1, <1>2, <1>5, <1>6

(* The newest Window fingerprints are kept.                                *)
LEMMA StoredPrints ==
  ASSUME NEW r \in Replies, near[r] \in Seq(Texts), Len(near[r]) <= Window
  PROVE  /\ NewPrints(r) \in Seq(Texts) /\ Len(NewPrints(r)) <= Window
         /\ \A t \in ToSet(<<TextOf[r]>> \o near[r]) :
              t \in ToSet(NewPrints(r)) \/ (Len(near[r]) = Window /\ near[r][Window] = t)
<1> DEFINE n == near[r]
           one == <<TextOf[r]>>
           all == one \o n
<1>1. Window \in Nat \ {0} /\ n \in Seq(Texts) /\ Len(n) \in Nat /\ Len(n) <= Window
  BY ReplyAssumption
<1>2. TextOf[r] \in Texts
  BY DEF Texts
<1>3. one \in Seq(Texts) /\ Len(one) = 1 /\ one[1] = TextOf[r]
  BY <1>2
<1> HIDE DEF n, one
<1>4. /\ all \in Seq(Texts) /\ Len(all) = Len(n) + 1 /\ DOMAIN all = 1..(Len(n) + 1)
      /\ \A k \in 1..(Len(n) + 1) : all[k] = IF k <= 1 THEN one[k] ELSE n[k - 1]
  <2>1. /\ all \in Seq(Texts) /\ Len(all) = Len(one) + Len(n)
        /\ \A k \in 1..(Len(one) + Len(n)) : all[k] = IF k <= Len(one) THEN one[k] ELSE n[k - Len(one)]
    BY <1>1, <1>3, ConcatProperties, Zenon
  <2> QED
    BY <1>1, <1>3, <2>1
<1> HIDE DEF all
<1>5. NewPrints(r) = IF Len(all) > Window THEN SubSeq(all, 1, Window) ELSE all
  BY DEF NewPrints, all, one, n
<1>6. CASE Len(all) <= Window
  BY <1>1, <1>4, <1>5, <1>6 DEF all, one, n
<1>7. CASE Len(all) > Window
  <2> DEFINE cut == SubSeq(all, 1, Window)
  <2>1. NewPrints(r) = cut /\ Len(n) = Window
    BY <1>1, <1>4, <1>5, <1>7
  <2>2. cut \in Seq(Texts) /\ Len(cut) = Window /\ \A k \in 1..Window : cut[k] = all[k]
    BY <1>1, <1>4, <2>1, SubSeqProperties
  <2> HIDE DEF cut
  <2>3. ASSUME NEW t \in ToSet(all), n[Window] # t PROVE t \in ToSet(cut)
    <3>1. PICK k \in 1..(Len(n) + 1) : all[k] = t
      BY <1>4 DEF ToSet
    <3>2. k # Window + 1
      BY <1>1, <1>4, <2>1, <2>3, <3>1
    <3>3. k \in 1..Window /\ cut[k] = t /\ k \in DOMAIN cut
      BY <1>1, <2>1, <2>2, <3>1, <3>2
    <3> QED
      BY <3>3 DEF ToSet
  <2>4. Len(n) = Window /\ \A t \in ToSet(all) : t \in ToSet(cut) \/ n[Window] = t
    BY <2>1, <2>3
  <2>5. NewPrints(r) \in Seq(Texts) /\ Len(NewPrints(r)) <= Window
    BY <1>1, <2>1, <2>2
  <2> QED
    BY <2>1, <2>4, <2>5 DEF all, one, n
<1> QED
  BY <1>1, <1>4, <1>6, <1>7

-----------------------------------------------------------------------------
(* A reader r goes to a place, and never back to where it had not saved.   *)
Moves(r, place) ==
  /\ r \in Readers /\ place \in Places
  /\ pc[r] \in Unsaved \/ place \notin Unsaved
  /\ pc' = [pc EXCEPT ![r] = place]

Onward ==
  /\ PlacesTyped'
  /\ \A e \in Replies : pc[e] \notin Unsaved => pc'[e] \notin Unsaved

LEMMA MovesOnward ==
  ASSUME PlacesTyped, NEW r, NEW place, Moves(r, place)
  PROVE  Onward
BY DEF PlacesTyped, Moves, Onward, Readers

LEMMA StaysOnward ==
  ASSUME PlacesTyped, UNCHANGED pc
  PROVE  Onward
BY DEF PlacesTyped, Onward

LEMMA EndMoves ==
  ASSUME NEW r \in Readers, NEW place \in Final, End(r, place)
  PROVE  Moves(r, place)
BY DEF End, Goto, Moves, Final, Places, Unsaved

(* Steps that leave the stores and the fingerprints alone.                 *)
LEMMA OnwardKeeps ==
  ASSUME ReplyInv, Onward, UNCHANGED <<stores, prints, seen, near>>
  PROVE  ReplyInv'
<1>1. UNCHANGED <<cached, row, memory, refill, prints, seen, near>>
  BY DEF stores
<1>2. StoresTyped' /\ PrintsTyped' /\ PlacesTyped'
  BY <1>1 DEF ReplyInv, StoresTyped, PrintsTyped, Onward
<1>3. ASSUME NEW e \in Replies, pc'[e] \in Unsaved PROVE Nowhere(e)'
  BY <1>1, <1>3 DEF ReplyInv, Onward, Nowhere, Has
<1>4. \A e \in Replies : ~Has(seen[e], e)'
  BY <1>1 DEF ReplyInv, Has
<1> QED
  BY <1>2, <1>3, <1>4 DEF ReplyInv

(* A reader is given a history that has nothing which is nowhere.          *)
LEMMA GotKeeps ==
  ASSUME ReplyInv, NEW r \in Readers, pc[r] \in {"cache", "row"}, NEW h \in Histories,
         \A e \in Replies : Nowhere(e) => ~Has(h, e),
         Got(r, h), refill' \in {refill, [refill EXCEPT ![r] = h]},
         UNCHANGED <<cached, row, memory, prints, near>>
  PROVE  ReplyInv'
<1>1. Onward
  <2>1. Moves(r, "answered") \/ Moves(r, "model")
    BY EndMoves DEF Got, Goto, Moves, Places, Final, Unsaved
  <2> QED
    BY <2>1, MovesOnward DEF ReplyInv
<1>2. seen' = seen \/ (r \in Replies /\ seen' = [seen EXCEPT ![r] = h])
  BY DEF Got, Readers
<1>3. StoresTyped' /\ PrintsTyped'
  BY <1>2 DEF ReplyInv, StoresTyped, PrintsTyped
<1>4. ASSUME NEW e \in Replies, pc[e] \in Unsaved PROVE Nowhere(e)'
  <2>1. Nowhere(e) /\ ~Has(h, e)
    BY <1>4 DEF ReplyInv
  <2>2. ~Has(cached, e)' /\ ~Has(row, e)' /\ ~Has(memory, e)'
    BY <2>1 DEF Nowhere, Has
  <2>3. ASSUME NEW s \in Readers PROVE ~Has(refill'[s], e)
    BY <2>1 DEF Nowhere, ReplyInv, StoresTyped
  <2>4. ASSUME NEW s \in Replies PROVE ~Has(seen'[s], e)
    BY <1>2, <2>1 DEF Nowhere, ReplyInv, StoresTyped
  <2> QED
    BY <2>2, <2>3, <2>4 DEF Nowhere
<1>5. ASSUME NEW e \in Replies PROVE ~Has(seen'[e], e)
  <2>1. CASE seen'[e] = seen[e]
    BY <2>1 DEF ReplyInv
  <2>2. CASE e = r /\ seen'[e] = h
    BY <2>2 DEF ReplyInv, Unsaved
  <2> QED
    BY <1>2, <2>1, <2>2 DEF ReplyInv, StoresTyped
<1> QED
  BY <1>1, <1>3, <1>4, <1>5 DEF ReplyInv, Onward

LEMMA ReadKeeps ==
  ASSUME ReplyInv, NEW r \in Readers, Read(r)
  PROVE  ReplyInv'
<1>1. /\ cached # None => cached \in Histories
      /\ row # None => row \in Histories
      /\ Memory(r) \in Histories
  BY HistoryFacts DEF ReplyInv, StoresTyped, Memory
<1>2. ASSUME NEW e \in Replies, Nowhere(e)
      PROVE  ~Has(cached, e) /\ ~Has(row, e) /\ ~Has(Memory(r), e)
  BY <1>2, HistoryFacts DEF Nowhere, Memory
<1>3. ASSUME pc[r] \in {"cache", "row"}, UNCHANGED <<stores, prints, seen, near>>,
             Goto(r, "row") \/ End(r, "failed")
      PROVE  ReplyInv'
  <2>1. Moves(r, "row") \/ Moves(r, "failed")
    BY <1>3, EndMoves DEF Goto, Moves, Places, Final, Unsaved
  <2> QED
    BY <1>3, <2>1, MovesOnward, OnwardKeeps DEF ReplyInv
<1>4. CASE ReadCache(r)
  <2>1. CASE cached # None /\ Got(r, cached)
    BY <1>1, <1>2, <1>4, <2>1, GotKeeps DEF ReadCache, At, stores
  <2>2. CASE Goto(r, "row") /\ UNCHANGED seen
    BY <1>3, <1>4, <2>2 DEF ReadCache, At
  <2> QED
    BY <1>4, <2>1, <2>2 DEF ReadCache
<1>5. CASE ReadRow(r)
  <2>1. CASE row # None /\ Got(r, row) /\ refill' = [refill EXCEPT ![r] = row]
    BY <1>1, <1>2, <1>5, <2>1, GotKeeps DEF ReadRow, At
  <2>2. CASE Got(r, Memory(r)) /\ UNCHANGED refill
    BY <1>1, <1>2, <1>5, <2>2, GotKeeps DEF ReadRow, At
  <2>3. CASE End(r, "failed") /\ UNCHANGED <<seen, refill>>
    BY <1>3, <1>5, <2>3 DEF ReadRow, At, stores
  <2> QED
    BY <1>5, <2>1, <2>2, <2>3 DEF ReadRow
<1>6. CASE ReadFallback(r)
  <2>1. CASE Got(r, Memory(r))
    BY <1>1, <1>2, <1>6, <2>1, GotKeeps DEF ReadFallback, At, stores
  <2>2. CASE End(r, "failed") /\ UNCHANGED seen
    BY <1>3, <1>6, <2>2 DEF ReadFallback, At
  <2> QED
    BY <1>6, <2>1, <2>2 DEF ReadFallback
<1> QED
  BY <1>4, <1>5, <1>6 DEF Read

LEMMA RefillKeeps ==
  ASSUME ReplyInv, NEW r \in Readers, Refill(r)
  PROVE  ReplyInv'
<1>1. /\ cached' \in {cached, refill[r]} /\ refill' = [refill EXCEPT ![r] = None]
      /\ UNCHANGED <<row, memory, prints, pc, seen, near>>
  BY DEF Refill
<1>2. StoresTyped' /\ PrintsTyped' /\ PlacesTyped'
  BY <1>1 DEF ReplyInv, StoresTyped, PrintsTyped, PlacesTyped
<1>3. ASSUME NEW e \in Replies, pc[e] \in Unsaved PROVE Nowhere(e)'
  <2>1. Nowhere(e)
    BY <1>3 DEF ReplyInv
  <2>2. ~Has(cached', e) /\ \A s \in Readers : ~Has(refill'[s], e)
    BY <1>1, <2>1, HistoryFacts DEF Nowhere, ReplyInv, StoresTyped
  <2> QED
    BY <1>1, <2>1, <2>2 DEF Nowhere, Has
<1>4. \A e \in Replies : ~Has(seen[e], e)'
  BY <1>1 DEF ReplyInv, Has
<1> QED
  BY <1>1, <1>2, <1>3, <1>4 DEF ReplyInv

LEMMA SaveCacheKeeps ==
  ASSUME ReplyInv, NEW r \in Replies, SaveCache(r)
  PROVE  ReplyInv'
<1>1. /\ cached' \in {cached, Extended(r)} /\ memory' \in {memory, Extended(r)}
      /\ pc[r] = "saveCache" /\ pc' = [pc EXCEPT ![r] = "saveRow"]
      /\ UNCHANGED <<row, refill, prints, seen, near>>
  BY DEF SaveCache, At, Goto
<1>2. Onward /\ pc'[r] \notin Unsaved
  BY <1>1 DEF ReplyInv, PlacesTyped, Onward, Places, Unsaved, Readers
<1>3. /\ Extended(r) \in Histories
      /\ \A e : Has(Extended(r), e) => Has(seen[r], e) \/ e = r
  BY ExtendedHistory DEF ReplyInv, StoresTyped
<1>4. StoresTyped' /\ PrintsTyped'
  BY <1>1, <1>3 DEF ReplyInv, StoresTyped, PrintsTyped
<1>5. ASSUME NEW e \in Replies, pc'[e] \in Unsaved PROVE Nowhere(e)'
  <2>1. Nowhere(e) /\ e # r
    BY <1>2, <1>5 DEF ReplyInv, Onward
  <2>2. ~Has(cached', e) /\ ~Has(memory', e)
    BY <1>1, <1>3, <2>1 DEF Nowhere
  <2> QED
    BY <1>1, <2>1, <2>2 DEF Nowhere, Has
<1>6. \A e \in Replies : ~Has(seen[e], e)'
  BY <1>1 DEF ReplyInv, Has
<1> QED
  BY <1>2, <1>4, <1>5, <1>6 DEF ReplyInv, Onward

LEMMA SaveRowKeeps ==
  ASSUME ReplyInv, NEW r \in Replies, SaveRow(r)
  PROVE  ReplyInv'
<1>1. /\ row' \in {row, Extended(r)} /\ seen' = [seen EXCEPT ![r] = <<>>]
      /\ pc[r] = "saveRow" /\ pc' \in {[pc EXCEPT ![r] = "check"], [pc EXCEPT ![r] = "failed"]}
      /\ UNCHANGED <<cached, memory, refill, prints, near>>
  BY DEF SaveRow, At, Goto, End
<1>2. Onward /\ pc'[r] \notin Unsaved
  BY <1>1 DEF ReplyInv, PlacesTyped, Onward, Places, Unsaved, Readers
<1>3. /\ Extended(r) \in Histories
      /\ \A e : Has(Extended(r), e) => Has(seen[r], e) \/ e = r
  BY ExtendedHistory DEF ReplyInv, StoresTyped
<1>4. StoresTyped' /\ PrintsTyped'
  BY <1>1, <1>3, HistoryFacts DEF ReplyInv, StoresTyped, PrintsTyped
<1>5. ASSUME NEW e \in Replies, NEW s \in Replies, Has(seen'[s], e) PROVE Has(seen[s], e)
  BY <1>1, <1>5, HistoryFacts DEF ReplyInv, StoresTyped
<1>6. ASSUME NEW e \in Replies, pc'[e] \in Unsaved PROVE Nowhere(e)'
  <2>1. Nowhere(e) /\ e # r
    BY <1>2, <1>6 DEF ReplyInv, Onward
  <2>2. ~Has(row', e)
    BY <1>1, <1>3, <2>1 DEF Nowhere
  <2> QED
    BY <1>1, <1>5, <2>1, <2>2 DEF Nowhere, Has
<1>7. \A e \in Replies : ~Has(seen'[e], e)
  BY <1>5 DEF ReplyInv
<1> QED
  BY <1>2, <1>4, <1>6, <1>7 DEF ReplyInv, Onward

LEMMA PrintsKeep ==
  ASSUME ReplyInv, NEW r \in Replies, LoadPrints(r) \/ PrintsUnread(r) \/ StorePrint(r)
  PROVE  ReplyInv'
<1>1. UNCHANGED stores /\ UNCHANGED seen
  BY DEF LoadPrints, PrintsUnread, StorePrint
<1>2. UNCHANGED <<cached, row, memory, refill>>
  BY <1>1 DEF stores
<1>3. Onward
  <2>1. Moves(r, "store") \/ Moves(r, "post") \/ Moves(r, "answered")
    BY EndMoves DEF LoadPrints, PrintsUnread, StorePrint, Goto, Moves, Places, Final, Unsaved, Readers
  <2> QED
    BY <2>1, MovesOnward DEF ReplyInv
<1>4. PrintsTyped'
  <2>1. CASE LoadPrints(r)
    BY <2>1 DEF LoadPrints, ReplyInv, PrintsTyped
  <2>2. CASE PrintsUnread(r)
    <3>1. <<>> \in Seq(Texts) /\ Len(<<>>) <= Window
      BY ReplyAssumption
    <3> QED
      BY <2>2, <3>1 DEF PrintsUnread, ReplyInv, PrintsTyped
  <2>3. CASE StorePrint(r)
    <3>1. <<>> \in Seq(Texts) /\ Len(<<>>) <= Window
      BY ReplyAssumption
    <3>2. NewPrints(r) \in Seq(Texts) /\ Len(NewPrints(r)) <= Window
      BY StoredPrints DEF ReplyInv, PrintsTyped
    <3> QED
      BY <2>3, <3>1, <3>2 DEF StorePrint, ReplyInv, PrintsTyped
  <2> QED
    BY <2>1, <2>2, <2>3
<1>5. ASSUME NEW e \in Replies, pc'[e] \in Unsaved PROVE Nowhere(e)'
  BY <1>1, <1>2, <1>3, <1>5 DEF ReplyInv, Onward, Nowhere, Has
<1>6. StoresTyped' /\ \A e \in Replies : ~Has(seen[e], e)'
  BY <1>1, <1>2 DEF ReplyInv, StoresTyped, Has
<1> QED
  BY <1>3, <1>4, <1>5, <1>6 DEF ReplyInv, Onward

LEMMA ExpiryKeeps ==
  ASSUME ReplyInv, ExpireHistory \/ ExpirePrints
  PROVE  ReplyInv'
<1>1. CASE ExpireHistory
  <2>1. StoresTyped' /\ PrintsTyped' /\ PlacesTyped'
    BY <1>1 DEF ExpireHistory, ReplyInv, StoresTyped, PrintsTyped, PlacesTyped
  <2>2. ASSUME NEW e \in Replies, pc'[e] \in Unsaved PROVE Nowhere(e)'
    BY <1>1, <2>2, HistoryFacts DEF ExpireHistory, ReplyInv, Nowhere, Has
  <2>3. \A e \in Replies : ~Has(seen[e], e)'
    BY <1>1 DEF ExpireHistory, ReplyInv, Has
  <2> QED
    BY <2>1, <2>2, <2>3 DEF ReplyInv
<1>2. CASE ExpirePrints
  <2>1. UNCHANGED <<cached, row, memory, refill, pc, seen, near>> /\ prints' = <<>>
    BY <1>2 DEF ExpirePrints, stores
  <2>2. <<>> \in Seq(Texts) /\ Len(<<>>) <= Window
    BY ReplyAssumption
  <2>3. StoresTyped' /\ PrintsTyped' /\ PlacesTyped'
    BY <2>1, <2>2 DEF ReplyInv, StoresTyped, PrintsTyped, PlacesTyped
  <2>4. ASSUME NEW e \in Replies, pc'[e] \in Unsaved PROVE Nowhere(e)'
    BY <2>1, <2>4 DEF ReplyInv, Nowhere, Has
  <2>5. \A e \in Replies : ~Has(seen[e], e)'
    BY <2>1 DEF ReplyInv, Has
  <2> QED
    BY <2>3, <2>4, <2>5 DEF ReplyInv
<1> QED
  BY <1>1, <1>2

LEMMA PlainKeeps ==
  ASSUME ReplyInv, NEW r \in Readers,
         Arrive(r) \/ Admitted(r) \/ Refuse(r) \/ Generate(r) \/ CheckDuplicate(r) \/ Post(r)
  PROVE  ReplyInv'
<1>1. UNCHANGED <<stores, prints, seen, near>>
  BY DEF Arrive, Admitted, Refuse, Generate, CheckDuplicate, Post
<1>2. \E place \in Places : Moves(r, place)
  <2>1. CASE Arrive(r)
    <3>1. pc[r] = "new" /\ \E place \in {"new", "cache"} : pc' = [pc EXCEPT ![r] = place]
      BY <2>1 DEF Arrive, At, Goto
    <3> QED
      BY <3>1 DEF Moves, Places, Unsaved
  <2>2. CASE Admitted(r)
    BY <2>2 DEF Admitted, At, Goto, Moves, Places, Unsaved
  <2>3. CASE Refuse(r)
    BY <2>3 DEF Refuse, At, Goto, Moves, Places, Unsaved
  <2>4. CASE Generate(r)
    BY <2>4, EndMoves DEF Generate, At, Goto, Moves, Places, Final, Unsaved
  <2>5. CASE CheckDuplicate(r)
    BY <2>5, EndMoves DEF CheckDuplicate, At, Goto, Moves, Places, Final, Unsaved
  <2>6. CASE Post(r)
    BY <2>6, EndMoves DEF Post, At, Goto, Moves, Places, Final, Unsaved
  <2> QED
    BY <2>1, <2>2, <2>3, <2>4, <2>5, <2>6
<1> QED
  BY <1>1, <1>2, MovesOnward, OnwardKeeps DEF ReplyInv

LEMMA ReplyStep == ReplyInv /\ [Next]_vars => ReplyInv'
<1> SUFFICES ASSUME ReplyInv, [Next]_vars PROVE ReplyInv'
  OBVIOUS
<1>1. ASSUME NEW r \in Readers, Arrive(r) \/ Read(r) \/ Refill(r) PROVE ReplyInv'
  BY <1>1, PlainKeeps, ReadKeeps, RefillKeeps
<1>2. ASSUME NEW r \in Replies, Reply(r) PROVE ReplyInv'
  BY <1>2, PlainKeeps, SaveCacheKeeps, SaveRowKeeps, PrintsKeep DEF Reply, Readers
<1>3. CASE ExpireHistory \/ ExpirePrints
  BY <1>3, ExpiryKeeps
<1>4. CASE UNCHANGED vars
  BY <1>4, StaysOnward, OnwardKeeps DEF vars, ReplyInv
<1> QED
  BY <1>1, <1>2, <1>3, <1>4 DEF Next

LEMMA ReplyInvariant == Spec => []ReplyInv
<1>1. Init => ReplyInv
  <2> SUFFICES ASSUME Init PROVE ReplyInv
    OBVIOUS
  <2>1. PlacesTyped
    BY DEF Init, PlacesTyped, Places
  <2>2. StoresTyped
    BY HistoryFacts DEF Init, StoresTyped
  <2>3. PrintsTyped
    BY ReplyAssumption DEF Init, PrintsTyped
  <2>4. \A e : Nowhere(e) /\ \A r \in Replies : ~Has(seen[r], e)
    BY HistoryFacts DEF Init, Nowhere
  <2> QED
    BY <2>1, <2>2, <2>3, <2>4 DEF ReplyInv
<1> QED
  BY <1>1, ReplyStep, PTL DEF Spec

(* Histories, fingerprints, places and leases keep their types: no history *)
(* names an exchange twice or outgrows its limit, though replies extend    *)
(* copies of each other's histories. state.ts:376-476, dedup.ts:155-165.   *)
THEOREM RepliesTyped == Spec => []TypeOK
<1>1. ReplyInv /\ SemaphoreInv => TypeOK
  BY DEF ReplyInv, PlacesTyped, StoresTyped, PrintsTyped, TypeOK, SemaphoreInv,
     SemTypeOK
<1> QED
  BY <1>1, ReplyInvariant, SemaphoreHolds, PTL

-----------------------------------------------------------------------------
(* A step that hands on no history but such as have e.                     *)
LEMMA HandedOn ==
  ASSUME NEW e, Settled(e),
         Has(row', e), cached' = None \/ Has(cached', e),
         \A r \in Readers : refill'[r] \in {refill[r], None} \/ Has(refill'[r], e),
         \A r \in Replies : Saving(r)' => (Saving(r) /\ seen'[r] = seen[r]) \/ Has(seen'[r], e)
  PROVE  Settled(e)'
BY DEF Settled, Has

LEMMA GotSettled ==
  ASSUME ReplyInv, NEW r \in Readers, NEW h \in Histories, Got(r, h), NEW e, Has(h, e),
         Settled(e), UNCHANGED <<cached, row>>, refill' \in {refill, [refill EXCEPT ![r] = h]}
  PROVE  Settled(e)'
<1>1. Has(row', e) /\ (cached' = None \/ Has(cached', e))
  BY DEF Settled
<1>2. \A s \in Readers : refill'[s] = refill[s] \/ Has(refill'[s], e)
  BY DEF ReplyInv, StoresTyped
<1>3. ASSUME NEW s \in Replies, Saving(s)'
      PROVE  (Saving(s) /\ seen'[s] = seen[s]) \/ Has(seen'[s], e)
  <2>1. CASE r \in Contexts
    BY <1>3, <2>1, ReplyAssumption DEF Got, End, Goto, Saving, ReplyInv, PlacesTyped, Readers
  <2>2. CASE r \notin Contexts
    BY <1>3, <2>2 DEF Got, Goto, Saving, ReplyInv, PlacesTyped, StoresTyped, Readers
  <2> QED
    BY <2>1, <2>2
<1> QED
  BY <1>1, <1>2, <1>3, HandedOn

(* A step that reads and writes no history.                                *)
LEMMA AsideSettled ==
  ASSUME NEW e, Settled(e), UNCHANGED <<stores, seen>>, \A r \in Replies : Saving(r)' => Saving(r)
  PROVE  Settled(e)'
BY DEF Settled, stores, Has

LEMMA ReadSettled ==
  ASSUME ReplyInv, NEW r \in Readers, ReadCache(r) \/ ReadRow(r), NEW e, Settled(e)
  PROVE  Settled(e)'
<1>1. ASSUME UNCHANGED <<stores, seen>>, Goto(r, "row") \/ End(r, "failed") PROVE Settled(e)'
  <2>1. \A s \in Replies : Saving(s)' => Saving(s)
    BY <1>1 DEF Goto, End, Saving, ReplyInv, PlacesTyped, Readers
  <2> QED
    BY <1>1, <2>1, AsideSettled
<1>2. CASE ReadCache(r)
  <2>1. CASE cached # None /\ Got(r, cached)
    <3>1. cached \in Histories /\ Has(cached, e)
      BY <2>1 DEF Settled, ReplyInv, StoresTyped
    <3>2. UNCHANGED <<cached, row, refill>>
      BY <1>2 DEF ReadCache, stores
    <3> QED
      BY <2>1, <3>1, <3>2, GotSettled
  <2> QED
    BY <1>1, <1>2, <2>1 DEF ReadCache
<1>3. CASE ReadRow(r)
  <2>1. CASE row # None /\ Got(r, row) /\ refill' = [refill EXCEPT ![r] = row]
    BY <1>3, <2>1, GotSettled DEF ReadRow, Settled, ReplyInv, StoresTyped
  <2>2. CASE row = None
    BY <2>2 DEF Settled, Has
  <2>3. CASE End(r, "failed") /\ UNCHANGED <<seen, refill>>
    BY <1>1, <1>3, <2>3 DEF ReadRow, stores
  <2> QED
    BY <1>3, <2>1, <2>2, <2>3 DEF ReadRow
<1> QED
  BY <1>2, <1>3

LEMMA RefillSettled ==
  ASSUME ReplyInv, NEW r \in Readers, Refill(r), NEW e, Settled(e)
  PROVE  Settled(e)'
<1>1. /\ cached' \in {cached, refill[r]} /\ refill' = [refill EXCEPT ![r] = None]
      /\ UNCHANGED <<row, seen, pc>> /\ refill[r] # None
  BY DEF Refill
<1>2. Has(row', e) /\ (cached' = None \/ Has(cached', e))
  BY <1>1 DEF Settled
<1>3. \A s \in Readers : refill'[s] \in {refill[s], None}
  BY <1>1 DEF ReplyInv, StoresTyped
<1> QED
  BY <1>1, <1>2, <1>3, HandedOn DEF Saving

LEMMA SaveSettled ==
  ASSUME ReplyInv, NEW r \in Replies, SaveCache(r) \/ SaveRow(r),
         NEW e, Settled(e), ~TooOld(e)
  PROVE  Settled(e)'
<1>1. Saving(r) /\ Has(seen[r], e)
  BY DEF SaveCache, SaveRow, At, Saving, Settled
<1>2. Has(Extended(r), e)
  BY <1>1, ExtendedHistory DEF ReplyInv, StoresTyped, TooOld
<1>3. Has(row', e) /\ (cached' = None \/ Has(cached', e)) /\ UNCHANGED refill
  BY <1>2 DEF SaveCache, SaveRow, Settled
<1>4. ASSUME NEW s \in Replies, Saving(s)' PROVE Saving(s) /\ seen'[s] = seen[s]
  <2>1. CASE SaveCache(r)
    BY <1>4, <2>1 DEF SaveCache, At, Goto, Saving, ReplyInv, PlacesTyped, Readers
  <2>2. CASE SaveRow(r)
    <3>1. s # r
      BY <1>4, <2>2 DEF SaveRow, End, Goto, Saving, ReplyInv, PlacesTyped, Readers
    <3> QED
      BY <1>4, <2>2, <3>1 DEF SaveRow, End, Goto, Saving, ReplyInv, PlacesTyped, StoresTyped, Readers
  <2> QED
    BY <2>1, <2>2
<1> QED
  BY <1>3, <1>4, HandedOn

LEMMA OtherSettled ==
  ASSUME ReplyInv, NEW r \in Readers,
         \/ Arrive(r) \/ Admitted(r) \/ Refuse(r) \/ Generate(r) \/ CheckDuplicate(r) \/ Post(r)
         \/ LoadPrints(r) \/ PrintsUnread(r) \/ StorePrint(r),
         NEW e, Settled(e)
  PROVE  Settled(e)'
<1>1. UNCHANGED <<stores, seen>>
  BY DEF Arrive, Admitted, Refuse, Generate, CheckDuplicate, Post, LoadPrints, PrintsUnread, StorePrint
<1>2. \E place : pc' = [pc EXCEPT ![r] = place] /\ (place = "saveCache" => pc[r] = "model")
                 /\ place \notin {"model", "saveRow"}
  BY DEF Arrive, Admitted, Refuse, Generate, CheckDuplicate, Post, LoadPrints, PrintsUnread,
     StorePrint, At, Goto, End
<1>3. \A s \in Replies : Saving(s)' => Saving(s)
  BY <1>2 DEF Saving, ReplyInv, PlacesTyped, Readers
<1> QED
  BY <1>1, <1>3, AsideSettled

(* An exchange that is in every copy of its thread's history stays there,  *)
(* whatever replies, readers, refills and failures do to each other, until *)
(* newer ones push it out; only an instance that falls back on its memory  *)
(* may forget it. getThreadHistory, saveThreadHistory, state.ts:308-476.   *)
THEOREM SettledRemembered == Spec => Remembered
<1> DEFINE Kept2 == \A e \in Replies :
             Settled(e) => Settled(e)' \/ TooOld(e) \/ \E r \in Readers : ReadFallback(r)
<1>1. ReplyInv /\ [Next]_vars => [Kept2]_vars
  <2> SUFFICES ASSUME ReplyInv, Next, NEW e \in Replies, Settled(e), ~TooOld(e),
                      \A r \in Readers : ~ReadFallback(r)
               PROVE  Settled(e)'
    OBVIOUS
  <2>1. ASSUME NEW r \in Readers, Arrive(r) \/ Read(r) \/ Refill(r) PROVE Settled(e)'
    BY <2>1, OtherSettled, ReadSettled, RefillSettled DEF Read
  <2>2. ASSUME NEW r \in Replies, Reply(r) PROVE Settled(e)'
    BY <2>2, OtherSettled, SaveSettled DEF Reply, Readers
  <2>3. CASE ExpireHistory
    <3>1. /\ cached' = None /\ UNCHANGED <<row, refill, seen, pc>>
      BY <2>3 DEF ExpireHistory
    <3> QED
      BY <3>1, HandedOn DEF Saving, Settled
  <2>4. CASE ExpirePrints
    BY <2>4, AsideSettled DEF ExpirePrints, Saving
  <2> QED
    BY <2>1, <2>2, <2>3, <2>4 DEF Next
<1> QED
  BY <1>1, ReplyInvariant, PTL DEF Spec, Remembered

-----------------------------------------------------------------------------
(* SaidOnce                                                                *)

LEMMA OneMore ==
  ASSUME NEW S, NEW x \in S, NEW s \in Seq(S), NEW t \in ToSet(s)
  PROVE  t \in ToSet(<<x>> \o s)
<1> DEFINE one == <<x>>
           all == one \o s
<1>1. one \in Seq(S) /\ Len(one) = 1 /\ Len(s) \in Nat
  OBVIOUS
<1> HIDE DEF one
<1>2. /\ DOMAIN all = 1..(1 + Len(s))
      /\ \A k \in 1..(1 + Len(s)) : all[k] = IF k <= 1 THEN one[k] ELSE s[k - 1]
  <2>1. /\ all \in Seq(S) /\ Len(all) = Len(one) + Len(s)
        /\ \A k \in 1..(Len(one) + Len(s)) : all[k] = IF k <= Len(one) THEN one[k] ELSE s[k - Len(one)]
    BY <1>1, ConcatProperties, Zenon
  <2> QED
    BY <1>1, <2>1
<1> HIDE DEF all
<1>3. PICK k \in 1..Len(s) : s[k] = t
  BY DEF ToSet
<1>4. k + 1 \in DOMAIN all /\ all[k + 1] = t
  BY <1>1, <1>2, <1>3
<1>5. t \in ToSet(all)
  BY <1>4 DEF ToSet
<1> QED
  BY <1>5 DEF all, one

(* Who is about to post or to store was so before, with the same prints.   *)
LEMMA AsideNoted ==
  ASSUME NEW t, Noted(t), UNCHANGED <<prints, near>>,
         \A r \in Replies : pc'[r] \in {"post", "store"} => pc'[r] = pc[r]
  PROVE  Noted(t)'
BY DEF Noted, At

LEMMA ReadNoted ==
  ASSUME ReplyInv, NEW r \in Readers, Arrive(r) \/ Read(r) \/ Refill(r), NEW t, Noted(t)
  PROVE  Noted(t)'
<1>1. UNCHANGED <<prints, near>>
  BY DEF Arrive, Read, ReadCache, ReadRow, ReadFallback, Refill
<1>2. pc' = pc \/ \E place : pc' = [pc EXCEPT ![r] = place] /\ place \notin {"post", "store"}
  BY DEF Arrive, Read, ReadCache, ReadRow, ReadFallback, Refill, Got, Goto, End
<1>3. \A s \in Replies : pc'[s] \in {"post", "store"} => pc'[s] = pc[s]
  BY <1>2 DEF ReplyInv, PlacesTyped, Readers
<1> QED
  BY <1>1, <1>3, AsideNoted

LEMMA ReplyNoted ==
  ASSUME ReplyInv, NEW r \in Replies, Reply(r), ~PrintsUnread(r),
         NEW t \in Texts, Noted(t), ~PushedOut(t)
  PROVE  Noted(t)'
<1> USE DEF Readers
<1>1. CASE Admitted(r) \/ Refuse(r) \/ Generate(r) \/ SaveCache(r) \/ SaveRow(r) \/ Post(r)
  <2>1. UNCHANGED <<prints, near>>
    BY <1>1 DEF Admitted, Refuse, Generate, SaveCache, SaveRow, Post
  <2> DEFINE To(place) == pc' = [pc EXCEPT ![r] = place]
  <2>2. \/ To("cache") \/ To("refused") \/ To("saveCache") \/ To("saveRow")
        \/ To("check") \/ To("load") \/ To("failed")
    <3>1. ASSUME NEW place, End(r, place) PROVE To(place)
      BY <3>1 DEF End, Goto
    <3>2. CASE Admitted(r) \/ Refuse(r) \/ SaveCache(r)
      BY <3>2 DEF Admitted, Refuse, SaveCache, Goto
    <3>3. CASE Generate(r) \/ SaveRow(r) \/ Post(r)
      BY <3>1, <3>3 DEF Generate, SaveRow, Post, Goto
    <3> QED
      BY <1>1, <3>2, <3>3
  <2>3. \A s \in Replies : pc'[s] \in {"post", "store"} => pc'[s] = pc[s]
    BY <2>2 DEF ReplyInv, PlacesTyped
  <2> QED
    BY <2>1, <2>3, AsideNoted
<1>2. CASE CheckDuplicate(r)
  <2>1. UNCHANGED <<prints, near>>
    BY <1>2 DEF CheckDuplicate
  <2>2. CASE TextOf[r] \in ToSet(prints)
    <3>1. \A s \in Replies : pc'[s] \in {"post", "store"} => pc'[s] = pc[s]
      BY <1>2, <2>2 DEF CheckDuplicate, End, Goto, ReplyInv, PlacesTyped
    <3> QED
      BY <2>1, <3>1, AsideNoted
  <2>3. CASE TextOf[r] \notin ToSet(prints)
    <3>1. TextOf[r] # t /\ pc' = [pc EXCEPT ![r] = "post"]
      BY <1>2, <2>3 DEF CheckDuplicate, Goto, Noted
    <3> QED
      BY <2>1, <3>1 DEF Noted, At, ReplyInv, PlacesTyped
  <2> QED
    BY <2>2, <2>3
<1>3. CASE LoadPrints(r)
  <2>1. /\ UNCHANGED prints /\ near' = [near EXCEPT ![r] = prints]
        /\ pc' = [pc EXCEPT ![r] = "store"]
    BY <1>3 DEF LoadPrints, Goto
  <2>2. t \in ToSet(<<TextOf[r]>> \o prints)
    BY OneMore DEF Noted, ReplyInv, PrintsTyped, Texts
  <2>3. ASSUME NEW s \in Replies
        PROVE  /\ pc'[s] = "post" => TextOf[s] # t
               /\ pc'[s] = "store" => t \in ToSet(<<TextOf[s]>> \o near'[s])
    <3>1. CASE s = r
      BY <2>1, <2>2, <3>1 DEF ReplyInv, PlacesTyped, PrintsTyped
    <3>2. CASE s # r
      BY <2>1, <3>2 DEF Noted, At, ReplyInv, PlacesTyped, PrintsTyped
    <3> QED
      BY <3>1, <3>2
  <2> QED
    BY <2>1, <2>3 DEF Noted, At
<1>4. CASE StorePrint(r)
  <2>1. /\ pc[r] = "store" /\ prints' \in {prints, NewPrints(r)}
        /\ near' = [near EXCEPT ![r] = <<>>] /\ pc' = [pc EXCEPT ![r] = "answered"]
    BY <1>4 DEF StorePrint, At, End, Goto
  <2>2. t \in ToSet(prints')
    <3>1. t \in ToSet(prints) /\ t \in ToSet(<<TextOf[r]>> \o near[r])
      BY <2>1 DEF Noted, At
    <3>2. near[r] \in Seq(Texts) /\ Len(near[r]) <= Window
      BY DEF ReplyInv, PrintsTyped
    <3>3. t \in ToSet(NewPrints(r))
      BY <2>1, <3>1, <3>2, StoredPrints DEF PushedOut, At
    <3> QED
      BY <2>1, <3>1, <3>3
  <2>3. ASSUME NEW s \in Replies, s # r
        PROVE  pc'[s] = pc[s] /\ near'[s] = near[s]
    BY <2>1, <2>3 DEF ReplyInv, PlacesTyped, PrintsTyped
  <2>4. pc'[r] = "answered"
    BY <2>1 DEF ReplyInv, PlacesTyped
  <2> QED
    BY <2>2, <2>3, <2>4 DEF Noted, At
<1> QED
  BY <1>1, <1>2, <1>3, <1>4 DEF Reply

(* A text that the thread has noted is not posted again, and stays noted,  *)
(* however many replies check, post, load and store at once, until         *)
(* it expires, is pushed out or cannot be read. dedup.ts:128-165,          *)
(* slack.ts:70-131.                                                        *)
THEOREM NotedSaidOnce == Spec => SaidOnce
<1> DEFINE Said == \A t \in Texts :
             Noted(t) => \/ Noted(t)' \/ PushedOut(t)
                         \/ ExpirePrints \/ \E r \in Replies : PrintsUnread(r)
<1>1. ReplyInv /\ [Next]_vars => [Said]_vars
  <2> SUFFICES ASSUME ReplyInv, Next, NEW t \in Texts, Noted(t), ~PushedOut(t),
                      ~ExpirePrints, \A r \in Replies : ~PrintsUnread(r)
               PROVE  Noted(t)'
    OBVIOUS
  <2>1. ASSUME NEW r \in Readers, Arrive(r) \/ Read(r) \/ Refill(r) PROVE Noted(t)'
    BY <2>1, ReadNoted
  <2>2. ASSUME NEW r \in Replies, Reply(r) PROVE Noted(t)'
    BY <2>2, ReplyNoted
  <2>3. CASE ExpireHistory
    BY <2>3, AsideNoted DEF ExpireHistory
  <2> QED
    BY <2>1, <2>2, <2>3 DEF Next
<1> QED
  BY <1>1, ReplyInvariant, PTL DEF Spec, SaidOnce

-----------------------------------------------------------------------------
(* Permits                                                                 *)

(* The lease that goes with a place. A reply that has not started may      *)
(* have been handed its permit already.                                    *)
Fits(place, l) ==
  /\ place = "new" => l \in {"none", "waiting", "held"}
  /\ place \notin Final \cup {"new"} => l = "held"
  /\ place \in Final => l \in {"released", "refused"}

PermitInv == \A r \in Local : Fits(pc[r], lease[r])

(* Only waiters, which have not started, are handed a permit by others.    *)
Handed(r) ==
  \A s \in Local \ {r} : lease'[s] = lease[s] \/ (lease[s] = "waiting" /\ lease'[s] = "held")

LEMMA PermitKeeps ==
  ASSUME PlacesTyped, PermitInv, NEW r \in Readers, NEW place \in Places,
         pc' = [pc EXCEPT ![r] = place], Handed(r), r \in Local => Fits(place, lease'[r])
  PROVE  PermitInv'
<1> SUFFICES ASSUME NEW s \in Local PROVE Fits(pc'[s], lease'[s])
  BY DEF PermitInv
<1>1. s \in Readers
  BY DEF Readers, Replies
<1>2. CASE s = r
  BY <1>1, <1>2 DEF PlacesTyped
<1>3. CASE s # r
  <2>1. pc'[s] = pc[s] /\ Fits(pc[s], lease[s])
    BY <1>1, <1>3 DEF PlacesTyped, PermitInv
  <2>2. CASE lease'[s] = lease[s]
    BY <2>1, <2>2
  <2>3. CASE lease[s] = "waiting" /\ lease'[s] = "held"
    BY <2>1, <2>3 DEF Fits
  <2> QED
    BY <1>3, <2>2, <2>3 DEF Handed
<1> QED
  BY <1>2, <1>3

(* A permit that is given back goes to the first waiter.                   *)
LEMMA ReleaseHands ==
  ASSUME SemaphoreInv, NEW r \in Local, lease[r] = "held", ReleasePermit(r)
  PROVE  Handed(r) /\ lease'[r] = "released"
<1>1. /\ lease \in [Local -> {"none", "waiting", "held", "released", "refused"}]
      /\ queue \in Seq(Local)
      /\ \A k \in DOMAIN queue : queue[k] \in Local /\ lease[queue[k]] = "waiting"
  <2>1. queue \in Seq(Local) /\ Waiters = Queued(queue)
    BY DEF SemaphoreInv, SemTypeOK, QueueInv
  <2>2. \A k \in DOMAIN queue : queue[k] \in Waiters
    BY <2>1 DEF Queued
  <2> QED
    BY <2>1, <2>2 DEF SemaphoreInv, SemTypeOK, Waiters
<1>2. CASE queue # <<>>
  <2>1. 1 \in DOMAIN queue /\ Head(queue) = queue[1]
    BY <1>1, <1>2
  <2>2. lease' = [[lease EXCEPT ![r] = "released"] EXCEPT ![Head(queue)] = "held"]
    BY <1>2 DEF ReleasePermit, Release
  <2>3. Head(queue) \in Local /\ lease[Head(queue)] = "waiting"
    BY <1>1, <2>1
  <2> QED
    BY <1>1, <2>2, <2>3 DEF Handed
<1>3. CASE queue = <<>>
  <2>1. lease' = [lease EXCEPT ![r] = "released"]
    BY <1>3 DEF ReleasePermit, Release
  <2> QED
    BY <1>1, <2>1 DEF Handed
<1> QED
  BY <1>2, <1>3

LEMMA EndPermit ==
  ASSUME PlacesTyped, PermitInv, SemaphoreInv, NEW r \in Readers, NEW place \in Final,
         pc[r] \notin Final \cup {"new"}, End(r, place)
  PROVE  PermitInv'
<1>1. pc' = [pc EXCEPT ![r] = place] /\ place \in Places
  BY DEF End, Goto, Places, Final
<1>2. CASE r \in Local
  <2>1. lease[r] = "held"
    BY <1>2 DEF PermitInv, Fits
  <2>2. Handed(r) /\ lease'[r] = "released"
    BY <1>2, <2>1, ReleaseHands DEF End
  <2>3. Fits(place, "released")
    BY DEF Fits, Final
  <2> QED
    BY <1>1, <2>2, <2>3, PermitKeeps
<1>3. CASE r \notin Local
  <2>1. Handed(r)
    BY <1>3 DEF End, admission, Handed
  <2> QED
    BY <1>1, <1>3, <2>1, PermitKeeps
<1> QED
  BY <1>2, <1>3

(* On its way a reply keeps its permit.                                    *)
LEMMA WorkPermit ==
  ASSUME PlacesTyped, PermitInv, NEW r \in Readers, NEW place \in Places \ (Final \cup {"new"}),
         pc[r] \notin Final \cup {"new"}, Goto(r, place), UNCHANGED admission
  PROVE  PermitInv'
<1>1. Handed(r) /\ UNCHANGED lease
  BY DEF admission, Handed
<1>2. r \in Local => Fits(place, lease[r])
  BY DEF PermitInv, Fits
<1> QED
  BY <1>1, <1>2, PermitKeeps DEF Goto

LEMMA ArrivePermit ==
  ASSUME PlacesTyped, PermitInv, SemaphoreInv, NEW r \in Readers,
         Arrive(r) \/ Admitted(r) \/ Refuse(r)
  PROVE  PermitInv'
<1>1. lease \in [Local -> {"none", "waiting", "held", "released", "refused"}] /\ pc[r] = "new"
  BY DEF SemaphoreInv, SemTypeOK, Arrive, Admitted, Refuse, At
<1>2. CASE Arrive(r) /\ r \in Local
  <2>1. \E l \in {"held", "waiting"} : lease' = [lease EXCEPT ![r] = l]
    BY <1>1, <1>2 DEF Arrive, Acquire
  <2>2. Handed(r) /\ lease'[r] \in {"held", "waiting"}
    BY <1>1, <1>2, <2>1 DEF Handed
  <2>3. PICK place \in {"cache", "new"} :
          pc' = [pc EXCEPT ![r] = place] /\ (place = "cache" <=> lease'[r] = "held")
    BY <1>2 DEF Arrive, Goto
  <2>4. Fits(place, lease'[r]) /\ place \in Places
    BY <2>2, <2>3 DEF Fits, Final, Places
  <2> QED
    BY <2>2, <2>3, <2>4, PermitKeeps
<1>3. CASE Arrive(r) /\ r \notin Local
  <2>1. Handed(r) /\ pc' = [pc EXCEPT ![r] = "cache"] /\ "cache" \in Places
    BY <1>3 DEF Arrive, admission, Handed, Goto, Places
  <2> QED
    BY <1>3, <2>1, PermitKeeps
<1>4. CASE Admitted(r)
  <2>1. Handed(r) /\ pc' = [pc EXCEPT ![r] = "cache"] /\ "cache" \in Places /\ lease'[r] = "held"
    BY <1>4 DEF Admitted, admission, Handed, Goto, Places
  <2>2. Fits("cache", "held")
    BY DEF Fits, Final
  <2> QED
    BY <2>1, <2>2, PermitKeeps
<1>5. CASE Refuse(r)
  <2>1. /\ r \in Local /\ lease' = [lease EXCEPT ![r] = "refused"]
        /\ pc' = [pc EXCEPT ![r] = "refused"] /\ "refused" \in Places
    BY <1>5 DEF Refuse, TimeOut, Goto, Places
  <2>2. Handed(r) /\ lease'[r] = "refused"
    BY <1>1, <2>1 DEF Handed
  <2>3. Fits("refused", "refused")
    BY DEF Fits, Final
  <2> QED
    BY <2>1, <2>2, <2>3, PermitKeeps
<1> QED
  BY <1>2, <1>3, <1>4, <1>5

LEMMA ReadPermit ==
  ASSUME PlacesTyped, PermitInv, SemaphoreInv, NEW r \in Readers, Read(r)
  PROVE  PermitInv'
<1>1. pc[r] \notin Final \cup {"new"}
  BY DEF Read, ReadCache, ReadRow, ReadFallback, At, Final
<1>2. "row" \in Places \ (Final \cup {"new"}) /\ "model" \in Places \ (Final \cup {"new"})
      /\ "answered" \in Final /\ "failed" \in Final
  BY DEF Places, Final
<1>3. ASSUME NEW history, Got(r, history) PROVE PermitInv'
  BY <1>1, <1>2, <1>3, EndPermit, WorkPermit DEF Got
<1>4. CASE ReadCache(r)
  BY <1>1, <1>2, <1>3, <1>4, WorkPermit DEF ReadCache
<1>5. CASE ReadRow(r)
  BY <1>1, <1>2, <1>3, <1>5, EndPermit DEF ReadRow
<1>6. CASE ReadFallback(r)
  BY <1>1, <1>2, <1>3, <1>6, EndPermit DEF ReadFallback
<1> QED
  BY <1>4, <1>5, <1>6 DEF Read

LEMMA ReplyPermit ==
  ASSUME PlacesTyped, PermitInv, SemaphoreInv, NEW r \in Replies, Reply(r)
  PROVE  PermitInv'
<1>1. r \in Readers
  BY DEF Readers
<1> DEFINE Way == Places \ (Final \cup {"new"})
<1>2. {"saveCache", "saveRow", "check", "post", "load", "store"} \subseteq Way
  BY DEF Places, Final
<1>3. {"answered", "suppressed", "failed"} \subseteq Final
  BY DEF Final
<1>4. CASE Admitted(r) \/ Refuse(r)
  BY <1>1, <1>4, ArrivePermit
<1>5. ASSUME NEW place \in Way, pc[r] \in Way, Goto(r, place), UNCHANGED admission
      PROVE  PermitInv'
  BY <1>1, <1>5, WorkPermit
<1>6. ASSUME NEW place \in Final, pc[r] \in Way, End(r, place)
      PROVE  PermitInv'
  BY <1>1, <1>6, EndPermit
<1>7. "model" \in Way
  BY DEF Places, Final
<1> HIDE DEF Way
<1>8. CASE Generate(r)
  BY <1>2, <1>3, <1>5, <1>6, <1>7, <1>8 DEF Generate, At
<1>9. CASE SaveCache(r)
  BY <1>2, <1>5, <1>9 DEF SaveCache, At
<1>10. CASE SaveRow(r)
  BY <1>2, <1>3, <1>5, <1>6, <1>10 DEF SaveRow, At
<1>11. CASE CheckDuplicate(r)
  BY <1>2, <1>3, <1>5, <1>6, <1>11 DEF CheckDuplicate, At
<1>12. CASE Post(r)
  BY <1>2, <1>3, <1>5, <1>6, <1>12 DEF Post, At
<1>13. CASE LoadPrints(r)
  BY <1>2, <1>5, <1>13 DEF LoadPrints, At
<1>14. CASE PrintsUnread(r)
  BY <1>2, <1>5, <1>14 DEF PrintsUnread, At
<1>15. CASE StorePrint(r)
  BY <1>2, <1>3, <1>6, <1>15 DEF StorePrint, At
<1> QED
  BY <1>4, <1>8, <1>9, <1>10, <1>11, <1>12, <1>13, <1>14, <1>15 DEF Reply

LEMMA PermitStep ==
  ASSUME PlacesTyped, PermitInv, SemaphoreInv, [Next]_vars
  PROVE  PermitInv'
<1>1. ASSUME UNCHANGED <<pc, lease>> PROVE PermitInv'
  BY <1>1 DEF PermitInv
<1>2. CASE UNCHANGED vars \/ ExpireHistory \/ ExpirePrints
  BY <1>1, <1>2 DEF vars, admission, ExpireHistory, ExpirePrints
<1>3. ASSUME NEW r \in Readers, Refill(r) PROVE PermitInv'
  BY <1>1, <1>3 DEF Refill, admission
<1>4. ASSUME NEW r \in Readers, Arrive(r) PROVE PermitInv'
  BY <1>4, ArrivePermit
<1>5. ASSUME NEW r \in Readers, Read(r) PROVE PermitInv'
  BY <1>5, ReadPermit
<1>6. ASSUME NEW r \in Replies, Reply(r) PROVE PermitInv'
  BY <1>6, ReplyPermit
<1> QED
  BY <1>2, <1>3, <1>4, <1>5, <1>6 DEF Next

(* A reply of this instance works, and only works, while it has a permit,  *)
(* and has given it back when it ends, in success, error or refusal        *)
(* (the try and finally of api/workflows/agentRun.ts:157-177).             *)
THEOREM PermitsMatch == Spec => []PermitWhileWorking
<1>1. Init => PermitInv
  <2> SUFFICES ASSUME Init, NEW r \in Local PROVE Fits(pc[r], lease[r])
    BY DEF PermitInv
  <2>1. pc[r] = "new" /\ lease[r] = "none"
    BY DEF Init, SemInit, Readers, Replies
  <2> QED
    BY <2>1 DEF Fits, Final
<1>2. ReplyInv /\ SemaphoreInv /\ PermitInv /\ [Next]_vars => PermitInv'
  BY PermitStep DEF ReplyInv
<1>3. PermitInv => PermitWhileWorking
  BY DEF PermitInv, Fits, PermitWhileWorking
<1> QED
  BY <1>1, <1>2, <1>3, ReplyInvariant, SemaphoreHolds, PTL DEF Spec
=============================================================================
