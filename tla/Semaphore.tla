------------------------------ MODULE Semaphore ------------------------------
(***************************************************************************)
(* The counting semaphore that limits how many direct replies a handler    *)
(* instance executes at once: permits, a FIFO queue of waiters with        *)
(* time-outs, and leases that may be released more than once. Each method  *)
(* runs to completion on the event loop, so each is one action; what       *)
(* interleaves is the order of calls, timers and releases. DirectReply     *)
(* extends this module: its replies are the callers.                       *)
(***************************************************************************)
EXTENDS Integers, SequencesExt

CONSTANTS
  Callers,       \* requests that ask for a permit, again and again
  Untimed,       \* those that wait without a time-out
  MaxPermits     \* maxPermits: DIRECT_REPLY_CONCURRENCY

ASSUME SemaphoreAssumption == Untimed \subseteq Callers /\ MaxPermits \in Nat \ {0}

VARIABLES
  permits,       \* this.permits
  queue,         \* this.waitQueue, by caller
  lease          \* what each caller's last acquirePermit has come to

admission == <<permits, queue, lease>>

(* Permits stay between none and MaxPermits; waiters are callers.          *)
SemTypeOK ==
  /\ permits \in 0..MaxPermits
  /\ queue \in Seq(Callers)
  /\ lease \in [Callers -> {"none", "waiting", "held", "released", "refused"}]

SemInit ==
  /\ permits = MaxPermits
  /\ queue = <<>>
  /\ lease = [c \in Callers |-> "none"]

-----------------------------------------------------------------------------
(* acquirePermit: at once, not at all (timeoutMs <= 0), or after a wait. *)
Acquire(c) ==
  /\ lease[c] \notin {"waiting", "held"}
  /\ \/ /\ permits > 0
        /\ permits' = permits - 1
        /\ lease' = [lease EXCEPT ![c] = "held"]
        /\ UNCHANGED queue
     \/ /\ permits = 0 /\ c \notin Untimed
        /\ lease' = [lease EXCEPT ![c] = "refused"]
        /\ UNCHANGED <<permits, queue>>
     \/ /\ permits = 0
        /\ lease' = [lease EXCEPT ![c] = "waiting"]
        /\ queue' = Append(queue, c)
        /\ UNCHANGED permits

(* Mutant: the waiter is told, but stays in the queue. *)
TimeOutForgotten(c) ==
  /\ lease[c] = "waiting" /\ c \notin Untimed
  /\ lease' = [lease EXCEPT ![c] = "refused"]
  /\ UNCHANGED <<permits, queue>>

(* The timer of a waiter that was handed no permit (which would have       *)
(* cleared the timer): it is in the queue (NoIdlePermit), and leaves it.   *)
TimeOut(c) ==
  /\ lease[c] = "waiting" /\ c \notin Untimed
  /\ lease' = [lease EXCEPT ![c] = "refused"]
  /\ \E idx \in DOMAIN queue : queue[idx] = c /\ queue' = RemoveAt(queue, idx)
  /\ UNCHANGED permits

(* Mutant of release(): the last waiter is served first. *)
ReleaseToLast(leases) ==
  IF queue # <<>>
    THEN /\ queue' = SubSeq(queue, 1, Len(queue) - 1)
         /\ lease' = [leases EXCEPT ![queue[Len(queue)]] = "held"]
         /\ UNCHANGED permits
    ELSE /\ permits' = IF permits < MaxPermits THEN permits + 1 ELSE permits
         /\ lease' = leases
         /\ UNCHANGED queue

(* release(): hands the permit to the first waiter, or back to the pool. *)
Release(leases) ==
  IF queue # <<>>
    THEN /\ queue' = Tail(queue)
         /\ lease' = [leases EXCEPT ![Head(queue)] = "held"]
         /\ UNCHANGED permits
    ELSE /\ permits' = IF permits < MaxPermits THEN permits + 1 ELSE permits
         /\ lease' = leases
         /\ UNCHANGED queue

(* Mutant: the lease forgets that it was released. *)
ReleaseAlways(c) ==
  /\ lease[c] \in {"held", "released", "refused"}
  /\ Release([lease EXCEPT ![c] = "released"])

(* Permit.release: effective once, and never on a refused permit. *)
ReleasePermit(c) ==
  /\ lease[c] \in {"held", "released", "refused"}
  /\ IF lease[c] = "held" THEN Release([lease EXCEPT ![c] = "released"])
                          ELSE UNCHANGED admission

SemNext == \E c \in Callers : Acquire(c) \/ TimeOut(c) \/ ReleasePermit(c)

SemSpec == SemInit /\ [][SemNext]_admission

(* The handler releases in a finally block, whatever the pipeline does. *)
SemFairSpec == SemSpec /\ \A c \in Callers : WF_admission(ReleasePermit(c))

-----------------------------------------------------------------------------
(* Properties                                                              *)

Holders == {c \in Callers : lease[c] = "held"}
Waiters == {c \in Callers : lease[c] = "waiting"}

(* Exactly-once release: no permit leaks (to a waiter that timed out while *)
(* it was handed over, say) and none is made up by a second release, so    *)
(* never more than MaxPermits replies execute.                             *)
PermitsConserved == permits + Cardinality(Holders) = MaxPermits

(* Nobody waits while a permit is free, and the queue holds just those who *)
(* still wait: a release wakes somebody who will use it.                   *)
NoIdlePermit ==
  /\ Waiters # {} => permits = 0
  /\ Waiters = {queue[k] : k \in DOMAIN queue}

(* FIFO fairness: whoever gets a permit overtakes nobody who waits.        *)
NoOvertaking ==
  [][\A c \in Callers : lease[c] # "held" /\ lease'[c] = "held"
       => queue = <<>> \/ Head(queue) = c]_admission

(* FIFO bounds the wait: a caller without a time-out gets a permit, though *)
(* others come back for more for ever.                                     *)
EverybodyAdmitted ==
  \A c \in Untimed : lease[c] = "waiting" ~> lease[c] = "held"
=============================================================================
