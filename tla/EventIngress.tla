---------------------------- MODULE EventIngress ----------------------------
(***************************************************************************)
(* The way of a Slack message from POST /slack/events to the pipeline of   *)
(* the workflow handler. Slack sends an event again when it is not         *)
(* answered in time, to any instance of the function, and several events   *)
(* for one message (message and app_mention); events, messages and intents *)
(* are deduplicated by keys in Redis, in processed_events and in the       *)
(* memory of an instance. In production: no fallback to memory alone.      *)
(*                                                                         *)
(* Event and message keys live for ten minutes, longer than Slack repeats  *)
(* itself, so they do not expire here. Deliveries with a bad signature,    *)
(* without a message or from a bot end before any of this matters.         *)
(***************************************************************************)
CONSTANTS
  Deliveries,   \* HTTP requests of Slack
  Instances,    \* instances of the ingress function
  EventOf,      \* the event of a delivery (event_id)
  MessageOf,    \* the message of an event (client_msg_id, or channel and ts)
  IntentOf,     \* the intent of a message (hash of text, channel, user, thread)
  Failures      \* may Redis, the database or the network fail, or an instance die?

Events   == {EventOf[d] : d \in Deliveries}
Messages == {MessageOf[e] : e \in Events}
Intents  == {IntentOf[m] : m \in Messages}
Message(d) == MessageOf[EventOf[d]]
Intent(d)  == IntentOf[Message(d)]

ASSUME IngressAssumption ==
  /\ Events \cap Messages = {} /\ Events \cap Intents = {} /\ Messages \cap Intents = {}
  /\ Failures \in BOOLEAN

VARIABLES
  redis,      \* the keys set in Redis (dedup:event:, dedup:msg:, dedup:intent:)
  rows,       \* the rows of processed_events
  memory,     \* memoryProcessedEvents and memoryProcessedMessages of each instance
  pc,         \* where the handling of a delivery is
  at,         \* the instance that handles it
  answer,     \* what Slack is answered: 200, 200 as a duplicate, or 503
  admittedBy, \* ghost: the store that took the delivery's message for new
  hit         \* ghost: the deliveries a failure happened to

stores == <<redis, rows, memory>>
vars == <<stores, pc, at, answer, admittedBy, hit>>

Ingress == {"event", "eventRow", "message", "messageRow", "admitted", "trigger"}

(* Keys are where they belong, and a delivery has one of the answers.      *)
TypeOK ==
  /\ redis \subseteq Events \cup Messages \cup Intents
  /\ rows \subseteq Events \cup Messages
  /\ memory \in [Instances -> SUBSET (Events \cup Messages)]
  /\ pc \in [Deliveries -> Ingress \cup {"unsent", "workflow", "executing", "ended"}]
  /\ at \in [Deliveries -> Instances]
  /\ answer \in [Deliveries -> {"none", "ok", "duplicate", "refused"}]
  /\ admittedBy \in [Deliveries -> {"none", "redis", "database"}]
  /\ hit \subseteq Deliveries

Init ==
  /\ redis = {} /\ rows = {}
  /\ memory = [i \in Instances |-> {}]
  /\ pc = [d \in Deliveries |-> "unsent"]
  /\ at \in [Deliveries -> Instances]
  /\ answer = [d \in Deliveries |-> "none"]
  /\ admittedBy = [d \in Deliveries |-> "none"]
  /\ hit = {}

-----------------------------------------------------------------------------
Goto(d, place) == pc' = [pc EXCEPT ![d] = place] /\ UNCHANGED answer
Reply(d, a)    == pc' = [pc EXCEPT ![d] = "ended"] /\ answer' = [answer EXCEPT ![d] = a]
Fails(d)       == Failures /\ hit' = hit \cup {d}

(* capDedupSet; the sets are large enough not to evict a recent key. *)
Remember(d, k) == memory' = [memory EXCEPT ![at[d]] = @ \cup {k}]

(* The readiness gate. *)
Deliver(d) ==
  /\ pc[d] = "unsent"
  /\ \/ Goto(d, "event") /\ UNCHANGED hit
     \/ Reply(d, "refused") /\ Fails(d)
  /\ UNCHANGED <<stores, at, admittedBy>>

(* A key that Redis did not set, because it was set or because the call    *)
(* failed, is looked up in memory, then goes to the database.              *)
NotSet(d, k, next) ==
  /\ IF k \in memory[at[d]] THEN Reply(d, "duplicate") ELSE Goto(d, next)
  /\ UNCHANGED memory

-----------------------------------------------------------------------------
(* isEventDuplicate                                                        *)

(* setRedisValueNX returns false for a key that is set, and for an error,  *)
(* which may have come after the key was set.                              *)
SetEventKey(d) ==
  LET e == EventOf[d]
  IN /\ pc[d] = "event"
     /\ redis' = redis \cup {e}
     /\ IF e \in redis
          THEN NotSet(d, e, "eventRow")
          ELSE Goto(d, "message") /\ Remember(d, e)
     /\ UNCHANGED <<rows, at, admittedBy, hit>>

InsertEventRow(d) ==
  LET e == EventOf[d]
  IN /\ pc[d] = "eventRow"
     /\ rows' = rows \cup {e}
     /\ IF e \in rows
          THEN Reply(d, "duplicate") /\ UNCHANGED memory
          ELSE Goto(d, "message") /\ Remember(d, e)
     /\ UNCHANGED <<redis, at, admittedBy, hit>>

-----------------------------------------------------------------------------
(* isMessageDuplicate                                                      *)

AdmitOn(d, k) ==
  /\ pc[d] = "message"
  /\ redis' = redis \cup {k}
  /\ IF k \in redis
       THEN NotSet(d, k, "messageRow") /\ UNCHANGED admittedBy
       ELSE /\ Goto(d, "admitted") /\ Remember(d, k)
            /\ admittedBy' = [admittedBy EXCEPT ![d] = "redis"]
  /\ UNCHANGED <<rows, at, hit>>

(* Mutant: messages are looked up among the events. *)
SetEventKeyAgain(d) == AdmitOn(d, EventOf[d])

(* Mutant: a plain SET, without NX. *)
SetAlways(d) ==
  /\ pc[d] = "message"
  /\ redis' = redis \cup {Message(d)}
  /\ Goto(d, "admitted") /\ Remember(d, Message(d))
  /\ admittedBy' = [admittedBy EXCEPT ![d] = "redis"]
  /\ UNCHANGED <<rows, at, hit>>

SetMessageKey(d) == AdmitOn(d, Message(d))

InsertMessageRow(d) ==
  LET m == Message(d)
  IN /\ pc[d] = "messageRow"
     /\ rows' = rows \cup {m}
     /\ IF m \in rows
          THEN Reply(d, "duplicate") /\ UNCHANGED <<memory, admittedBy>>
          ELSE /\ Goto(d, "admitted") /\ Remember(d, m)
               /\ admittedBy' = [admittedBy EXCEPT ![d] = "database"]
     /\ UNCHANGED <<redis, at, hit>>

-----------------------------------------------------------------------------
(* Failures of the stores in either of them                                *)

KeyAt(d) == IF pc[d] \in {"event", "eventRow"} THEN EventOf[d] ELSE Message(d)

RedisFails(d) ==
  /\ pc[d] \in {"event", "message"}
  /\ redis' \in {redis, redis \cup {KeyAt(d)}}
  /\ NotSet(d, KeyAt(d), IF pc[d] = "event" THEN "eventRow" ELSE "messageRow")
  /\ Fails(d)
  /\ UNCHANGED <<rows, at, admittedBy>>

(* A key found in memory does not count when both stores are away. *)
StoresAway(d) ==
  /\ pc[d] \in {"event", "message"}
  /\ redis' \in {redis, redis \cup {KeyAt(d)}}
  /\ Reply(d, "refused")
  /\ Fails(d)
  /\ UNCHANGED <<rows, memory, at, admittedBy>>

(* An INSERT that fails is answered 503. One that is sent again by query() *)
(* after it took effect finds its own row: a duplicate.                    *)
InsertFails(d) ==
  /\ pc[d] \in {"eventRow", "messageRow"}
  /\ \/ Reply(d, "refused") /\ rows' \in {rows, rows \cup {KeyAt(d)}}
     \/ Reply(d, "duplicate") /\ rows' = rows \cup {KeyAt(d)}
  /\ Fails(d)
  /\ UNCHANGED <<redis, memory, at, admittedBy>>

-----------------------------------------------------------------------------
(* The log entry, the answer, and the request to the workflow handler      *)

Admit(d) ==
  /\ pc[d] = "admitted"
  /\ pc' = [pc EXCEPT ![d] = "trigger"]
  /\ answer' = [answer EXCEPT ![d] = "ok"]
  /\ UNCHANGED <<stores, at, admittedBy, hit>>

(* A fetch that fails, or is answered 429 or 5xx, is only logged. *)
Trigger(d) ==
  /\ pc[d] = "trigger"
  /\ \/ Goto(d, "workflow") /\ UNCHANGED hit
     \/ Goto(d, "ended") /\ Fails(d)
  /\ UNCHANGED <<stores, at, admittedBy>>

(* Mutant: when Redis fails the message is executed all the same. *)
ClaimIntentOpenly(d) ==
  /\ pc[d] = "workflow"
  /\ \/ /\ redis' = redis \cup {Intent(d)}
        /\ Goto(d, IF Intent(d) \in redis THEN "ended" ELSE "executing")
        /\ UNCHANGED hit
     \/ /\ redis' \in {redis, redis \cup {Intent(d)}}
        /\ Goto(d, "executing")
        /\ Fails(d)
  /\ UNCHANGED <<rows, memory, at, admittedBy>>

(* setIntentDedup: skipped if the key is set, or if Redis fails. *)
ClaimIntent(d) ==
  /\ pc[d] = "workflow"
  /\ \/ /\ redis' = redis \cup {Intent(d)}
        /\ Goto(d, IF Intent(d) \in redis THEN "ended" ELSE "executing")
        /\ UNCHANGED hit
     \/ /\ redis' \in {redis, redis \cup {Intent(d)}}
        /\ Goto(d, "ended")
        /\ Fails(d)
  /\ UNCHANGED <<rows, memory, at, admittedBy>>

(* The pipeline ends (or is refused a permit) and the key is freed; not so *)
(* if it throws, or if the key cannot be deleted.                          *)
Complete(d) ==
  /\ pc[d] = "executing"
  /\ \/ redis' = redis \ {Intent(d)} /\ UNCHANGED hit
     \/ redis' = redis /\ Fails(d)
  /\ Goto(d, "ended")
  /\ UNCHANGED <<rows, memory, at, admittedBy>>

(* Five minutes later, which is as long as a function may run. *)
IntentExpires ==
  \E k \in Intents \cap redis :
    /\ \A d \in Deliveries : pc[d] = "executing" => Intent(d) # k
    /\ redis' = redis \ {k}
    /\ UNCHANGED <<rows, memory, pc, at, answer, admittedBy, hit>>

(* An instance of the ingress dies, with its memory. *)
Restart(i) ==
  LET lost == {d \in Deliveries : at[d] = i /\ pc[d] \in Ingress}
  IN /\ Failures
     /\ memory' = [memory EXCEPT ![i] = {}]
     /\ pc' = [d \in Deliveries |-> IF d \in lost THEN "ended" ELSE pc[d]]
     /\ hit' = hit \cup lost
     /\ UNCHANGED <<redis, rows, at, answer, admittedBy>>

-----------------------------------------------------------------------------
Handle(d) ==
  \/ Deliver(d)
  \/ SetEventKey(d) \/ InsertEventRow(d) \/ SetMessageKey(d) \/ InsertMessageRow(d)
  \/ RedisFails(d) \/ StoresAway(d) \/ InsertFails(d)
  \/ Admit(d) \/ Trigger(d) \/ ClaimIntent(d) \/ Complete(d)

Next ==
  \/ \E d \in Deliveries : Handle(d)
  \/ IntentExpires
  \/ \E i \in Instances : Restart(i)

Spec == Init /\ [][Next]_vars

-----------------------------------------------------------------------------
(* Properties                                                              *)

Admitted(d) == admittedBy[d] # "none"

(* What the two stores guarantee, whatever fails: each admits a message at *)
(* most once, so it is handled twice at most, however often Slack sends it *)
(* and under whichever events.                                             *)
AdmittedOncePerStore ==
  \A c, d \in Deliveries :
    Message(c) = Message(d) /\ Admitted(c) /\ admittedBy[c] = admittedBy[d] => c = d

(* A delivery is not dropped for nothing: unless a failure happened to one *)
(* of its message's deliveries, one of them was admitted or still may be.  *)
NothingLost ==
  \A d \in Deliveries : answer[d] = "duplicate" =>
    \E c \in Deliveries :
      /\ Message(c) = Message(d)
      /\ Admitted(c) \/ pc[c] \in {"message", "messageRow"} \/ c \in hit

(* Equal intents are not executed at the same time, whatever fails: an     *)
(* intent is skipped rather than executed without its key.                 *)
OneAtATime ==
  \A c, d \in Deliveries :
    pc[c] = "executing" /\ pc[d] = "executing" /\ Intent(c) = Intent(d) => c = d
=============================================================================
